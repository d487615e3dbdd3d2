----------------------------- MODULE MCSkirmish -----------------------------
(***************************************************************************)
(* Small armies: duels of all pairs of classes next to each other and two  *)
(* squares apart, in a city and in rough terrain; marches of a walker and  *)
(* a ship on a map with water, a mountain, a port and roads.               *)
(***************************************************************************)
EXTENDS Skirmish

CONSTANTS a1, b1   \* units

Place(tribe, kind, pas, at) == [tribe |-> tribe, kind |-> kind, pas |-> pas, at |-> at]
On(kind) == IF kind \in Ships THEN {"Swordsman", "Giant"} ELSE {kind}

\* Tribes 0 and 1 fight duels, 2 and 3 march; 2 and 3 climb.
MCTribes == 0..3
MCSheltered == [t \in MCTribes |-> IF t = 1 THEN {"Mountain", "Water"} ELSE {}]

\* Duels: on mountains that the two cannot climb, so that nobody marches; the
\* defender stands on its city, next to the attacker or, a walker, two squares away.
DuelCity == [s \in Squares |-> IF s = <<0, 1>> THEN 1 ELSE Nobody]
DuelArmies ==
    {[u \in {a1, b1} |-> IF u = a1 THEN Place(0, p[1], p[2], <<0, 0>>)
                         ELSE Place(1, p[3], p[4], p[5])] :
        p \in {q \in (DOMAIN Class) \X Walkers \X (DOMAIN Class) \X Walkers
                     \X {<<0, 1>>, <<1, 1>>, <<2, 0>>} :
                 /\ q[2] = IF q[1] \in Ships THEN "Swordsman" ELSE q[1]
                 /\ q[4] \in On(q[3])
                 /\ q[5] = <<2, 0>> => q[3] \in Walkers}}

\* Marches: on three by three squares in the far corner, with deep water around that
\* the ships there cannot reach.
MCTerrain == [s \in Squares |->
    CASE s[1] < 3 /\ s[2] < 3 -> "Mountain"
      [] s \in {<<5, 5>>, <<6, 6>>} -> "Water"
      [] s = <<6, 5>> -> "Mountain"
      [] s[1] > 3 /\ s[2] > 3 -> "Field"
      [] OTHER -> "DeepWater"]
MCRoads == {<<4, 5>>, <<5, 4>>}
MCPorts == {<<5, 6>>}
\* The marching armies are the smaller ones.
MCMaxHealth == [t \in MCTribes |-> IF t < 2 THEN 40 ELSE 10]
MarchArmies ==
    {[u \in {a1, b1} |-> IF u = a1 THEN Place(2, p[1], p[1], <<4, 5>>)
                         ELSE Place(3, p[2][1], p[2][2], p[2][3])] :
        p \in {"Knight", "Priest", "Catapult"}
              \X {<<"Rampager", "Warrior", <<6, 6>>>>, <<"Scout", "Archer", <<6, 6>>>>,
                  <<"Swordsman", "Swordsman", <<4, 4>>>>}}
MCArmies == DuelArmies \cup MarchArmies
=============================================================================
