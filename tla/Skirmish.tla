------------------------------ MODULE Skirmish ------------------------------
(***************************************************************************)
(* Fights and marches of the game library on a map it generated or a test  *)
(* built: a unit keeps its class and its health there, and lives as long   *)
(* as its tribe's list holds it.  (Loaded units have neither: see Board.)  *)
(* A square <<x, y>> is the tile getTile(x, y), whose own x and y are the  *)
(* same; a unit has an x and a y of its own.                               *)
(***************************************************************************)
EXTENDS Integers, FiniteSets

CONSTANTS Units, Tribes, Nobody,
          Size,        \* of the map
          Terrain,     \* Terrain[s]
          CityOf,      \* CityOf[s]: the tribe of the city on s, or Nobody
          Roads, Ports,\* squares with a road; whose first building is a port
          Climbers, Floaters,    \* tribes with Climbing, with Floating
          Sheltered,   \* Sheltered[t]: the terrain t may use as a defence
          Armies,      \* initial units: [Units -> [tribe, kind, pas, at]]
          MaxHealth    \* MaxHealth[t]: bound on the health of the units of t

Squares == (0..Size - 1) \X (0..Size - 1)

\* The classes.  hits is twice the damage; full and odd are the divisor in
\* getHealthPercentage and its odd part; a ship takes both from its passenger.
Of(hits, defence, movement, full, odd) ==
    [hits |-> hits, defence |-> defence, movement |-> movement, full |-> full, odd |-> odd]
OnFoot == [Warrior   |-> Of(4, 2, 1, 10, 5),  Rider    |-> Of(4, 1, 2, 10, 5),
           Knight    |-> Of(7, 1, 3, 10, 5),  Defender |-> Of(2, 3, 1, 15, 15),
           Swordsman |-> Of(6, 3, 1, 15, 15), Priest   |-> Of(0, 1, 1, 10, 5),
           Archer    |-> Of(4, 1, 1, 10, 5),  Catapult |-> Of(8, 0, 1, 10, 5),
           Giant     |-> Of(10, 4, 1, 40, 5)]
Afloat == [Boat     |-> Of(0, 1, 2, 0, 0), Scout    |-> Of(4, 1, 3, 0, 0),
           Ram      |-> Of(6, 3, 3, 0, 0), Squadron |-> Of(6, 2, 2, 0, 0),
           Rampager |-> Of(8, 4, 2, 0, 0)]
Walkers == DOMAIN OnFoot
Ships == DOMAIN Afloat
Class == [k \in Walkers \cup Ships |-> IF k \in Ships THEN Afloat[k] ELSE OnFoot[k]]

ASSUME SkirmishAssumption ==
    /\ Size \in Nat /\ MaxHealth \in [Tribes -> Nat] /\ Nobody \notin Units \cup Tribes
    /\ Terrain \in [Squares -> {"Field", "Forest", "Mountain", "Water", "DeepWater"}]
    /\ CityOf \in [Squares -> Tribes \cup {Nobody}]
    /\ \A army \in Armies, u \in Units :
          /\ army[u].tribe \in Tribes /\ army[u].at \in Squares
          /\ army[u].kind \in DOMAIN Class /\ army[u].pas \in Walkers
          /\ army[u].kind \in Walkers => army[u].pas = army[u].kind
          /\ \A v \in Units \ {u} : army[u].at # army[v].at

VARIABLES
    unit,      \* tribe, kind, passenger's class, place, health, kills of every unit
    aboard,    \* health of the passenger of a ship
    list,      \* Tribe::units
    on,        \* Tile::unit, the weak pointer of a square
    progress,  \* what each tribe's Killer achievement has counted
    duel       \* history: the last exchange at close quarters, how many in a row, and
               \* the attacker's health before the first

vars == <<unit, aboard, list, on, progress, duel>>

Body(u) == Class[unit[u].pas]     \* whose health percentage counts
Listed(u) == \E t \in Tribes : u \in list[t]
UnitOn(s) == IF on[s] # Nobody /\ Listed(on[s]) THEN on[s] ELSE Nobody

Apart == [pair |-> <<>>, rounds |-> 0, health |-> 0]

TypeOK ==
    /\ unit \in [Units -> [tribe : Tribes, kind : DOMAIN Class, pas : Walkers, at : Squares,
                           health : Int, kills : Nat]]
    /\ aboard \in [Units -> Int]
    /\ list \in [Tribes -> SUBSET Units]
    /\ on \in [Squares -> Units \cup {Nobody}]
    /\ progress \in [Tribes -> Nat]
    /\ duel \in [pair : {<<>>} \cup Units \X Units, rounds : Nat, health : Int]

Init ==
    \E army \in Armies :
        /\ unit = [u \in Units |-> [tribe |-> army[u].tribe, kind |-> army[u].kind,
                                    pas |-> army[u].pas, at |-> army[u].at,
                                    health |-> Class[army[u].pas].full, kills |-> 0]]
        /\ aboard = [u \in Units |-> Class[army[u].pas].full]
        /\ list = [t \in Tribes |-> {u \in Units : army[u].tribe = t}]
        /\ on = [s \in Squares |-> IF \E u \in Units : army[u].at = s
                                   THEN CHOOSE u \in Units : army[u].at = s ELSE Nobody]
        /\ progress = [t \in Tribes |-> 0]
        /\ duel = Apart
-----------------------------------------------------------------------------
(***************************************************************************)
(* DamageCalculator.                                                       *)
(***************************************************************************)
\* ceil of n / d in double arithmetic.  A whole result may come out a little above
\* itself and be rounded up, unless the sum has nothing to round: the strength is
\* none or the odd part of the divisor divides the health.
Ceil(n, d, strength, h, odd) ==
    LET c == -((-n) \div d)
    IN  IF strength # 0 /\ h % odd # 0 /\ n % d = 0 THEN {c, c + 1} ELSE {c}

\* Twice the modifier: 1 on a field, 1.5 elsewhere, 2 in a city of one's own,
\* where no technology is asked for.
Modifier(d) ==
    LET s == unit[d].at
    IN  IF CityOf[s] = unit[d].tribe THEN 4
        ELSE IF Terrain[s] # "Field" /\ Terrain[s] \in Sheltered[unit[d].tribe] THEN 3 ELSE 2

\* (damage * h/full - defence - defence * (modifier - 1) + 2) * 2.5 of an attacker
\* whose health is h; less than nothing when the defence is strong.
Damage(a, d, h) ==
    LET full == Body(a).full
        own == Class[unit[d].kind].defence * full
    IN  Ceil(5 * (Class[unit[a].kind].hits * h - own * Modifier(d) + 4 * full),
             4 * full, Class[unit[a].kind].hits, h, Body(a).odd)

\* Mutant: the two is forgotten.
BackdraftMild(d, h) ==
    Ceil(5 * Class[unit[d].kind].defence * h, 2 * Body(d).full,
         Class[unit[d].kind].defence, h, Body(d).odd)
\* (defence * h/full + 2) * 2.5
Backdraft(d, h) ==
    Ceil(5 * (Class[unit[d].kind].defence * h + 2 * Body(d).full), 2 * Body(d).full,
         Class[unit[d].kind].defence, h, Body(d).odd)

\* The health a percentage is taken of.
Vigour(u) == IF unit[u].kind \in Ships THEN aboard[u] ELSE unit[u].health

IsNear(a, d) == /\ unit[a].at[1] - unit[d].at[1] \in -1..1
                /\ unit[a].at[2] - unit[d].at[2] \in -1..1

\* The blows of one exchange: what the defender suffers and what the attacker does.
\* A defender that lives and is near strikes back with the health it has left.
Falls(u, n) == unit[u].health <= n

Answers(a, d, x) == ~Falls(d, x) /\ IsNear(a, d)

Blows(a, d) == UNION {{<<x, y>> : y \in IF Answers(a, d, x) THEN Backdraft(d, Vigour(d) - x)
                                        ELSE {0}} :
                      x \in Damage(a, d, Vigour(a))}

Fallen(a, d, b) == {u \in {a, d} : Falls(u, IF u = d THEN b[1] ELSE b[2])}

Wounded(a, d, b) ==
    [u \in Units |->
        IF u \notin {a, d} THEN unit[u]
        ELSE [unit[u] EXCEPT !.health = @ - (IF u = d THEN b[1] ELSE b[2]),
                             !.kills = @ + Cardinality(Fallen(a, d, b) \ {u})]]

\* A ship passes the blow on.
Passengers(a, d, b) ==
    [u \in Units |-> IF u \in {a, d} /\ unit[u].kind \in Ships
                     THEN aboard[u] - (IF u = d THEN b[1] ELSE b[2]) ELSE aboard[u]]

\* Mutant: an attacker that is struck dead stays in its list.
BuryDefender(a, d, b) == [t \in Tribes |-> list[t] \ (Fallen(a, d, b) \ {a})]
Bury(a, d, b) == [t \in Tribes |-> list[t] \ Fallen(a, d, b)]

\* Mutant: a kill in defence is not counted.
CountAttacks(a, d, b) ==
    [t \in Tribes |-> progress[t] + Cardinality({u \in Fallen(a, d, b) \ {a} : unit[u].tribe = t})]
\* The achievement counted is the one of the tribe that lost the unit.
Count(a, d, b) ==
    [t \in Tribes |-> progress[t] + Cardinality({u \in Fallen(a, d, b) : unit[u].tribe = t})]

\* The square a dead unit was said to be on loses its unit.
Cleared(a, d, b) ==
    [s \in Squares |-> IF \E u \in Fallen(a, d, b) : unit[u].at = s THEN Nobody ELSE on[s]]

Round(a, d, b) ==
    IF Fallen(a, d, b) # {} \/ ~IsNear(a, d) THEN Apart
    ELSE IF duel.pair = <<a, d>> THEN [duel EXCEPT !.rounds = @ + 1]
    ELSE [pair |-> <<a, d>>, rounds |-> 1, health |-> unit[a].health]

\* What an exchange does besides the place of the attacker.
Exchange(a, d, b) ==
    /\ \A u \in {a, d} : Wounded(a, d, b)[u].health <= MaxHealth[unit[u].tribe]
    /\ aboard' = Passengers(a, d, b)
    /\ list' = Bury(a, d, b)
    /\ progress' = Count(a, d, b)
    /\ duel' = Round(a, d, b)

Enticed(a, d) == [list EXCEPT ![unit[d].tribe] = @ \ {d}, ![unit[a].tribe] = @ \cup {d}]

Entice(a, d) ==
    /\ unit[a].kind = "Priest"
    /\ unit' = [unit EXCEPT ![d].tribe = unit[a].tribe]
    /\ list' = Enticed(a, d)
    /\ duel' = Apart
    /\ UNCHANGED <<aboard, on, progress>>

\* DamageCalculator::Fight as the tests call it, from at most three squares.
Fight(a, d) ==
    /\ Listed(a) /\ Listed(d) /\ unit[a].tribe # unit[d].tribe
    /\ \A i \in 1..2 : unit[a].at[i] - unit[d].at[i] \in -3..3
    /\ \/ Entice(a, d)
       \/ /\ unit[a].kind # "Priest"
          /\ \E b \in Blows(a, d) : /\ Exchange(a, d, b)
                                    /\ unit' = Wounded(a, d, b)
                                    /\ on' = Cleared(a, d, b)
-----------------------------------------------------------------------------
(***************************************************************************)
(* UnitMover.                                                              *)
(***************************************************************************)
\* The search starts from getTile(y, x), not getTile(x, y).
Mirror(s) == <<s[2], s[1]>>
StartOf(u) == Mirror(unit[u].at)

MovementRange(u) == Class[unit[u].kind].movement + (IF StartOf(u) \in Roads THEN 1 ELSE 0)

\* Mutant: only the map counts.
CanMoveAnywhere(u, s) == Terrain[s] = "Mountain" => unit[u].tribe \in Climbers
CanMove(u, s) ==
    LET ship == unit[u].kind \in Ships
    IN  CASE Terrain[s] \in {"Water", "DeepWater"} -> ship
          [] Terrain[s] = "Mountain" -> unit[u].tribe \in Climbers
          [] Terrain[s] \in {"Field", "Forest"} /\ s \in Ports ->
                 ship \/ unit[u].tribe \in Floaters
          [] OTHER -> ~ship

Directions == ((-1..1) \X (-1..1)) \ {<<0, 0>>}
Ahead(u, d, k) == <<StartOf(u)[1] + k * d[1], StartOf(u)[2] + k * d[2]>>
Enters(u, s) == s \in Squares /\ CanMove(u, s)

\* The squares u sees straight ahead up to the first obstacle: those without a unit
\* and those with another tribe's.
Reached(u) == {Ahead(u, p[1], p[2]) : p \in
    {q \in Directions \X (1..MovementRange(u)) :
        /\ \A j \in 1..q[2] : Enters(u, Ahead(u, q[1], j))
        /\ \A j \in 1..q[2] - 1 : UnitOn(Ahead(u, q[1], j)) = Nobody}}
Free(u) == {s \in Reached(u) : UnitOn(s) = Nobody}
Foes(u) == {s \in Reached(u) : UnitOn(s) # Nobody /\ unit[UnitOn(s)].tribe # unit[u].tribe}

\* The attacker takes the square of a unit it kills next to it.
AttackOn(u, to) ==
    /\ Listed(u)
    /\ LET d == UnitOn(to)
       IN  \/ Entice(u, d)
           \/ /\ unit[u].kind # "Priest"
              /\ \E b \in Blows(u, d) :
                   /\ Exchange(u, d, b)
                   /\ IF Falls(d, b[1]) /\ IsNear(u, d)
                      THEN /\ unit' = [Wounded(u, d, b) EXCEPT ![u].at = to]
                           /\ on' = [Cleared(u, d, b) EXCEPT ![unit[u].at] = Nobody, ![to] = u]
                      ELSE /\ unit' = Wounded(u, d, b)
                           /\ on' = Cleared(u, d, b)
Attack(u) == \E to \in Foes(u) : AttackOn(u, to)

\* A walk empties getTile(y, x), an attack getTile(x, y).
WalkTo(u, to) ==
    /\ Listed(u)
    /\ on' = [on EXCEPT ![Mirror(unit[u].at)] = Nobody, ![to] = u]
    /\ unit' = [unit EXCEPT ![u].at = to]
    /\ duel' = Apart
    /\ UNCHANGED <<aboard, list, progress>>
Walk(u) == \E to \in Free(u) : WalkTo(u, to)

Next == \/ \E a, d \in Units : Fight(a, d)
        \/ \E u \in Units : Attack(u) \/ Walk(u)

Spec == Init /\ [][Next]_vars
-----------------------------------------------------------------------------
(***************************************************************************)
(* Properties.                                                             *)
(***************************************************************************)
\* TheFallenAreGone: a unit is in the list of the tribe it names while it has health,
\* and then in none, whatever struck it or enticed it.
TheFallenAreGone ==
    \A u \in Units, t \in Tribes :
        u \in list[t] <=> unit[u].health > 0 /\ unit[u].tribe = t

\* KillsAreLosses: every unit lost is one kill of one unit, and one step of the
\* achievement of the tribe that lost it; enticing is neither.
KillsAreLosses ==
    LET lost == {u \in Units : unit[u].health <= 0}
    IN  /\ \E killer \in [lost -> Units] :
              /\ \A v \in lost : killer[v] # v
              /\ \A u \in Units : unit[u].kills = Cardinality({v \in lost : killer[v] = u})
        /\ \A t \in Tribes : progress[t] = Cardinality({u \in lost : unit[u].tribe = t})

\* ShipSharesItsFate: a ship and its passenger lose the same.
ShipSharesItsFate == \A u \in Units : unit[u].kind \in Ships => aboard[u] = unit[u].health

\* DuelIsShort: a unit that goes on attacking another next to it is left with less
\* health by every answer, five at least, even if each of its own blows heals the
\* other: as many exchanges are possible as its health holds fives.
DuelIsShort ==
    duel.rounds > 0 => LET a == duel.pair[1]
                       IN  0 < unit[a].health /\ unit[a].health <= duel.health - 5 * duel.rounds

\* BlowsAreExchanged: no step hurts more than two units or kills more than one, and
\* an attacker that dies has left its killer alive.
BlowsAreExchanged ==
    [][LET hurt == {u \in Units : unit'[u].health # unit[u].health}
           dead == {u \in hurt : unit'[u].health <= 0}
       IN  Cardinality(hurt) <= 2 /\ Cardinality(dead) <= 1]_vars

\* FightsEndCleanly: however two units fight, the dead are gone from every list, one at
\* a time, and nobody else is hurt, except that a ship and its passenger are one.
FightsEndCleanly == [](TheFallenAreGone /\ ShipSharesItsFate) /\ BlowsAreExchanged

\* KeepsToItsElement: ships stay on water, in ports and on mountains their tribe can
\* climb, others off the water, also when they take the square of a unit they killed.
KeepsToItsElement ==
    \A u \in Units : LET s == unit[u].at
                     IN  IF unit[u].kind \in Ships
                         THEN Terrain[s] \in {"Water", "DeepWater", "Mountain"} \/ s \in Ports
                         ELSE Terrain[s] \notin {"Water", "DeepWater"}
=============================================================================
