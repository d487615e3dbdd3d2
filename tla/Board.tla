------------------------------- MODULE Board -------------------------------
(***************************************************************************)
(* Units and resources on the map of a stored game.  Every action request  *)
(* loads the rows, acts on the session and saves it in one transaction, or *)
(* changes nothing; so a step is a whole request, and what the session     *)
(* does beyond the rows is gone after it.  A square is named as its row of *)
(* tiles is, <<x, y>>; some of the code turns the two around.              *)
(***************************************************************************)
EXTENDS Integers, FiniteSets

CONSTANTS
    Size,       \* Map::size
    Tribes,     \* ids of the players' tribes, in the order they are loaded
    Capital,    \* Capital[t]: the square of t's only city
    Terrain,    \* Terrain[s]
    Climbers,   \* tribes with the ability Climbing
    Hired,      \* kinds of units the tribes may hire
    Growing,    \* Growing[s]: the resources generated on square s
    MaxPaid     \* bound: units paid for

Squares == (0 .. Size - 1) \X (0 .. Size - 1)

Stats(cost, damage, defence, movement, range, attack) ==
    [cost |-> cost, damage |-> damage, defence |-> defence,
     movement |-> movement, range |-> range, attack |-> attack]

\* The units that walk, with twice their damage and defence.  A row keeps these
\* numbers, and nothing that is read back says which class they came from.
UnitKind == [
    Warrior   |-> Stats(2, 4, 4, 1, 1, "Melee"),
    Rider     |-> Stats(3, 4, 2, 2, 1, "Melee"),
    Archer    |-> Stats(3, 4, 2, 1, 2, "Ranged"),
    Knight    |-> Stats(8, 7, 2, 3, 1, "Melee"),
    Defender  |-> Stats(3, 2, 6, 1, 1, "Melee"),
    Swordsman |-> Stats(5, 6, 6, 1, 1, "Melee"),
    Priest    |-> Stats(5, 0, 2, 1, 1, "Enticement"),
    Catapult  |-> Stats(8, 8, 0, 1, 3, "Ranged")]

ASSUME BoardAssumption ==
    /\ Size \in Nat /\ MaxPaid \in Nat
    /\ Tribes \subseteq Nat \ {0}
    /\ Capital \in [Tribes -> Squares]
    /\ Climbers \subseteq Tribes /\ Hired \subseteq DOMAIN UnitKind
    /\ DOMAIN Terrain = Squares /\ DOMAIN Growing = Squares

Unit == [tribe : Tribes, at : Squares, cost : {2, 3, 5, 8}, damage : 0 .. 8,
         defence : 0 .. 6, movement : 1 .. 3, range : 1 .. 3,
         attack : {"Melee", "Ranged", "Enticement"},
         turned : BOOLEAN, hired : SUBSET Hired]

VARIABLES
    units,       \* rows of units; turned and hired are histories: it was enticed,
                 \* and the kinds that were paid for and became it
    resources,   \* rows of resources, by square
    paid,        \* history: units paid for
    collected    \* history: <<square, resource>> taken by the last request

vars == <<units, resources, paid, collected>>

\* Recruitment and the fight request swap the coordinates of a square, and so does
\* save() when it looks up the tile of a resource.
Mirror(s) == <<s[2], s[1]>>

-----------------------------------------------------------------------------
(* Loading, saving                                                         *)

\* A tile points to one unit: the one of the tribe loaded last.
Visible == {u \in units : \A v \in units : v.at = u.at => v.tribe <= u.tribe}
UnitAt(s) == {u \in Visible : u.at = s}

\* Rows are unique by tribe and square, and the insert of a second unit updates the
\* row of the first in all but its price and its attack.
Insert(us, u) ==
    LET same == {v \in us : v.tribe = u.tribe /\ v.at = u.at}
    IN  (us \ same) \cup
        IF same = {} THEN {u}
        ELSE {[u EXCEPT !.cost = v.cost, !.attack = v.attack, !.turned = @ \/ v.turned,
                        !.hired = @ \cup v.hired] : v \in same}

\* Mutant of ShownKinds: price and attack are not looked at.
ShownByStrength(u) ==
    {k \in DOMAIN UnitKind : \A field \in {"damage", "defence"} :
        UnitKind[k][field] = u[field]}

\* getUnitTypeByStats: the kinds a state answer may show a unit as; "None" if none.
ShownKinds(u) ==
    {k \in DOMAIN UnitKind : \A field \in DOMAIN UnitKind[k] : UnitKind[k][field] = u[field]}

\* Mutant of SaveResources: the tile is looked up by x and x.
SaveResourcesByColumn(session) ==
    [s \in Squares |-> resources[s] \cup
        IF s[1] # s[2] THEN {} ELSE UNION {session[q] : q \in {r \in Squares : r[1] = s[1]}}]

\* Rows are only inserted: what the session lacks stays.
SaveResources(session) ==
    [s \in Squares |-> resources[s] \cup session[Mirror(s)]]

-----------------------------------------------------------------------------
(* UnitMover                                                               *)

Directions == ((-1 .. 1) \X (-1 .. 1)) \ {<<0, 0>>}

\* No unit of the model swims, and no port can be built in a stored game.
Passable(t, s) ==
    Terrain[s] \in {"Field", "Forest"} \/ (Terrain[s] = "Mountain" /\ t \in Climbers)

Step(s, d, k) == <<s[1] + k * d[1], s[2] + k * d[2]>>

Open(u, d, k) == Step(u.at, d, k) \in Squares /\ Passable(u.tribe, Step(u.at, d, k))

Clear(u, d, k) == Open(u, d, k) /\ UnitAt(Step(u.at, d, k)) = {}

\* Mutants of Free: units do not block the way; the way is checked for units only;
\* the way is not checked at all.
FreeThroughUnits(u) ==
    {Step(u.at, q[1], q[2]) : q \in
        {p \in Directions \X (1 .. u.movement) : \A j \in 1 .. p[2] : Open(u, p[1], j)}}
FreeOverWater(u) ==
    {Step(u.at, q[1], q[2]) : q \in
        {p \in Directions \X (1 .. u.movement) :
            \A j \in 1 .. p[2] : LET s == Step(u.at, p[1], j)
                                IN  s \in Squares /\ UnitAt(s) = {}}}
FreeBeyondTheMap(u) ==
    {Step(u.at, q[1], q[2]) : q \in Directions \X (1 .. u.movement)}

\* GetAvailableTiles().first: straight ahead until the first obstacle.
Free(u) ==
    {Step(u.at, q[1], q[2]) : q \in
        {p \in Directions \X (1 .. u.movement) : \A j \in 1 .. p[2] : Clear(u, p[1], j)}}

\* GetAvailableTiles().second: the first unit ahead, if it is another tribe's.
Foes(u) ==
    {Step(u.at, q[1], q[2]) : q \in
        {p \in Directions \X (1 .. u.movement) :
            /\ \A j \in 1 .. p[2] - 1 : Clear(u, p[1], j)
            /\ Open(u, p[1], p[2])
            /\ \E v \in UnitAt(Step(u.at, p[1], p[2])) : v.tribe # u.tribe}}

IsNear(s, q) == s[1] - q[1] \in -1 .. 1 /\ s[2] - q[2] \in -1 .. 1

Saved(us, session) ==
    /\ units' = us
    /\ resources' = SaveResources(session)

Walk(u, to) ==
    /\ to \in Free(u)
    /\ Saved(Insert(units \ {u}, [u EXCEPT !.at = to]), resources)

\* Mutant of Turned: the unit stays in the list of its old tribe.
TurnedByCopy(us, v, t) == Insert(us, [v EXCEPT !.tribe = t, !.turned = TRUE])

Turned(us, v, t) == Insert(us \ {v}, [v EXCEPT !.tribe = t, !.turned = TRUE])

\* A loaded unit is a plain BasicUnit, which dies of any damage.  The attacker
\* takes the square if it is next to it; if a hidden unit of its own tribe stands
\* there too, the two become one row, whichever was inserted first.
Attack(u, to) ==
    /\ to \in Foes(u)
    /\ \E v \in UnitAt(to) :
         LET others == units \ {u, v}
             moved  == [u EXCEPT !.at = to]
             own    == {w \in others : w.tribe = u.tribe /\ w.at = to}
         IN  IF u.attack = "Enticement" THEN Saved(Turned(units, v, u.tribe), resources)
             ELSE IF ~ IsNear(u.at, to) THEN Saved(units \ {v}, resources)
             ELSE \/ Saved(Insert(others, moved), resources)
                  \/ \E w \in own : Saved(Insert((others \ {w}) \cup {moved}, w), resources)

-----------------------------------------------------------------------------
Init ==
    /\ units = {}
    /\ resources = Growing
    /\ paid = 0
    /\ collected = {}

\* A unit of kind k as the city of t makes it.
Recruit(t, k) ==
    LET kind == UnitKind[k]
    IN  [tribe |-> t, at |-> Mirror(Capital[t]), cost |-> kind.cost,
         damage |-> kind.damage, defence |-> kind.defence, movement |-> kind.movement,
         range |-> kind.range, attack |-> kind.attack, turned |-> FALSE, hired |-> {k}]

\* CityRecruit.  The square of the city must be free; the unit appears on its
\* mirror image.  Price and technology are in Economy; unitCount is never counted.
CityRecruit(t, k) ==
    /\ paid < MaxPaid
    /\ UnitAt(Capital[t]) = {}
    /\ Saved(Insert(units, Recruit(t, k)), resources)
    /\ paid' = paid + 1
    /\ collected' = {}

\* UnitGoto; anyone may move any unit.
UnitGoto(from, to) ==
    /\ \E u \in UnitAt(from) : Walk(u, to) \/ Attack(u, to)
    /\ collected' = {}
    /\ UNCHANGED paid

\* UnitFight: the same, on the mirror image of the square it names.
UnitFight(from, to) ==
    /\ \E u \in UnitAt(from) : Walk(u, Mirror(to)) \/ Attack(u, Mirror(to))
    /\ collected' = {}
    /\ UNCHANGED paid

\* TileCollect: the resource leaves the session's tile.
TileCollect(s, r) ==
    /\ r \in resources[s]
    /\ Saved(units, [resources EXCEPT ![s] = @ \ {r}])
    /\ collected' = {<<s, r>>}
    /\ UNCHANGED paid

\* A request about any other square throws and changes nothing.
Next ==
    \/ \E t \in Tribes, k \in Hired : CityRecruit(t, k)
    \/ \E u \in Visible : \E to \in Free(u) \cup Foes(u) :
           UnitGoto(u.at, to) \/ UnitFight(u.at, Mirror(to))
    \/ \E s \in Squares : \E r \in resources[s] : TileCollect(s, r)

Spec == Init /\ [][Next]_vars
-----------------------------------------------------------------------------
(* Properties                                                              *)

\* Every unit is on the map, and every field holds a value of its kind.
TypeOK ==
    /\ units \in SUBSET Unit
    /\ DOMAIN resources = Squares
    /\ paid \in 0 .. MaxPaid

\* Where the units of a city appear.
Arrivals == {Mirror(Capital[t]) : t \in Tribes}

\* Two units share a square only where recruits appear: recruitment is the only
\* operation that does not look at the square it fills, and neither fights nor
\* enticement carry the overlap elsewhere.
OverlapsOnlyOnArrival ==
    \A u, v \in units : u # v /\ u.at = v.at => u.at \in Arrivals

\* No unit comes from nothing: moving, fighting, enticing and the upserts of the
\* save leave at most one row for each unit paid for.
UnitsArePaidFor == Cardinality(units) <= paid

\* A unit is shown as the kind that was paid for, whoever has it now and however
\* often it was saved and read back by its numbers; one that two recruits became is
\* shown as one of them or as nothing, never as a third kind.
ShownAsPaidFor ==
    \A u \in units :
        /\ ShownKinds(u) \subseteq u.hired
        /\ \A k \in u.hired : u.hired = {k} => ShownKinds(u) = {k}

\* A unit on terrain its tribe cannot enter arrived there or was enticed there.
StandsWhereItMay ==
    \A u \in units : Passable(u.tribe, u.at) \/ u.turned \/ u.at \in Arrivals

\* A resource is found where it was generated or on the mirror image of that
\* square, however often the game has been saved.
ResourcesStayOnTwoSquares ==
    \A s \in Squares : resources[s] \subseteq Growing[s] \cup Growing[Mirror(s)]

\* ServerTests.cpp:212: after a collection the resource is gone from its square.
CollectedIsGone == \A p \in collected : p[2] \notin resources[p[1]]
=============================================================================
