----------------------------- MODULE BoardProofs ----------------------------
(***************************************************************************)
(* Theorems about Board for any map, tribes and kinds of units: what the   *)
(* rows of units and resources keep through any number of requests.        *)
(***************************************************************************)
EXTENDS Board, FiniteSetTheorems, WellFoundedInduction, TLAPS

-----------------------------------------------------------------------------
(* Squares and kinds                                                       *)

LEMMA MirrorFacts ==
    ASSUME NEW s \in Squares PROVE Mirror(s) \in Squares /\ Mirror(Mirror(s)) = s
BY DEF Squares, Mirror

LEMMA KindFacts ==
    ASSUME NEW k \in DOMAIN UnitKind
    PROVE  /\ DOMAIN UnitKind[k] = {"cost", "damage", "defence", "movement", "range", "attack"}
           /\ UnitKind[k] \in [cost : {2, 3, 5, 8}, damage : 0 .. 8, defence : 0 .. 6,
                               movement : 1 .. 3, range : 1 .. 3,
                               attack : {"Melee", "Ranged", "Enticement"}]
<1>1. DOMAIN UnitKind[k] = {"cost", "damage", "defence", "movement", "range", "attack"}
  BY DEF UnitKind, Stats
<1>2. UnitKind[k] \in [cost : {2, 3, 5, 8}, damage : 0 .. 8, defence : 0 .. 6,
                       movement : 1 .. 3, range : 1 .. 3,
                       attack : {"Melee", "Ranged", "Enticement"}]
  BY DEF UnitKind, Stats
<1> QED BY <1>1, <1>2

\* What an upsert leaves alone and what it writes: price and attack, strength.
SamePrice(x, y) == x.cost = y.cost /\ x.attack = y.attack
SameStrength(x, y) == /\ x.damage = y.damage /\ x.defence = y.defence
                      /\ x.movement = y.movement /\ x.range = y.range

\* No two kinds of units are equally strong in every respect.
LEMMA StrengthTells ==
    ASSUME NEW k \in DOMAIN UnitKind, NEW l \in DOMAIN UnitKind,
           SameStrength(UnitKind[k], UnitKind[l])
    PROVE  k = l
BY DEF UnitKind, Stats, SameStrength

\* A unit is shown as a kind that has its price and its strength.
LEMMA ShownIsSame ==
    ASSUME NEW u, NEW k \in DOMAIN UnitKind
    PROVE  k \in ShownKinds(u) <=> SamePrice(UnitKind[k], u) /\ SameStrength(UnitKind[k], u)
<1>1. k \in ShownKinds(u) <=> \A field \in DOMAIN UnitKind[k] : UnitKind[k][field] = u[field]
  BY DEF ShownKinds
<1> QED BY <1>1, KindFacts DEF SamePrice, SameStrength

-----------------------------------------------------------------------------
(* The tile shows a unit                                                   *)

\* Of the units on a square one is of the tribe loaded last.
LEMMA OccupiedShows ==
    ASSUME units \subseteq Unit, IsFiniteSet(units), NEW u \in units
    PROVE  UnitAt(u.at) # {}
<1> DEFINE T == {v \in units : v.at = u.at}
           Up(x) == {y \in T : y.tribe > x.tribe}
           A == {Up(x) : x \in T}
<1>1. IsFiniteSet(T)
  BY FS_Subset
<1>2. A \subseteq FiniteSubsetsOf(T) /\ A # {}
  <2>1. u \in T
    OBVIOUS
  <2>2. \A x \in T : Up(x) \in SUBSET T
    OBVIOUS
  <2>3. A \subseteq SUBSET T
    BY <2>2
  <2>4. Up(u) \in A
    BY <2>1
  <2> HIDE DEF Up, A, T
  <2> QED BY <2>3, <2>4, <1>1, FS_FiniteSubsetsOfFinite
<1>3. PICK a \in A : \A b \in A : <<b, a>> \notin StrictSubsetOrdering(T)
  <2> HIDE DEF A
  <2> QED BY <1>2, FS_StrictSubsetOrderingWellFounded, WFMin
<1>4. PICK x \in T : a = Up(x)
  OBVIOUS
<1>5. \A y \in T : y.tribe \in Nat
  BY BoardAssumption DEF Unit
<1>6. Up(x) = {}
  <2> SUFFICES ASSUME NEW y \in Up(x) PROVE FALSE
    OBVIOUS
  <2>1. y \in T /\ y.tribe > x.tribe
    OBVIOUS
  <2>2. Up(y) \subseteq Up(x)
    BY <2>1, <1>5
  <2>3. y \notin Up(y)
    BY <2>1, <1>5
  <2>4. Up(y) \in SUBSET T /\ Up(x) \in SUBSET T
    OBVIOUS
  <2>5. <<Up(y), Up(x)>> \in StrictSubsetOrdering(T)
    <3> HIDE DEF Up
    <3> QED BY <2>2, <2>3, <2>4 DEF StrictSubsetOrdering
  <2>6. Up(y) \in A
    BY <2>1
  <2> HIDE DEF Up, A
  <2> QED BY <1>3, <1>4, <2>5, <2>6
<1>7. \A v \in units : v.at = x.at => v.tribe <= x.tribe
  BY <1>5, <1>6
<1> QED BY <1>7 DEF UnitAt, Visible

-----------------------------------------------------------------------------
(* Rows of units                                                           *)

\* A row keeps the price and the attack of one kind that was paid for and the
\* strength of one, perhaps another.
Built(u) == /\ \E k \in u.hired : SamePrice(UnitKind[k], u)
            /\ \E k \in u.hired : SameStrength(UnitKind[k], u)

Placed(u) == Passable(u.tribe, u.at) \/ u.turned \/ u.at \in Arrivals

Sound == {u \in Unit : Built(u) /\ Placed(u)}

OneRowEach(us) == \A u, v \in us : u.tribe = v.tribe /\ u.at = v.at => u = v

Spread(us) == \A u, v \in us : u # v /\ u.at = v.at => u.at \in Arrivals

\* At most n rows, each sound, no two of a tribe on a square, no two on a square
\* where no recruits appear.
Rows(us, n) == /\ us \subseteq Sound
               /\ OneRowEach(us) /\ Spread(us)
               /\ IsFiniteSet(us) /\ Cardinality(us) <= n

LEMMA FewerRows ==
    ASSUME NEW us, NEW n \in Nat, Rows(us, n), NEW vs \in SUBSET us
    PROVE  Rows(vs, n)
<1>1. IsFiniteSet(vs) /\ Cardinality(vs) <= Cardinality(us)
  BY FS_Subset DEF Rows
<1>2. Cardinality(vs) \in Nat /\ Cardinality(us) \in Nat
  BY <1>1, FS_CardinalityType DEF Rows
<1>3. vs \subseteq Sound /\ OneRowEach(vs) /\ Spread(vs)
  BY DEF Rows, OneRowEach, Spread
<1>4. Cardinality(us) <= n
  BY DEF Rows
<1>5. Cardinality(vs) <= n
  BY <1>1, <1>2, <1>4
<1> QED BY <1>1, <1>3, <1>5 DEF Rows

\* A row less.
LEMMA LessRow ==
    ASSUME NEW us, NEW n \in Nat, Rows(us, n), NEW u \in us
    PROVE  n - 1 \in Nat /\ Rows(us \ {u}, n - 1)
<1>1. IsFiniteSet(us \ {u}) /\ Cardinality(us \ {u}) = Cardinality(us) - 1
  BY FS_RemoveElement DEF Rows
<1>2. Cardinality(us \ {u}) \in Nat /\ Cardinality(us) \in Nat
  BY <1>1, FS_CardinalityType DEF Rows
<1>3. Rows(us \ {u}, n)
  BY FewerRows
<1>4. Cardinality(us) <= n
  BY DEF Rows
<1>5. n - 1 \in Nat /\ Cardinality(us \ {u}) <= n - 1
  BY <1>1, <1>2, <1>4
<1> QED BY <1>1, <1>3, <1>5 DEF Rows

\* A row more, of another tribe than what stands there.
LEMMA MoreRow ==
    ASSUME NEW us, NEW n \in Nat, Rows(us, n), NEW u \in Sound,
           \A v \in us : v.at = u.at => v.tribe # u.tribe /\ u.at \in Arrivals
    PROVE  Rows(us \cup {u}, n + 1)
<1>1. /\ IsFiniteSet(us \cup {u})
      /\ Cardinality(us \cup {u}) =
            IF u \in us THEN Cardinality(us) ELSE Cardinality(us) + 1
  BY FS_AddElement DEF Rows
<1>2. Cardinality(us) \in Nat /\ Cardinality(us) <= n
  BY FS_CardinalityType DEF Rows
<1>3. Cardinality(us \cup {u}) <= n + 1
  BY <1>1, <1>2
<1>4. us \cup {u} \subseteq Sound
  BY DEF Rows
<1>5. OneRowEach(us \cup {u})
  BY DEF Rows, OneRowEach
<1>6. Spread(us \cup {u})
  BY DEF Rows, Spread
<1> QED BY <1>1, <1>3, <1>4, <1>5, <1>6 DEF Rows

\* The row that an upsert writes over v is as sound as the two.
LEMMA MergedIsSound ==
    ASSUME NEW u \in Sound, NEW v \in Sound, u.tribe = v.tribe, u.at = v.at
    PROVE  LET m == [u EXCEPT !.cost = v.cost, !.attack = v.attack,
                              !.turned = @ \/ v.turned, !.hired = @ \cup v.hired]
           IN  m \in Sound /\ m.tribe = u.tribe /\ m.at = u.at
<1> DEFINE m == [u EXCEPT !.cost = v.cost, !.attack = v.attack,
                          !.turned = @ \/ v.turned, !.hired = @ \cup v.hired]
<1>1. u \in Unit /\ v \in Unit
  BY DEF Sound
<1>2. /\ m.tribe = u.tribe /\ m.at = u.at /\ m.cost = v.cost /\ m.attack = v.attack
      /\ m.hired = u.hired \cup v.hired
      /\ m.damage = u.damage /\ m.defence = u.defence
      /\ m.movement = u.movement /\ m.range = u.range
  BY <1>1 DEF Unit
<1>3. m.turned = (u.turned \/ v.turned)
  BY <1>1 DEF Unit
<1>4. m \in Unit
  BY <1>1 DEF Unit
<1> HIDE DEF m
<1>5. Built(m)
  BY <1>2 DEF Sound, Built, SamePrice, SameStrength
<1>6. Placed(m)
  BY <1>2, <1>3 DEF Sound, Placed
<1> QED BY <1>2, <1>4, <1>5, <1>6 DEF Sound, m

\* An upsert adds a row or writes over one.
LEMMA InsertedRows ==
    ASSUME NEW us, NEW n \in Nat, Rows(us, n), NEW u \in Sound,
           \A v \in us : v.at = u.at => u.at \in Arrivals
    PROVE  Rows(Insert(us, u), n + 1)
<1> DEFINE same == {v \in us : v.tribe = u.tribe /\ v.at = u.at}
           Merged(v) == [u EXCEPT !.cost = v.cost, !.attack = v.attack,
                                  !.turned = @ \/ v.turned, !.hired = @ \cup v.hired]
<1>0. Rows(us \ same, n)
  BY FewerRows
<1>1. CASE same = {}
  <2>1. Insert(us, u) = us \cup {u}
    BY <1>1 DEF Insert
  <2>2. \A v \in us : v.at = u.at => v.tribe # u.tribe
    BY <1>1
  <2> QED BY <2>1, <2>2, MoreRow
<1>2. CASE same # {}
  <2>1. PICK v \in same : TRUE
    BY <1>2
  <2>2. same = {v}
    BY <2>1 DEF Rows, OneRowEach
  <2>3. Insert(us, u) = (us \ same) \cup {Merged(w) : w \in same}
    BY <1>2 DEF Insert
  <2>4. {Merged(w) : w \in same} = {Merged(v)}
    <3> HIDE DEF Merged, same
    <3> QED BY <2>2
  <2>5. v \in Sound /\ u.tribe = v.tribe /\ u.at = v.at
    BY <2>1 DEF Rows
  <2>6. Merged(v) \in Sound /\ Merged(v).tribe = u.tribe /\ Merged(v).at = u.at
    BY <2>5, MergedIsSound
  <2>7. \A w \in us \ same : w.at = u.at => w.tribe # u.tribe /\ u.at \in Arrivals
    OBVIOUS
  <2> HIDE DEF Merged, same
  <2> QED BY <1>0, <2>3, <2>4, <2>6, <2>7, MoreRow
<1> QED BY <1>1, <1>2

-----------------------------------------------------------------------------
(* Units that recruit, move and change sides                               *)

LEMMA RecruitIsSound ==
    ASSUME NEW t \in Tribes, NEW k \in Hired
    PROVE  Recruit(t, k) \in Sound /\ Recruit(t, k).at \in Arrivals
<1> DEFINE r == Recruit(t, k)
<1>1. k \in DOMAIN UnitKind
  BY BoardAssumption
<1>2. Mirror(Capital[t]) \in Squares /\ Mirror(Capital[t]) \in Arrivals
  BY BoardAssumption, MirrorFacts DEF Arrivals
<1>3. r \in Unit
  BY <1>1, <1>2, KindFacts DEF Recruit, Unit
<1>4. /\ r.at = Mirror(Capital[t]) /\ r.hired = {k}
      /\ SamePrice(UnitKind[k], r) /\ SameStrength(UnitKind[k], r)
  BY DEF Recruit, SamePrice, SameStrength
<1> HIDE DEF r
<1>5. Built(r) /\ Placed(r)
  BY <1>2, <1>4 DEF Built, Placed
<1> QED BY <1>2, <1>3, <1>4, <1>5 DEF Sound, r

\* Where a unit may walk: on the map, on terrain it can enter, where nobody is shown.
LEMMA FreeFacts ==
    ASSUME NEW u \in Unit, NEW to \in Free(u)
    PROVE  to \in Squares /\ Passable(u.tribe, to) /\ UnitAt(to) = {}
<1>1. PICK p \in Directions \X (1 .. u.movement) :
         /\ \A j \in 1 .. p[2] : Clear(u, p[1], j)
         /\ to = Step(u.at, p[1], p[2])
  BY DEF Free
<1>2. p[2] \in 1 .. u.movement
  OBVIOUS
<1>3. u.movement \in 1 .. 3
  BY DEF Unit
<1>4. p[2] \in 1 .. p[2]
  BY <1>2, <1>3
<1>5. Clear(u, p[1], p[2])
  BY <1>1, <1>4
<1> QED BY <1>1, <1>5 DEF Clear, Open

LEMMA FoesFacts ==
    ASSUME NEW u \in Unit, NEW to \in Foes(u)
    PROVE  /\ to \in Squares /\ Passable(u.tribe, to)
           /\ \E v \in UnitAt(to) : v.tribe # u.tribe
BY DEF Foes, Open

LEMMA MovedIsSound ==
    ASSUME NEW u \in Sound, NEW to \in Squares, Passable(u.tribe, to)
    PROVE  LET m == [u EXCEPT !.at = to] IN m \in Sound /\ m.tribe = u.tribe /\ m.at = to
<1> DEFINE m == [u EXCEPT !.at = to]
<1>1. u \in Unit /\ Built(u)
  BY DEF Sound
<1>2. /\ m.tribe = u.tribe /\ m.at = to /\ m.cost = u.cost /\ m.attack = u.attack
      /\ m.hired = u.hired /\ m.damage = u.damage /\ m.defence = u.defence
      /\ m.movement = u.movement /\ m.range = u.range
  BY <1>1 DEF Unit
<1>3. m \in Unit
  BY <1>1 DEF Unit
<1> HIDE DEF m
<1>4. Built(m)
  BY <1>1, <1>2 DEF Built, SamePrice, SameStrength
<1>5. Placed(m)
  BY <1>2 DEF Placed
<1> QED BY <1>2, <1>3, <1>4, <1>5 DEF Sound, m

LEMMA TurnedIsSound ==
    ASSUME NEW v \in Sound, NEW t \in Tribes
    PROVE  LET m == [v EXCEPT !.tribe = t, !.turned = TRUE]
           IN  m \in Sound /\ m.tribe = t /\ m.at = v.at
<1> DEFINE m == [v EXCEPT !.tribe = t, !.turned = TRUE]
<1>1. v \in Unit /\ Built(v)
  BY DEF Sound
<1>2. /\ m.tribe = t /\ m.at = v.at /\ m.cost = v.cost /\ m.attack = v.attack
      /\ m.hired = v.hired /\ m.damage = v.damage /\ m.defence = v.defence
      /\ m.movement = v.movement /\ m.range = v.range
  BY <1>1 DEF Unit
<1>3. m \in Unit /\ m.turned
  BY <1>1 DEF Unit
<1> HIDE DEF m
<1>4. Built(m)
  BY <1>1, <1>2 DEF Built, SamePrice, SameStrength
<1>5. Placed(m)
  BY <1>3 DEF Placed
<1> QED BY <1>2, <1>3, <1>4, <1>5 DEF Sound, m

-----------------------------------------------------------------------------
(* What every request keeps                                                *)

\* Resources are where they were generated or on the mirror image of that square.
ResourcesInv ==
    /\ DOMAIN resources = Squares
    /\ ResourcesStayOnTwoSquares

\* Inductive.  OneRowEach is the unique key of the table; Built says what the two
\* upserts of one row can have made of it.
IInv == Rows(units, paid) /\ paid \in 0 .. MaxPaid /\ ResourcesInv

LEMMA SaveKeepsResources ==
    ASSUME ResourcesInv, NEW session, \A s \in Squares : session[s] \subseteq resources[s],
           resources' = SaveResources(session)
    PROVE  ResourcesInv'
<1>1. DOMAIN resources' = Squares
  BY DEF SaveResources
<1>2. ASSUME NEW s \in Squares
      PROVE  resources'[s] \subseteq Growing[s] \cup Growing[Mirror(s)]
  <2>1. resources'[s] = resources[s] \cup session[Mirror(s)]
    BY DEF SaveResources
  <2>2. Mirror(s) \in Squares /\ Mirror(Mirror(s)) = s
    BY MirrorFacts
  <2>3. resources[s] \subseteq Growing[s] \cup Growing[Mirror(s)]
    BY DEF ResourcesInv, ResourcesStayOnTwoSquares
  <2>4. resources[Mirror(s)] \subseteq Growing[Mirror(s)] \cup Growing[s]
    BY <2>2 DEF ResourcesInv, ResourcesStayOnTwoSquares
  <2> QED BY <2>1, <2>2, <2>3, <2>4
<1> QED BY <1>1, <1>2 DEF ResourcesInv, ResourcesStayOnTwoSquares

LEMMA InitIInv == Init => IInv
<1> SUFFICES ASSUME Init PROVE IInv
  OBVIOUS
<1>1. Rows({}, 0)
  BY FS_EmptySet DEF Rows, OneRowEach, Spread
<1>2. ResourcesInv
  BY BoardAssumption DEF Init, ResourcesInv, ResourcesStayOnTwoSquares
<1> QED BY <1>1, <1>2, BoardAssumption DEF Init, IInv

LEMMA WalkKeepsRows ==
    ASSUME IInv, NEW u \in units, NEW to, Walk(u, to)
    PROVE  Rows(units', paid)
<1> DEFINE m == [u EXCEPT !.at = to]
<1>1. paid \in Nat /\ Rows(units, paid) /\ u \in Sound /\ u \in Unit
  BY BoardAssumption DEF IInv, Rows, Sound
<1>2. to \in Squares /\ Passable(u.tribe, to) /\ UnitAt(to) = {}
  BY <1>1, FreeFacts DEF Walk
<1>3. m \in Sound /\ m.at = to
  BY <1>1, <1>2, MovedIsSound
<1>4. \A v \in units : v.at # to
  BY <1>1, <1>2, OccupiedShows DEF Rows, Sound
<1>5. paid - 1 \in Nat /\ Rows(units \ {u}, paid - 1)
  BY <1>1, LessRow
<1>6. units' = Insert(units \ {u}, m)
  BY DEF Walk, Saved
<1> HIDE DEF m
<1>7. Rows(Insert(units \ {u}, m), (paid - 1) + 1)
  BY <1>3, <1>4, <1>5, InsertedRows
<1> QED BY <1>1, <1>6, <1>7

LEMMA AttackKeepsRows ==
    ASSUME IInv, NEW u \in units, NEW to, Attack(u, to)
    PROVE  Rows(units', paid)
<1> DEFINE m == [u EXCEPT !.at = to]
<1>1. paid \in Nat /\ Rows(units, paid) /\ u \in Sound /\ u \in Unit
  BY BoardAssumption DEF IInv, Rows, Sound
<1>2. to \in Foes(u) /\ to \in Squares /\ Passable(u.tribe, to)
  BY <1>1, FoesFacts DEF Attack
<1>3. m \in Sound /\ m.at = to /\ m.tribe = u.tribe
  BY <1>1, <1>2, MovedIsSound
<1>4. PICK v \in UnitAt(to) :
         LET others == units \ {u, v}
             own    == {w \in others : w.tribe = u.tribe /\ w.at = to}
         IN  \/ units' = Turned(units, v, u.tribe)
             \/ units' = units \ {v}
             \/ units' = Insert(others, m)
             \/ \E w \in own : units' = Insert((others \ {w}) \cup {m}, w)
  BY DEF Attack, Saved
<1>5. v \in units /\ v.at = to /\ v \in Sound
  BY <1>1 DEF UnitAt, Visible, Rows
<1>6. \A w \in units \ {v} : w.at = to => to \in Arrivals
  BY <1>1, <1>5 DEF Rows, Spread
<1>7. paid - 1 \in Nat /\ Rows(units \ {u}, paid - 1)
  BY <1>1, LessRow
<1> DEFINE others == units \ {u, v}
<1>8. Rows(others, paid - 1)
  BY <1>7, FewerRows
<1> HIDE DEF m
<1>a. CASE units' = Turned(units, v, u.tribe)
  <2> DEFINE n == [v EXCEPT !.tribe = u.tribe, !.turned = TRUE]
  <2>1. n \in Sound /\ n.at = to
    BY <1>1, <1>5, TurnedIsSound DEF Unit
  <2>2. Rows(units \ {v}, paid - 1)
    BY <1>1, <1>5, LessRow
  <2>3. units' = Insert(units \ {v}, n)
    BY <1>a DEF Turned
  <2> HIDE DEF n
  <2>4. Rows(Insert(units \ {v}, n), (paid - 1) + 1)
    BY <1>6, <1>7, <2>1, <2>2, InsertedRows
  <2> QED BY <1>1, <2>3, <2>4
<1>b. CASE units' = units \ {v}
  BY <1>1, <1>b, FewerRows
<1>c. CASE units' = Insert(others, m)
  <2>1. \A w \in others : w.at = m.at => m.at \in Arrivals
    BY <1>3, <1>6
  <2> HIDE DEF others
  <2>2. Rows(Insert(others, m), (paid - 1) + 1)
    BY <1>3, <1>7, <1>8, <2>1, InsertedRows
  <2> QED BY <1>1, <1>c, <2>2
<1>d. CASE \E w \in {x \in others : x.tribe = u.tribe /\ x.at = to} :
             units' = Insert((others \ {w}) \cup {m}, w)
  <2>1. PICK w \in others : /\ w.tribe = u.tribe /\ w.at = to
                            /\ units' = Insert((others \ {w}) \cup {m}, w)
    BY <1>d
  <2>2. (paid - 1) - 1 \in Nat /\ Rows(others \ {w}, (paid - 1) - 1)
    BY <1>7, <1>8, LessRow
  <2>3. to \in Arrivals /\ w \in Sound
    BY <1>1, <1>6, <2>1 DEF Rows
  <2>4. \A x \in others \ {w} : x.at = to => x.tribe # u.tribe
    BY <1>1, <2>1 DEF Rows, OneRowEach
  <2> HIDE DEF others
  <2>5. Rows((others \ {w}) \cup {m}, ((paid - 1) - 1) + 1)
    BY <1>3, <2>2, <2>3, <2>4, MoreRow
  <2>6. Rows((others \ {w}) \cup {m}, paid - 1)
    BY <1>1, <2>5
  <2>7. \A x \in (others \ {w}) \cup {m} : x.at = w.at => w.at \in Arrivals
    BY <2>1, <2>3
  <2>8. Rows(Insert((others \ {w}) \cup {m}, w), (paid - 1) + 1)
    BY <1>7, <2>3, <2>6, <2>7, InsertedRows
  <2> QED BY <1>1, <2>1, <2>8
<1> QED BY <1>4, <1>a, <1>b, <1>c, <1>d

LEMMA StepIInv == ASSUME IInv, [Next]_vars PROVE IInv'
<1>0. /\ Rows(units, paid) /\ paid \in 0 .. MaxPaid /\ ResourcesInv /\ paid \in Nat
      /\ MaxPaid \in Nat
  BY BoardAssumption DEF IInv
<1>1. ASSUME NEW t \in Tribes, NEW k \in Hired, CityRecruit(t, k) PROVE IInv'
  <2>1. Recruit(t, k) \in Sound /\ Recruit(t, k).at \in Arrivals
    BY RecruitIsSound
  <2>2. Rows(Insert(units, Recruit(t, k)), paid + 1)
    BY <1>0, <2>1, InsertedRows
  <2>3. /\ units' = Insert(units, Recruit(t, k)) /\ paid' = paid + 1 /\ paid < MaxPaid
        /\ resources' = SaveResources(resources)
    BY <1>1 DEF CityRecruit, Saved
  <2>4. Rows(units', paid')
    BY <2>2, <2>3
  <2>5. ResourcesInv'
    BY <1>0, <2>3, SaveKeepsResources
  <2>6. paid' \in 0 .. MaxPaid
    BY <1>0, <2>3
  <2> QED BY <2>4, <2>5, <2>6 DEF IInv
<1>2. ASSUME NEW u \in units, NEW to, Walk(u, to) \/ Attack(u, to), UNCHANGED paid
      PROVE  IInv'
  <2>1. Rows(units', paid)
    BY <1>2, WalkKeepsRows, AttackKeepsRows
  <2>2. resources' = SaveResources(resources)
    BY <1>2 DEF Walk, Attack, Saved
  <2>3. ResourcesInv'
    BY <1>0, <2>2, SaveKeepsResources
  <2>4. Rows(units', paid') /\ paid' \in 0 .. MaxPaid
    BY <1>0, <1>2, <2>1
  <2> QED BY <2>3, <2>4 DEF IInv
<1>3. ASSUME NEW s \in Squares, NEW r \in resources[s], TileCollect(s, r) PROVE IInv'
  <2> DEFINE session == [resources EXCEPT ![s] = @ \ {r}]
  <2>1. \A q \in Squares : session[q] \subseteq resources[q]
    BY <1>0 DEF ResourcesInv
  <2>2. units' = units /\ paid' = paid /\ resources' = SaveResources(session)
    BY <1>3 DEF TileCollect, Saved
  <2> HIDE DEF session
  <2>3. ResourcesInv'
    BY <1>0, <2>1, <2>2, SaveKeepsResources
  <2>4. Rows(units', paid') /\ paid' \in 0 .. MaxPaid
    BY <1>0, <2>2
  <2> QED BY <2>3, <2>4 DEF IInv
<1>4. ASSUME UNCHANGED vars PROVE IInv'
  <2>1. units' = units /\ paid' = paid /\ resources' = resources
    BY <1>4 DEF vars
  <2>2. ResourcesInv'
    BY <1>0, <2>1 DEF ResourcesInv, ResourcesStayOnTwoSquares
  <2>3. Rows(units', paid') /\ paid' \in 0 .. MaxPaid
    BY <1>0, <2>1
  <2> QED BY <2>2, <2>3 DEF IInv
<1>5. ASSUME NEW from, NEW to, UnitGoto(from, to) \/ UnitFight(from, to) PROVE IInv'
  <2>1. PICK u \in UnitAt(from) :
           /\ \E q : Walk(u, q) \/ Attack(u, q)
           /\ UNCHANGED paid
    BY <1>5 DEF UnitGoto, UnitFight
  <2>2. u \in units
    BY DEF UnitAt, Visible
  <2> QED BY <1>2, <2>1, <2>2
<1> QED BY <1>1, <1>3, <1>4, <1>5 DEF Next

LEMMA Inductive == Spec => []IInv
<1>1. IInv /\ [Next]_vars => IInv'
  BY StepIInv
<1> QED BY InitIInv, <1>1, PTL DEF Spec

-----------------------------------------------------------------------------
(* Theorems                                                                *)

\* Every unit is on the map, every field of it has a value of its kind, and the
\* table of resources covers the map.
THEOREM TypeCorrect == Spec => []TypeOK
<1>1. IInv => TypeOK
  BY DEF IInv, Rows, Sound, ResourcesInv, TypeOK
<1> QED BY <1>1, Inductive, PTL

\* Whatever moves, fights and changes sides, two units share a square only where
\* recruits appear.
THEOREM OverlapsStayOnArrivals == Spec => []OverlapsOnlyOnArrival
<1>1. IInv => OverlapsOnlyOnArrival
  BY DEF IInv, Rows, Spread, OverlapsOnlyOnArrival
<1> QED BY <1>1, Inductive, PTL

\* However often the rows were read and written back, there are no more of them
\* than units were paid for.
THEOREM NoUnitForFree == Spec => []UnitsArePaidFor
<1>1. IInv => UnitsArePaidFor
  BY DEF IInv, Rows, UnitsArePaidFor
<1> QED BY <1>1, Inductive, PTL

\* A unit that was never enticed stands where its tribe can go or where it arrived.
THEOREM StandsOnItsGround == Spec => []StandsWhereItMay
<1>1. IInv => StandsWhereItMay
  BY DEF IInv, Rows, Sound, Placed, StandsWhereItMay
<1> QED BY <1>1, Inductive, PTL

\* The numbers of a row are enough to tell the kind that was paid for: no upsert,
\* no change of hands makes a kind nobody hired.
THEOREM ShownAsHired == Spec => []ShownAsPaidFor
<1>1. ASSUME IInv, NEW u \in units
      PROVE  /\ ShownKinds(u) \subseteq u.hired
             /\ \A k \in u.hired : u.hired = {k} => ShownKinds(u) = {k}
  <2>1. u \in Unit /\ Built(u)
    BY <1>1 DEF IInv, Rows, Sound
  <2>2. u.hired \subseteq DOMAIN UnitKind
    BY <2>1, BoardAssumption DEF Unit
  <2>3. PICK k \in u.hired : SamePrice(UnitKind[k], u)
    BY <2>1 DEF Built
  <2>4. PICK l \in u.hired : SameStrength(UnitKind[l], u)
    BY <2>1 DEF Built
  <2>5. \A j \in ShownKinds(u) : j = l
    <3> SUFFICES ASSUME NEW j \in ShownKinds(u) PROVE j = l
      OBVIOUS
    <3>1. j \in DOMAIN UnitKind /\ SameStrength(UnitKind[j], u)
      BY ShownIsSame DEF ShownKinds
    <3>2. SameStrength(UnitKind[j], UnitKind[l])
      BY <2>4, <3>1 DEF SameStrength
    <3> QED BY <2>2, <3>1, <3>2, StrengthTells
  <2>6. ASSUME u.hired = {l} PROVE l \in ShownKinds(u)
    BY <2>2, <2>3, <2>4, <2>6, ShownIsSame
  <2> QED BY <2>5, <2>6
<1>2. IInv => ShownAsPaidFor
  BY <1>1 DEF ShownAsPaidFor
<1> QED BY <1>2, Inductive, PTL

\* A resource never spreads further than from its square to the mirror image.
THEOREM ResourcesStay == Spec => []ResourcesStayOnTwoSquares
<1>1. IInv => ResourcesStayOnTwoSquares
  BY DEF IInv, ResourcesInv
<1> QED BY <1>1, Inductive, PTL
=============================================================================
