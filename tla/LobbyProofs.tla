---------------------------- MODULE LobbyProofs ----------------------------
(***************************************************************************)
(* Theorems about Lobby, for any users, cities and bounds.                 *)
(***************************************************************************)
EXTENDS Lobby, TLAPS, WellFoundedInduction, FiniteSetTheorems

\* A bounded set of naturals that is not empty has a largest element.
LEMMA LargestElement ==
    ASSUME NEW n \in Nat, NEW S \in SUBSET (0 .. n), S # {}
    PROVE  \E m \in S : \A k \in S : k <= m
<1> DEFINE D == {d \in Nat : \E s \in S : d = n - s}
<1>1. IsWellFoundedOn(OpToRel(<, Nat), Nat)
  BY NatLessThanWellFounded
<1>2. D \subseteq Nat /\ D # {}
  <2>1. PICK s \in S : TRUE
    OBVIOUS
  <2>2. n - s \in D
    BY <2>1
  <2> QED BY <2>2
<1>3. PICK d \in D : \A e \in D : ~ (<<e, d>> \in OpToRel(<, Nat))
  BY <1>1, <1>2, WFMin
<1>4. \A e \in D : ~ (e < d)
  BY <1>3 DEF OpToRel
<1>5. PICK m \in S : d = n - m
  OBVIOUS
<1>6. ASSUME NEW k \in S PROVE k <= m
  <2>1. n - k \in D
    OBVIOUS
  <2> QED BY <2>1, <1>4, <1>5
<1> QED BY <1>6

\* connect() reads back an id of the games table, or 0.
LEMMA LastGameType ==
    ASSUME NEW G \in SUBSET GameIds
    PROVE  /\ LastGame(G) \in (0 .. MaxGame) \cap ({0} \cup G)
           /\ \A g \in G : g <= LastGame(G)
<1>1. {0} \cup G \in SUBSET (0 .. MaxGame)
  BY LobbyAssumption DEF GameIds
<1>2. \E m \in {0} \cup G : \A k \in {0} \cup G : k <= m
  BY <1>1, LargestElement, LobbyAssumption
<1>3. \E m \in {0} \cup G : \A k \in {0} \cup G : m >= k
  BY <1>1, <1>2
<1> QED BY <1>1, <1>3 DEF LastGame, Max

\* Rotation stays inside the vector, except that two tribes rotate to index 2.
LEMMA NextTurnRange ==
    ASSUME NEW n \in Nat \ {0}, NEW cur \in Nat, cur < n
    PROVE  /\ NextTurn(cur, n) \in Nat
           /\ NextTurn(cur, n) < n \/ (n = 2 /\ NextTurn(cur, n) = n)
<1>1. (cur + 1) % n = IF cur + 1 = n THEN 0 ELSE cur + 1
  OBVIOUS
<1> QED BY <1>1 DEF NextTurn

-----------------------------------------------------------------------------
(* Sessions and tables.                                                    *)

\* Each session load() can build has the rows' tribes, in some order.
LEMMA LoadedType ==
    ASSUME TypeOK, NEW g \in GameIds, NEW s \in LoadedTribes(g)
    PROVE  /\ s \in Seq(TribeRow)
           /\ Len(s) = Len(rows[g])
           /\ {s[i].tribe : i \in DOMAIN s} = {rows[g][i].tribe : i \in DOMAIN rows[g]}
           /\ StableScan => \A i \in DOMAIN s : s[i].tribe = rows[g][i].tribe
<1> DEFINE I == 1 .. Len(rows[g])
<1>1. rows[g] \in Seq(TribeRow) /\ Len(rows[g]) \in Nat /\ DOMAIN rows[g] = I
  BY DEF TypeOK
<1>2. PICK q \in Scans(g) : s = [i \in DOMAIN q |->
        [tribe |-> q[i].tribe,
         capital |-> IF q[i].capital # NoCity /\ owner[g][q[i].capital] = q[i].tribe
                     THEN q[i].capital ELSE NoCity]]
  BY DEF LoadedTribes
<1>3. /\ DOMAIN q = I
      /\ \A i \in I : q[i] \in TribeRow
      /\ {q[i].tribe : i \in I} = {rows[g][i].tribe : i \in I}
      /\ StableScan => q = rows[g]
  <2>1. CASE StableScan
    BY <1>1, <2>1 DEF Scans
  <2>2. CASE ~ StableScan
    <3>1. PICK p \in Bijection(I, I) : q = [i \in I |-> rows[g][p[i]]]
      BY <1>1, <2>2 DEF Scans
    <3>2. p \in [I -> I] /\ \A j \in I : \E i \in I : p[i] = j
      BY <3>1 DEF Bijection, Injection, Surjection
    <3>3. \A i \in I : q[i] = rows[g][p[i]] /\ p[i] \in I
      BY <3>1, <3>2
    <3>4. \A i \in I : rows[g][i] \in TribeRow
      BY <1>1
    <3>5. DOMAIN q = I
      BY <3>1
    <3>6. {q[i].tribe : i \in I} \subseteq {rows[g][i].tribe : i \in I}
      BY <3>3
    <3>7. {rows[g][i].tribe : i \in I} \subseteq {q[i].tribe : i \in I}
      <4>1. ASSUME NEW j \in I PROVE \E i \in I : q[i].tribe = rows[g][j].tribe
        <5>1. PICK i \in I : p[i] = j
          BY <3>2
        <5>2. q[i] = rows[g][j]
          BY <3>3, <5>1
        <5> QED BY <5>2
      <4> QED BY <4>1
    <3> QED BY <3>3, <3>4, <3>5, <3>6, <3>7, <2>2
  <2> QED BY <2>1, <2>2
<1>4. s \in [I -> TribeRow]
  BY <1>2, <1>3 DEF TribeRow
<1>5. s \in Seq(TribeRow) /\ Len(s) = Len(rows[g]) /\ DOMAIN s = I
  BY <1>1, <1>4
<1>6. \A i \in I : s[i].tribe = q[i].tribe
  BY <1>2, <1>3
<1> QED BY <1>1, <1>3, <1>5, <1>6

\* A save keeps every row and its id, and adds one row when the last tribe of the
\* session has none.
LEMMA SaveTribesType ==
    ASSUME NEW old \in Seq(TribeRow), NEW ts \in Seq(TribeRow), ts # << >>
    PROVE  /\ SaveTribes(old, ts) \in Seq(TribeRow)
           /\ \A i \in 1 .. Len(old) : SaveTribes(old, ts)[i].tribe = old[i].tribe
           /\ HasRow(old, ts[Len(ts)].tribe) => Len(SaveTribes(old, ts)) = Len(old)
           /\ ~ HasRow(old, ts[Len(ts)].tribe) =>
                /\ Len(SaveTribes(old, ts)) = Len(old) + 1
                /\ SaveTribes(old, ts)[Len(old) + 1] = ts[Len(ts)]
<1> DEFINE up == Updated(old, ts)
           last == ts[Len(ts)]
<1>1. last \in TribeRow
  OBVIOUS
<1>2. ASSUME NEW i \in DOMAIN old
      PROVE  up[i] \in TribeRow /\ up[i].tribe = old[i].tribe
  <2>1. CASE HasRow(ts, old[i].tribe)
    <3>1. RowOf(ts, old[i].tribe) \in TribeRow
      BY <2>1 DEF HasRow, RowOf
    <3>2. RowOf(ts, old[i].tribe).tribe = old[i].tribe
      BY <2>1 DEF HasRow, RowOf
    <3> QED BY <2>1, <3>1, <3>2 DEF Updated
  <2>2. CASE ~ HasRow(ts, old[i].tribe)
    BY <2>2 DEF Updated
  <2> QED BY <2>1, <2>2
<1>3. DOMAIN up = 1 .. Len(old)
  BY DEF Updated
<1>4. up \in [1 .. Len(old) -> TribeRow]
  BY <1>2, <1>3 DEF Updated
<1>5. up \in Seq(TribeRow) /\ Len(up) = Len(old)
  BY <1>4
<1>6. /\ Append(up, last) \in Seq(TribeRow)
      /\ Len(Append(up, last)) = Len(old) + 1
      /\ \A i \in 1 .. Len(old) : Append(up, last)[i] = up[i]
      /\ Append(up, last)[Len(old) + 1] = last
  BY <1>1, <1>5
<1> HIDE DEF up, last
<1>7. SaveTribes(old, ts) = IF HasRow(old, last.tribe) THEN up ELSE Append(up, last)
  BY DEF SaveTribes, up, last
<1> QED BY <1>2, <1>5, <1>6, <1>7 DEF last

-----------------------------------------------------------------------------
(* The inductive invariant.                                                *)

\* The rows of a game carry the ids -1, 1, 2, ... in insertion order.
Numbered ==
    \A g \in GameIds : \A i \in DOMAIN rows[g] :
        rows[g][i].tribe = IF i = 1 THEN Neutral ELSE i - 1

\* A game has its neutral tribe from the first save on.
Started == \A g \in games : Len(rows[g]) >= 1

\* The session of a selection in flight ends with the new tribe, whose id is the
\* next one; once seated, the user's row names it.
InFlight ==
    handler # Idle =>
        LET ts == handler.tribes
            me == ts[Len(ts)].tribe
        IN  /\ handler.game \in games
            /\ ts # << >>
            /\ me = Len(rows[handler.game])
            /\ handler.step = "seated" => seat[handler.game][handler.user] = me

IInv == TypeOK /\ TurnInRange /\ Numbered /\ Started /\ InFlight

\* The ids are dense, so the next one is the number of rows.
LEMMA NextTribeIdIsLength ==
    ASSUME IInv, NEW g \in games, NEW s \in LoadedTribes(g)
    PROVE  NextTribeId(s) = Len(rows[g])
<1> DEFINE n == Len(rows[g])
           T == {0} \cup {rows[g][i].tribe : i \in DOMAIN rows[g]}
<1>1. g \in GameIds /\ n \in Nat /\ n >= 1 /\ DOMAIN rows[g] = 1 .. n
  BY DEF IInv, TypeOK, Started
<1>2. \A i \in 1 .. n : rows[g][i].tribe = IF i = 1 THEN -1 ELSE i - 1
  BY <1>1 DEF IInv, Numbered, Neutral
<1>3. T \subseteq Int /\ \A t \in T : t <= n - 1
  BY <1>1, <1>2
<1>4. n - 1 \in T
  <2>1. CASE n = 1
    BY <2>1
  <2>2. CASE n # 1
    <3> HIDE DEF n
    <3>1. n \in 1 .. n
      BY <1>1
    <3>2. rows[g][n].tribe = n - 1
      BY <1>2, <2>2, <3>1
    <3> QED BY <1>1, <3>1, <3>2
  <2> QED BY <2>1, <2>2
<1>5. NextTribeId(s) = Max(T) + 1
  BY <1>1, LoadedType DEF IInv, NextTribeId
<1>6. Max(T) = n - 1
  <2> HIDE DEF T, n
  <2>1. \A m \in T : (\A t \in T : m >= t) => m = n - 1
    BY <1>1, <1>3, <1>4
  <2>2. \A t \in T : n - 1 >= t
    BY <1>1, <1>3
  <2> QED BY <1>4, <2>1, <2>2 DEF Max
<1> QED BY <1>1, <1>5, <1>6

THEOREM InitIInv == Init => IInv
BY LobbyAssumption
   DEF Init, IInv, TypeOK, TurnInRange, Numbered, Started, InFlight, Idle,
       GameIds, TribeRow, TribeId, Nobody, NoSeat

\* Both ways into a selection add the player; only what was read of the seat differs.
LEMMA SelectionBegins ==
    ASSUME NEW g \in GameIds, NEW u \in Users, SelectBegin(g, u) \/ SelectBlind(g, u)
    PROVE  \E b \in BOOLEAN : AddPlayer(g, u, b) /\ (b \/ ~ HasTribe(g, u))
BY DEF SelectBegin, SelectBlind

\* Saving a session loaded from g keeps the rows of g.
LEMMA ResaveKeepsRows ==
    ASSUME IInv, NEW g \in games, NEW s \in LoadedTribes(g)
    PROVE  /\ SaveTribes(rows[g], s) \in Seq(TribeRow)
           /\ Len(SaveTribes(rows[g], s)) = Len(rows[g])
           /\ \A i \in 1 .. Len(rows[g]) : SaveTribes(rows[g], s)[i].tribe = rows[g][i].tribe
<1>1. g \in GameIds /\ rows[g] \in Seq(TribeRow) /\ Len(rows[g]) >= 1
  BY DEF IInv, TypeOK, Started
<1>2. /\ s \in Seq(TribeRow)
      /\ Len(s) = Len(rows[g])
      /\ {s[i].tribe : i \in DOMAIN s} = {rows[g][i].tribe : i \in DOMAIN rows[g]}
  BY <1>1, LoadedType DEF IInv
<1>3. s # << >> /\ s[Len(s)].tribe \in {s[i].tribe : i \in DOMAIN s}
  BY <1>1, <1>2
<1>4. HasRow(rows[g], s[Len(s)].tribe)
  BY <1>2, <1>3 DEF HasRow
<1> QED BY <1>1, <1>2, <1>3, <1>4, SaveTribesType

\* Storing a selection adds the row of the new tribe.
LEMMA StoreAddsRow ==
    ASSUME IInv, handler # Idle
    PROVE  LET g == handler.game
               new == SaveTribes(rows[g], handler.tribes)
           IN  /\ new \in Seq(TribeRow)
               /\ Len(new) = Len(rows[g]) + 1
               /\ \A i \in 1 .. Len(rows[g]) : new[i].tribe = rows[g][i].tribe
               /\ new[Len(rows[g]) + 1].tribe = Len(rows[g])
<1> DEFINE g == handler.game
           ts == handler.tribes
<1>1. /\ g \in games /\ g \in GameIds
      /\ ts \in Seq(TribeRow) /\ ts # << >>
      /\ ts[Len(ts)].tribe = Len(rows[g])
  BY DEF IInv, TypeOK, InFlight, Handler
<1>2. rows[g] \in Seq(TribeRow) /\ Len(rows[g]) \in Nat /\ Len(rows[g]) >= 1
  BY <1>1 DEF IInv, TypeOK, Started
<1>3. ~ HasRow(rows[g], ts[Len(ts)].tribe)
  BY <1>1, <1>2 DEF IInv, Numbered, HasRow, Neutral
<1> QED BY <1>1, <1>2, <1>3, SaveTribesType

\* Rows r number the tribes of a game whose turn is cur.
GoodRows(r, cur) ==
    /\ Len(r) >= 1
    /\ \A i \in 1 .. Len(r) : r[i].tribe = IF i = 1 THEN Neutral ELSE i - 1
    /\ cur < Len(r) \/ (cur = Len(r) /\ Len(r) \in {1, 2})

\* A step that gives one game good rows and a good turn keeps the rest.
LEMMA RowsStep ==
    ASSUME IInv, NEW g \in GameIds, NEW r \in Seq(TribeRow), NEW cur \in Nat,
           games' = games \cup {g},
           rows' = [rows EXCEPT ![g] = r],
           current' = [current EXCEPT ![g] = cur],
           GoodRows(r, cur)
    PROVE  TurnInRange' /\ Numbered' /\ Started'
<1>1. /\ DOMAIN rows = GameIds /\ rows'[g] = r
      /\ \A h \in GameIds : h # g => rows'[h] = rows[h]
  BY DEF IInv, TypeOK
<1>2. /\ current'[g] = cur
      /\ \A h \in GameIds : h # g => current'[h] = current[h]
  BY DEF IInv, TypeOK
<1>3. games' \subseteq GameIds /\ DOMAIN r = 1 .. Len(r)
  BY DEF IInv, TypeOK
<1>4. ASSUME NEW h \in games'
      PROVE  \/ current'[h] < Len(rows'[h])
             \/ current'[h] = Len(rows'[h]) /\ Len(rows'[h]) \in {1, 2}
  <2>1. CASE h = g
    BY <1>1, <1>2, <2>1 DEF GoodRows
  <2>2. CASE h # g
    BY <1>1, <1>2, <1>3, <2>2 DEF IInv, TurnInRange
  <2> QED BY <2>1, <2>2
<1>5. Numbered'
  BY <1>1, <1>3 DEF IInv, Numbered, GoodRows
<1>6. Started'
  BY <1>1, <1>3 DEF IInv, Started, GoodRows
<1> QED BY <1>4, <1>5, <1>6 DEF TurnInRange

\* The rows of an existing game are good for any turn in its range.
LEMMA GameRows ==
    ASSUME IInv, NEW g \in GameIds
    PROVE  /\ rows[g] \in Seq(TribeRow) /\ Len(rows[g]) \in Nat
           /\ DOMAIN rows[g] = 1 .. Len(rows[g])
           /\ \A i \in 1 .. Len(rows[g]) :
                 rows[g][i].tribe = IF i = 1 THEN Neutral ELSE i - 1
           /\ current[g] \in Nat
           /\ current = [current EXCEPT ![g] = current[g]]
           /\ g \in games => GoodRows(rows[g], current[g])
<1>1. rows[g] \in Seq(TribeRow) /\ current[g] \in Nat
      /\ current = [current EXCEPT ![g] = current[g]]
  BY DEF IInv, TypeOK
<1>2. Len(rows[g]) \in Nat /\ DOMAIN rows[g] = 1 .. Len(rows[g])
  BY <1>1
<1>3. \A i \in 1 .. Len(rows[g]) : rows[g][i].tribe = IF i = 1 THEN Neutral ELSE i - 1
  BY <1>2 DEF IInv, Numbered
<1> QED BY <1>1, <1>2, <1>3 DEF IInv, GoodRows, TurnInRange, Started

THEOREM NextIInv == IInv /\ [Next]_vars => IInv'
<1> SUFFICES ASSUME IInv, [Next]_vars PROVE IInv'
  OBVIOUS
<1> USE LobbyAssumption
<1>1. ASSUME NEW C \in SUBSET Cities, Create(C) PROVE IInv'
  <2> DEFINE id == lastId + 1
             neutral == [tribe |-> Neutral, capital |-> NoCity]
             new == SaveTribes(rows[id], <<neutral>>)
  <2>1. id \in GameIds /\ id \in Nat /\ handler = Idle /\ creates < MaxCreates
    BY <1>1 DEF Create, GameIds
  <2>2. <<neutral>> \in Seq(TribeRow) /\ <<neutral>>[1] = neutral /\ Len(<<neutral>>) = 1
    BY DEF TribeRow, TribeId
  <2>3. new \in Seq(TribeRow) /\ GoodRows(new, 1)
    <3> DEFINE old == rows[id]
               one == <<neutral>>
    <3>1. /\ old \in Seq(TribeRow) /\ Len(old) \in Nat /\ DOMAIN old = 1 .. Len(old)
          /\ \A i \in 1 .. Len(old) : old[i].tribe = IF i = 1 THEN Neutral ELSE i - 1
      BY <2>1, GameRows
    <3>2. one \in Seq(TribeRow) /\ one # << >> /\ one[Len(one)] = neutral
      BY <2>2
    <3>3. neutral.tribe = Neutral
      OBVIOUS
    <3> HIDE DEF old, one, neutral
    <3>4. /\ SaveTribes(old, one) \in Seq(TribeRow)
          /\ \A i \in 1 .. Len(old) : SaveTribes(old, one)[i].tribe = old[i].tribe
          /\ HasRow(old, Neutral) => Len(SaveTribes(old, one)) = Len(old)
          /\ ~ HasRow(old, Neutral) =>
                /\ Len(SaveTribes(old, one)) = Len(old) + 1
                /\ SaveTribes(old, one)[Len(old) + 1] = neutral
      BY <3>1, <3>2, <3>3, SaveTribesType
    <3>5. CASE Len(old) = 0
      <4>1. ~ HasRow(old, Neutral)
        BY <3>1, <3>5 DEF HasRow
      <4> QED BY <3>3, <3>4, <3>5, <4>1 DEF GoodRows, old, one, neutral
    <3>6. CASE Len(old) # 0
      <4>1. HasRow(old, Neutral)
        BY <3>1, <3>6 DEF HasRow
      <4> QED BY <3>1, <3>4, <3>6, <4>1 DEF GoodRows, old, one, neutral
    <3> QED BY <3>5, <3>6
  <2> HIDE DEF new
  <2>4. /\ games' = games \cup {id}
        /\ current' = [current EXCEPT ![id] = 1]
        /\ rows' = [rows EXCEPT ![id] = new]
    BY <1>1 DEF Create, new
  <2>5. TypeOK'
    BY <1>1, <2>1, <2>3, <2>4 DEF Create, IInv, TypeOK, TribeId
  <2>6. TurnInRange' /\ Numbered' /\ Started'
    BY <2>1, <2>3, <2>4, RowsStep
  <2>7. InFlight'
    BY <1>1 DEF Create, InFlight
  <2> QED BY <2>5, <2>6, <2>7 DEF IInv
<1>2. ASSUME NEW g \in GameIds, Resave(g) PROVE IInv'
  <2>1. g \in games /\ handler' = Idle /\ games' = games \cup {g} /\ current' = current
    BY <1>2 DEF Resave
  <2>2. PICK s \in LoadedTribes(g) : rows' = [rows EXCEPT ![g] = SaveTribes(@, s)]
    BY <1>2 DEF Resave
  <2> DEFINE new == SaveTribes(rows[g], s)
  <2>3. new \in Seq(TribeRow) /\ GoodRows(new, current[g])
    BY <2>1, GameRows, ResaveKeepsRows DEF GoodRows
  <2> HIDE DEF new
  <2>4. rows' = [rows EXCEPT ![g] = new]
    BY <2>2 DEF new
  <2>5. TypeOK'
    BY <1>2, <2>3, <2>4 DEF Resave, IInv, TypeOK, IsFinished
  <2>6. TurnInRange' /\ Numbered' /\ Started'
    BY <2>1, <2>3, <2>4, GameRows, RowsStep
  <2> QED BY <2>1, <2>5, <2>6 DEF IInv, InFlight
<1>3. ASSUME NEW g \in GameIds, EndTurn(g) PROVE IInv'
  <2> DEFINE turn == NextTurn(current[g], Len(rows[g]))
  <2>1. g \in games /\ handler' = Idle /\ games' = games \cup {g}
    BY <1>3 DEF EndTurn
  <2>2. PICK s \in LoadedTribes(g) : rows' = [rows EXCEPT ![g] = SaveTribes(@, s)]
    BY <1>3 DEF EndTurn
  <2> DEFINE new == SaveTribes(rows[g], s)
  <2>3. Len(rows[g]) \in Nat \ {0} /\ current[g] \in Nat /\ current[g] < Len(rows[g])
    BY <1>3, <2>1, GameRows DEF EndTurn, GoodRows
  <2>4. turn \in Nat /\ (turn < Len(rows[g]) \/ (Len(rows[g]) = 2 /\ turn = Len(rows[g])))
    BY <2>3, NextTurnRange
  <2>5. current' = [current EXCEPT ![g] = turn]
    BY <1>3 DEF EndTurn
  <2> HIDE DEF turn
  <2>6. new \in Seq(TribeRow) /\ GoodRows(new, turn)
    BY <2>1, <2>4, GameRows, ResaveKeepsRows DEF GoodRows
  <2> HIDE DEF new
  <2>7. rows' = [rows EXCEPT ![g] = new]
    BY <2>2 DEF new
  <2>8. TypeOK'
    BY <1>3, <2>4, <2>5, <2>6, <2>7 DEF EndTurn, IInv, TypeOK, IsFinished
  <2>9. TurnInRange' /\ Numbered' /\ Started'
    BY <2>1, <2>4, <2>5, <2>6, <2>7, RowsStep
  <2> QED BY <2>1, <2>8, <2>9 DEF IInv, InFlight
<1>4. ASSUME NEW g \in GameIds, FatalAction(g) PROVE IInv'
  <2>1. lastId' \in 0 .. MaxGame
    BY <1>4, LastGameType DEF FatalAction, IInv, TypeOK
  <2> QED BY <1>4, <2>1
          DEF FatalAction, db, IInv, TypeOK, TurnInRange, Numbered, Started, InFlight
<1>5. ASSUME NEW g \in GameIds, NEW u \in Users, SelectBegin(g, u) \/ SelectBlind(g, u)
      PROVE  IInv'
  <2>0. PICK b \in BOOLEAN : AddPlayer(g, u, b)
    BY <1>5, SelectionBegins
  <2>1. g \in games
    BY <2>0 DEF AddPlayer
  <2>2. PICK s \in LoadedTribes(g), c \in Cities \cup {NoCity} :
          handler' = [step |-> "added", game |-> g, user |-> u, blind |-> b, city |-> c,
                      tribes |-> Append(s, [tribe |-> NextTribeId(s), capital |-> c])]
    BY <2>0 DEF AddPlayer
  <2> DEFINE row == [tribe |-> NextTribeId(s), capital |-> c]
             ts == Append(s, row)
  <2>3. NextTribeId(s) = Len(rows[g]) /\ Len(rows[g]) \in Nat \ {0} /\ s \in Seq(TribeRow)
    BY <2>1, NextTribeIdIsLength, LoadedType DEF IInv, TypeOK, Started
  <2>4. row \in TribeRow
    BY <2>3 DEF TribeRow, TribeId
  <2>5. ts \in Seq(TribeRow) /\ ts # << >> /\ ts[Len(ts)] = row
    BY <2>3, <2>4
  <2> HIDE DEF ts
  <2>6. handler' = [step |-> "added", game |-> g, user |-> u, blind |-> b, city |-> c,
                    tribes |-> ts]
    BY <2>2 DEF ts
  <2>7. TypeOK'
    <3>1. faults' \in 0 .. MaxFaults
      <4>1. faults \in 0 .. MaxFaults
        BY DEF IInv, TypeOK
      <4>2. faults' = faults \/ (faults < MaxFaults /\ faults' = faults + 1)
        BY <1>5 DEF SelectBegin, SelectBlind
      <4> QED BY <4>1, <4>2
    <3>2. handler' \in Handler
      <4>1. b = TRUE \/ b = FALSE
        OBVIOUS
      <4> HIDE DEF row
      <4>2. CASE b = TRUE
        BY <2>5, <2>6, <4>2 DEF Handler
      <4>3. CASE b = FALSE
        BY <2>5, <2>6, <4>3 DEF Handler
      <4> QED BY <4>1, <4>2, <4>3
    <3> QED BY <2>0, <3>1, <3>2 DEF AddPlayer, db, IInv, TypeOK, NoTribe
  <2>8. InFlight'
    BY <2>0, <2>1, <2>3, <2>5, <2>6 DEF AddPlayer, db, InFlight
  <2> QED BY <2>0, <2>7, <2>8 DEF AddPlayer, db, IInv, TurnInRange, Numbered, Started
<1>6. CASE SelectSeat
  <2> DEFINE g == handler.game
             k == Len(rows[g])
  <2>1. handler # Idle /\ handler.step = "added"
    BY <1>6 DEF SelectSeat, Idle
  <2>2. handler \in Handler /\ g \in games /\ g \in GameIds /\ handler.user \in Users
    BY <2>1 DEF IInv, TypeOK, InFlight, Handler
  <2>3. handler.tribes[Len(handler.tribes)].tribe = k /\ k \in Nat
    BY <2>1, <2>2, GameRows DEF IInv, InFlight
  <2>4. seat' = [seat EXCEPT ![g][handler.user] = k]
        /\ handler' = [handler EXCEPT !.step = "seated"]
    BY <1>6, <2>3 DEF SelectSeat
  <2> HIDE DEF k
  <2>5. TypeOK'
    <3>1. handler' \in Handler
      BY <2>2, <2>4 DEF Handler
    <3>2. seat' \in [GameIds -> [Users -> Nat \cup {NoSeat}]]
      BY <2>2, <2>3, <2>4 DEF IInv, TypeOK
    <3> QED BY <1>6, <3>1, <3>2 DEF SelectSeat, db, IInv, TypeOK
  <2>6. InFlight'
    <3>1. seat'[g][handler.user] = k
      BY <2>2, <2>4 DEF IInv, TypeOK
    <3>2. /\ handler'.game = g /\ handler'.user = handler.user
          /\ handler'.tribes = handler.tribes
      BY <2>2, <2>4 DEF Handler
    <3> QED BY <1>6, <2>1, <2>3, <3>1, <3>2 DEF SelectSeat, db, IInv, InFlight, k
  <2> QED BY <1>6, <2>5, <2>6 DEF SelectSeat, db, IInv, TurnInRange, Numbered, Started
<1>7. CASE SelectStore
  <2> DEFINE g == handler.game
             ts == handler.tribes
             me == ts[Len(ts)].tribe
             new == SaveTribes(rows[g], ts)
  <2>1. handler # Idle
    BY <1>7 DEF SelectStore, Idle
  <2>2. handler \in Handler /\ g \in games /\ g \in GameIds
        /\ ts \in Seq(TribeRow) /\ ts # << >>
    BY <2>1 DEF IInv, TypeOK, InFlight, Handler
  <2>3. new \in Seq(TribeRow) /\ GoodRows(new, current[g])
    <3> DEFINE n == Len(rows[g])
    <3>1. /\ new \in Seq(TribeRow) /\ Len(new) = n + 1
          /\ \A i \in 1 .. n : new[i].tribe = rows[g][i].tribe
          /\ new[n + 1].tribe = n
      BY <2>1, StoreAddsRow
    <3>2. /\ n \in Nat /\ n >= 1
          /\ \A i \in 1 .. n : rows[g][i].tribe = IF i = 1 THEN Neutral ELSE i - 1
          /\ current[g] \in Nat
          /\ current[g] < n \/ (current[g] = n /\ n \in {1, 2})
      BY <2>2, GameRows DEF GoodRows
    <3> HIDE DEF n, new
    <3>3. ASSUME NEW i \in 1 .. n + 1
          PROVE  new[i].tribe = IF i = 1 THEN Neutral ELSE i - 1
      <4>1. CASE i = n + 1
        BY <3>1, <3>2, <4>1
      <4>2. CASE i # n + 1
        <5>1. i \in 1 .. n
          BY <3>2, <4>2
        <5> QED BY <3>1, <3>2, <5>1
      <4> QED BY <4>1, <4>2
    <3>4. current[g] < n + 1
      BY <3>2
    <3> QED BY <3>1, <3>2, <3>3, <3>4 DEF GoodRows
  <2>4. me \in TribeId
    <3>1. ts[Len(ts)] \in TribeRow
      BY <2>2
    <3> QED BY <3>1 DEF TribeRow
  <2> HIDE DEF new, me
  <2>5. /\ games' = games \cup {g} /\ current' = current
        /\ rows' = [rows EXCEPT ![g] = new]
        /\ owner' = [owner EXCEPT ![g] =
                       [c \in Cities |-> IF c = handler.city THEN me ELSE @[c]]]
    BY <1>7, <2>2 DEF SelectStore, new, me
  <2>6. TypeOK'
    BY <1>7, <2>2, <2>3, <2>4, <2>5 DEF SelectStore, IInv, TypeOK, IsFinished
  <2>7. TurnInRange' /\ Numbered' /\ Started'
    BY <2>2, <2>3, <2>5, GameRows, RowsStep
  <2> QED BY <1>7, <2>6, <2>7 DEF SelectStore, IInv, InFlight
<1>8. CASE SelectRefused
  <2>1. Unstored \in SUBSET (GameIds \X Users)
    BY DEF IInv, TypeOK, Unstored, Handler, Idle
  <2> QED BY <1>8, <2>1
          DEF SelectRefused, db, IInv, TypeOK, TurnInRange, Numbered, Started, InFlight
<1>9. CASE Crash
  <2>1. Unstored \in SUBSET (GameIds \X Users)
    BY DEF IInv, TypeOK, Unstored, Handler, Idle
  <2>2. lastId' \in 0 .. MaxGame
    BY <1>9, LastGameType DEF Crash, IInv, TypeOK
  <2> QED BY <1>9, <2>1, <2>2
          DEF Crash, db, IInv, TypeOK, TurnInRange, Numbered, Started, InFlight
<1>10. CASE UNCHANGED vars
  BY <1>10 DEF vars, IInv, TypeOK, TurnInRange, Numbered, Started, InFlight
<1> QED BY <1>1, <1>2, <1>3, <1>4, <1>5, <1>6, <1>7, <1>8, <1>9, <1>10 DEF Next

\* Every column and field holds a value of its kind in every reachable state.
THEOREM TypeCorrect == Spec => []TypeOK
<1>1. IInv => TypeOK
  BY DEF IInv
<1> QED BY InitIInv, NextIInv, <1>1, PTL DEF Spec

\* The turn index is one that Game::getTribe may be called with, or it is one of
\* the two dead ends: however many users, games, crashes and re-creations.
THEOREM TurnStaysInRange == Spec => []TurnInRange
<1>1. IInv => TurnInRange
  BY DEF IInv
<1> QED BY InitIInv, NextIInv, <1>1, PTL DEF Spec

\* The tribes are numbered in the order of their rows, whatever the order of scans.
THEOREM TribesAreNumbered == Spec => []IndexIsTribe
<1>1. IInv => IndexIsTribe
  <2> SUFFICES ASSUME IInv, NEW g \in GameIds, NEW i \in DOMAIN rows[g]
               PROVE  rows[g][i].tribe = IF i = 1 THEN Neutral ELSE i - 1
    BY DEF IndexIsTribe
  <2> QED BY GameRows
<1> QED BY InitIInv, NextIInv, <1>1, PTL DEF Spec

\* The turn names its tribe, for any number of users, games, creates and faults.
THEOREM TurnsNameTheirTribes == Spec => []TurnNamesItsTribe
<1>1. TurnInRange /\ IndexIsTribe => TurnNamesItsTribe
  BY DEF TurnNamesItsTribe
<1> QED BY <1>1, TurnStaysInRange, TribesAreNumbered, PTL

\* When the scan returns rows in insertion order, the index of a tribe in any
\* loaded session is its id.
THEOREM IndexIsTribeWhenStable ==
    ASSUME StableScan
    PROVE  Spec => [](\A g \in GameIds : \A s \in LoadedTribes(g) : \A i \in DOMAIN s :
                          s[i].tribe = IF i = 1 THEN Neutral ELSE i - 1)
<1> DEFINE Numbering == \A g \in GameIds : \A s \in LoadedTribes(g) : \A i \in DOMAIN s :
                            s[i].tribe = IF i = 1 THEN Neutral ELSE i - 1
<1>1. IInv => Numbering
  <2> SUFFICES ASSUME IInv, NEW g \in GameIds, NEW s \in LoadedTribes(g), NEW i \in DOMAIN s
               PROVE  s[i].tribe = IF i = 1 THEN Neutral ELSE i - 1
    OBVIOUS
  <2>1. /\ s \in Seq(TribeRow) /\ Len(s) = Len(rows[g])
        /\ \A j \in DOMAIN s : s[j].tribe = rows[g][j].tribe
    BY LoadedType DEF IInv
  <2>2. DOMAIN s = 1 .. Len(rows[g])
    BY <2>1
  <2> QED BY <2>1, <2>2, GameRows
<1> HIDE DEF Numbering
<1>2. Spec => []Numbering
  BY InitIInv, NextIInv, <1>1, PTL DEF Spec
<1> QED BY <1>2 DEF Numbering

-----------------------------------------------------------------------------
(* No two users share a tribe unless a store was lost.                     *)

\* No step takes a row away.
LEMMA RowsGrow ==
    ASSUME IInv, [Next]_vars, NEW g \in GameIds
    PROVE  Len(rows'[g]) >= Len(rows[g])
<1>0. Len(rows[g]) \in Nat /\ DOMAIN rows = GameIds
  BY GameRows DEF IInv, TypeOK
<1>1. ASSUME NEW C \in SUBSET Cities, Create(C) PROVE Len(rows'[g]) >= Len(rows[g])
  <2> DEFINE id == lastId + 1
             one == <<[tribe |-> Neutral, capital |-> NoCity]>>
  <2>1. id \in GameIds /\ rows' = [rows EXCEPT ![id] = SaveTribes(rows[id], one)]
    BY <1>1 DEF Create
  <2>2. one \in Seq(TribeRow) /\ one # << >>
    BY DEF TribeRow, TribeId
  <2>3. rows[id] \in Seq(TribeRow) /\ Len(rows[id]) \in Nat
    BY <2>1, GameRows
  <2> HIDE DEF one, id
  <2>4. Len(SaveTribes(rows[id], one)) \in {Len(rows[id]), Len(rows[id]) + 1}
    BY <2>2, <2>3, SaveTribesType
  <2>5. CASE g = id
    BY <1>0, <2>1, <2>3, <2>4, <2>5
  <2>6. CASE g # id
    BY <1>0, <2>1, <2>6
  <2> QED BY <2>5, <2>6
<1>2. ASSUME NEW h \in GameIds, Resave(h) \/ EndTurn(h) PROVE Len(rows'[g]) >= Len(rows[g])
  <2>1. h \in games
    BY <1>2 DEF Resave, EndTurn
  <2>2. PICK s \in LoadedTribes(h) : rows' = [rows EXCEPT ![h] = SaveTribes(rows[h], s)]
    BY <1>2 DEF Resave, EndTurn
  <2>3. Len(SaveTribes(rows[h], s)) = Len(rows[h])
    BY <2>1, ResaveKeepsRows
  <2> QED BY <1>0, <2>2, <2>3
<1>3. CASE SelectStore
  <2>1. handler # Idle
    BY <1>3 DEF SelectStore, Idle
  <2> DEFINE h == handler.game
             new == SaveTribes(rows[h], handler.tribes)
  <2>2. h \in GameIds /\ Len(rows[h]) \in Nat /\ Len(new) = Len(rows[h]) + 1
    BY <2>1, StoreAddsRow, GameRows DEF IInv, TypeOK, InFlight
  <2>3. rows' = [rows EXCEPT ![h] = new]
    BY <1>3 DEF SelectStore
  <2> HIDE DEF new, h
  <2>4. CASE g = h
    BY <1>0, <2>2, <2>3, <2>4
  <2>5. CASE g # h
    BY <1>0, <2>3, <2>5
  <2> QED BY <2>4, <2>5
<1>4. CASE rows' = rows
  BY <1>0, <1>4
<1> QED BY <1>1, <1>2, <1>3, <1>4
        DEF Next, vars, db, FatalAction, SelectBegin, SelectBlind, AddPlayer, SelectSeat,
            SelectRefused, Crash

\* A row stays.
LEMMA RowStays ==
    ASSUME IInv, IInv', [Next]_vars, NEW g \in GameIds, NEW t \in Nat, HasRow(rows[g], t)
    PROVE  HasRow(rows'[g], t)
<1>1. PICK i \in 1 .. Len(rows[g]) : rows[g][i].tribe = t
  BY GameRows DEF HasRow
<1>2. /\ Len(rows[g]) \in Nat
      /\ rows[g][i].tribe = IF i = 1 THEN Neutral ELSE i - 1
  BY <1>1, GameRows
<1>3. Len(rows'[g]) \in Nat /\ DOMAIN rows'[g] = 1 .. Len(rows'[g])
  BY DEF IInv, TypeOK
<1>4. i \in DOMAIN rows'[g]
  BY <1>2, <1>3, RowsGrow
<1>5. rows'[g][i].tribe = IF i = 1 THEN Neutral ELSE i - 1
  BY <1>4 DEF IInv, Numbered
<1> QED BY <1>1, <1>2, <1>4, <1>5 DEF HasRow

SeatInv == IInv /\ SeatHasTribe /\ SharedTribeNeedsALostStore

\* A step that changes no positive seat keeps both seat invariants, if it
\* accounts for the selection it ends.
LEMMA QuietSeats ==
    ASSUME SeatInv, IInv', [Next]_vars,
           \A g \in GameIds, u \in Users : seat'[g][u] > 0 => seat'[g][u] = seat[g][u],
           lost \subseteq lost',
           handler.step = "seated" =>
              \/ <<handler.game, handler.user>> \in lost'
              \/ HasRow(rows'[handler.game], seat[handler.game][handler.user])
              \/ handler' = handler
    PROVE  SeatHasTribe' /\ SharedTribeNeedsALostStore'
<1>1. ASSUME NEW g \in GameIds, NEW u \in Users, seat'[g][u] > 0
      PROVE  \/ HasRow(rows'[g], seat'[g][u])
             \/ <<g, u>> \in lost'
             \/ handler'.step = "seated" /\ handler'.game = g /\ handler'.user = u
  <2>1. seat'[g][u] = seat[g][u] /\ seat[g][u] > 0
    BY <1>1
  <2>2. seat[g][u] \in Nat
    BY <2>1 DEF SeatInv, IInv, TypeOK, NoSeat
  <2>3. \/ HasRow(rows[g], seat[g][u])
        \/ <<g, u>> \in lost
        \/ handler.step = "seated" /\ handler.game = g /\ handler.user = u
    BY <2>1 DEF SeatInv, SeatHasTribe, HasRow
  <2>4. CASE HasRow(rows[g], seat[g][u])
    BY <2>1, <2>2, <2>4, RowStays DEF SeatInv
  <2>5. CASE <<g, u>> \in lost
    BY <2>5
  <2>6. CASE handler.step = "seated" /\ handler.game = g /\ handler.user = u
    BY <2>1, <2>6
  <2> QED BY <2>3, <2>4, <2>5, <2>6
<1>2. SeatHasTribe'
  BY <1>1 DEF SeatHasTribe, HasRow
<1>3. SharedTribeNeedsALostStore'
  BY DEF SeatInv, SharedTribeNeedsALostStore
<1> QED BY <1>2, <1>3

THEOREM NextSeatInv == SeatInv /\ [Next]_vars => SeatInv'
<1> SUFFICES ASSUME SeatInv, [Next]_vars PROVE SeatInv'
  OBVIOUS
<1>1. IInv /\ IInv'
  BY NextIInv DEF SeatInv
<1>2. ASSUME seat' = seat, lost' = lost, handler' = handler
      PROVE  SeatHasTribe' /\ SharedTribeNeedsALostStore'
  BY <1>1, <1>2, QuietSeats
<1>3. ASSUME NEW g \in GameIds, NEW u \in Users, SelectBegin(g, u) \/ SelectBlind(g, u)
      PROVE  SeatHasTribe' /\ SharedTribeNeedsALostStore'
  <2>0. PICK b \in BOOLEAN : AddPlayer(g, u, b)
    BY <1>3, SelectionBegins
  <2>1. lost' = lost /\ handler.step # "seated"
    BY <2>0 DEF AddPlayer, Idle
  <2>2. \A h \in GameIds, v \in Users : seat'[h][v] > 0 => seat'[h][v] = seat[h][v]
    BY <1>1, <2>0 DEF AddPlayer, IInv, TypeOK, NoTribe
  <2> QED BY <1>1, <2>1, <2>2, QuietSeats
<1>4. CASE SelectSeat
  <2> DEFINE g == handler.game
             u == handler.user
             k == Len(rows[g])
  <2>1. handler # Idle /\ handler.step = "added"
    BY <1>4 DEF SelectSeat, Idle
  <2>2. handler \in Handler /\ g \in GameIds /\ u \in Users
    BY <1>1, <2>1 DEF IInv, TypeOK, Handler
  <2>3. k \in Nat /\ ~ HasRow(rows[g], k)
    BY <1>1, <2>2, GameRows DEF HasRow, Neutral
  <2>4. handler.tribes[Len(handler.tribes)].tribe = k
    BY <1>1, <2>1 DEF IInv, InFlight
  <2>5. /\ seat' = [seat EXCEPT ![g][u] = k]
        /\ rows' = rows /\ lost' = lost
        /\ handler'.step = "seated" /\ handler'.game = g /\ handler'.user = u
    BY <1>4, <2>2, <2>4 DEF SelectSeat, db, Handler
  <2> HIDE DEF k, g, u
  <2>6. /\ seat'[g][u] = k
        /\ \A h \in GameIds, v \in Users : <<h, v>> # <<g, u>> => seat'[h][v] = seat[h][v]
    BY <1>1, <2>2, <2>5 DEF IInv, TypeOK
  <2>7. SeatHasTribe'
    BY <2>1, <2>2, <2>5, <2>6 DEF SeatInv, SeatHasTribe
  <2>8. ASSUME NEW v \in Users, v # u, seat[g][v] > 0, seat[g][v] = k
        PROVE  <<g, v>> \in lost
    BY <2>1, <2>2, <2>3, <2>8 DEF SeatInv, SeatHasTribe, HasRow
  <2>9. SharedTribeNeedsALostStore'
    <3> SUFFICES ASSUME NEW h \in GameIds, NEW v \in Users, NEW w \in Users, v # w,
                        seat'[h][v] > 0, seat'[h][v] = seat'[h][w]
                 PROVE  {<<h, v>>, <<h, w>>} \cap lost' # {}
      BY DEF SharedTribeNeedsALostStore
    <3>1. CASE h = g /\ v = u
      <4>1. <<g, w>> # <<g, u>> /\ seat'[g][w] = k /\ k > 0
        BY <2>6, <3>1
      <4>2. seat[g][w] = k
        BY <2>2, <2>6, <4>1
      <4> QED BY <2>5, <2>8, <3>1, <4>1, <4>2
    <3>2. CASE h = g /\ w = u
      <4>1. <<g, v>> # <<g, u>> /\ seat'[g][v] = k /\ k > 0
        BY <2>6, <3>2
      <4>2. seat[g][v] = k
        BY <2>2, <2>6, <4>1
      <4> QED BY <2>5, <2>8, <3>2, <4>1, <4>2
    <3>3. CASE ~ (h = g /\ v = u) /\ ~ (h = g /\ w = u)
      BY <2>5, <2>6, <3>3 DEF SeatInv, SharedTribeNeedsALostStore
    <3> QED BY <3>1, <3>2, <3>3
  <2> QED BY <1>1, <2>7, <2>9 DEF SeatInv
<1>5. CASE SelectStore
  <2> DEFINE g == handler.game
             new == SaveTribes(rows[g], handler.tribes)
  <2>1. handler # Idle /\ handler.step = "seated" /\ seat' = seat /\ lost' = lost
    BY <1>5 DEF SelectStore, Idle
  <2>2. g \in GameIds /\ Len(rows[g]) \in Nat
        /\ seat[g][handler.user] = Len(rows[g])
    BY <1>1, <2>1, GameRows DEF IInv, TypeOK, InFlight
  <2>3. rows' = [rows EXCEPT ![g] = new]
    BY <1>5 DEF SelectStore
  <2>4. new \in Seq(TribeRow) /\ Len(new) = Len(rows[g]) + 1
        /\ new[Len(rows[g]) + 1].tribe = Len(rows[g])
    BY <1>1, <2>1, StoreAddsRow
  <2> HIDE DEF new
  <2>5. rows'[g] = new
    BY <1>1, <2>2, <2>3 DEF IInv, TypeOK
  <2>6. HasRow(rows'[g], seat[g][handler.user])
    <3>1. Len(rows[g]) + 1 \in DOMAIN new
      BY <2>2, <2>4
    <3> QED BY <2>2, <2>4, <2>5, <3>1 DEF HasRow
  <2> QED BY <1>1, <2>1, <2>6, QuietSeats DEF SeatInv
<1>6. CASE SelectRefused \/ Crash
  <2>1. seat' = seat /\ lost' = lost \cup Unstored
    BY <1>6 DEF SelectRefused, Crash
  <2> QED BY <1>1, <2>1, QuietSeats DEF Unstored, SeatInv
<1> QED BY <1>1, <1>2, <1>3, <1>4, <1>5, <1>6
        DEF SeatInv, Next, vars, Create, Resave, EndTurn, FatalAction

\* Two users never play the same tribe, whatever the interleaving of selections
\* with crashes and re-creations, unless a selection was seated and not stored.
THEOREM SharedTribe == Spec => []SharedTribeNeedsALostStore
<1>1. Init => SeatInv
  BY InitIInv
     DEF Init, SeatInv, SeatHasTribe, SharedTribeNeedsALostStore, NoSeat
<1>2. SeatInv => SharedTribeNeedsALostStore
  BY DEF SeatInv
<1> QED BY <1>1, <1>2, NextSeatInv, PTL DEF Spec

\* A seated user has a stored tribe, or the selection is running or was lost.
THEOREM SeatedHasTribe == Spec => []SeatHasTribe
<1>1. Init => SeatInv
  BY InitIInv
     DEF Init, SeatInv, SeatHasTribe, SharedTribeNeedsALostStore, NoSeat
<1>2. SeatInv => SeatHasTribe
  BY DEF SeatInv
<1> QED BY <1>1, <1>2, NextSeatInv, PTL DEF Spec

-----------------------------------------------------------------------------
(* Tribes are kept.                                                        *)

\* A selection that has read the seat has found no tribe there, and no other step
\* seats its user before it does.
Waiting ==
    handler.step = "added" =>
        \/ handler.blind
        \/ ~ HasTribe(handler.game, handler.user)

LEMMA WaitingStep == IInv /\ Waiting /\ [Next]_vars => Waiting'
<1> SUFFICES ASSUME IInv, Waiting, [Next]_vars PROVE Waiting'
  OBVIOUS
<1>1. ASSUME NEW g \in GameIds, NEW u \in Users, SelectBegin(g, u) \/ SelectBlind(g, u)
      PROVE  Waiting'
  <2>1. PICK b \in BOOLEAN : AddPlayer(g, u, b) /\ (b \/ ~ HasTribe(g, u))
    BY <1>1, SelectionBegins
  <2>2. handler'.game = g /\ handler'.user = u /\ handler'.blind = b
    BY <2>1 DEF AddPlayer
  <2>3. b \/ ~ (seat'[g][u] > 0)
    BY <2>1 DEF AddPlayer, HasTribe, IInv, TypeOK, NoTribe, NoSeat
  <2> QED BY <2>2, <2>3 DEF Waiting, HasTribe
<1>2. CASE SelectSeat
  BY <1>2 DEF SelectSeat, Waiting, IInv, TypeOK, Handler, Idle
<1>3. CASE handler' = Idle
  BY <1>3 DEF Waiting, Idle
<1>4. CASE handler' = handler /\ seat' = seat
  BY <1>4 DEF Waiting, HasTribe
<1> QED BY <1>1, <1>2, <1>3, <1>4
        DEF Next, vars, Create, Resave, EndTurn, FatalAction, SelectStore, SelectRefused, Crash

\* A user keeps its tribe, however often a selection is retried and whatever fails in
\* between, with one exception: a selection whose read of the seat was refused seats
\* its user again, in a tribe that has no row yet.
THEOREM TribesAreKept == Spec => TribeIsKept
<1> DEFINE Kept == \A g \in GameIds, u \in Users : seat[g][u] > 0 =>
                     \/ seat'[g][u] = seat[g][u]
                     \/ /\ handler.step = "added" /\ handler.blind
                        /\ handler.game = g /\ handler.user = u
                        /\ ~ HasRow(rows[g], seat'[g][u])
<1>1. Init => Waiting
  BY DEF Init, Waiting, Idle
<1>2. IInv /\ Waiting /\ [Next]_vars => [Kept]_vars
  <2> SUFFICES ASSUME IInv, Waiting, [Next]_vars PROVE [Kept]_vars
    OBVIOUS
  <2>1. ASSUME NEW g \in GameIds, NEW u \in Users, SelectBegin(g, u) \/ SelectBlind(g, u)
        PROVE  Kept
    <3>1. PICK b \in BOOLEAN : AddPlayer(g, u, b)
      BY <2>1, SelectionBegins
    <3>2. seat' = [seat EXCEPT ![g][u] = IF @ = NoSeat THEN NoTribe ELSE @]
      BY <3>1 DEF AddPlayer
    <3> QED BY <3>2 DEF IInv, TypeOK, NoTribe, NoSeat
  <2>2. CASE SelectSeat
    <3> DEFINE h == handler.game
               v == handler.user
               me == handler.tribes[Len(handler.tribes)].tribe
    <3>1. handler.step = "added" /\ handler # Idle /\ handler \in Handler
      BY <2>2 DEF SelectSeat, IInv, TypeOK, Idle
    <3>2. h \in GameIds /\ v \in Users
      BY <3>1 DEF Handler
    <3>3. ~ (seat[h][v] > 0) \/ handler.blind
      BY <3>1 DEF Waiting, HasTribe
    <3>4. seat' = [seat EXCEPT ![h][v] = me]
      BY <2>2 DEF SelectSeat
    <3>5. ~ HasRow(rows[h], me)
      <4>1. me = Len(rows[h])
        BY <3>1 DEF IInv, InFlight
      <4> HIDE DEF me, h
      <4> QED BY <3>2, <4>1, GameRows DEF HasRow, Neutral
    <3> HIDE DEF me
    <3>6. /\ seat'[h][v] = me
          /\ \A g \in GameIds, u \in Users :
                (g = h /\ u = v) \/ seat'[g][u] = seat[g][u]
      BY <3>2, <3>4 DEF IInv, TypeOK
    <3> QED BY <3>1, <3>3, <3>5, <3>6
  <2>3. CASE seat' = seat
    BY <2>3
  <2> QED BY <2>1, <2>2, <2>3
          DEF Next, vars, db, Create, Resave, EndTurn, FatalAction, SelectStore, SelectRefused, Crash
<1> QED BY <1>1, <1>2, InitIInv, NextIInv, WaitingStep, PTL DEF Spec, TribeIsKept

-----------------------------------------------------------------------------
(* The first player waits.                                                 *)

\* The id that the next create takes is new or that of the newest game.
NextIdIsNewest == \A g \in games : g <= lastId + 1

LEMMA NextIdStep == TypeOK /\ NextIdIsNewest /\ [Next]_vars => NextIdIsNewest'
<1> SUFFICES ASSUME TypeOK, NextIdIsNewest, [Next]_vars PROVE NextIdIsNewest'
  OBVIOUS
<1>1. games \subseteq GameIds /\ games \subseteq Nat /\ lastId \in Nat
  BY LobbyAssumption DEF TypeOK, GameIds
<1>2. ASSUME NEW C \in SUBSET Cities, Create(C) PROVE NextIdIsNewest'
  BY <1>1, <1>2 DEF Create, NextIdIsNewest
<1>3. CASE games' = games /\ lastId' = LastGame(games)
  <2>1. lastId' \in Nat /\ \A g \in games : g <= lastId'
    BY <1>1, <1>3, LastGameType, LobbyAssumption
  <2> QED BY <1>1, <1>3, <2>1 DEF NextIdIsNewest
<1>4. CASE games' = games /\ lastId' = lastId
  BY <1>4 DEF NextIdIsNewest
<1> QED BY <1>2, <1>3, <1>4
        DEF Next, vars, db, Resave, EndTurn, FatalAction, SelectBegin, SelectBlind, AddPlayer,
            SelectSeat, SelectStore, SelectRefused, Crash

\* The part of TurnsGoRound that is not liveness: rotation never gives the turn back to
\* the first player to select a tribe, and a create that does so is of the newest game.
THEOREM FirstPlayerWaits == Spec => FirstPlayerWaitsForReset
<1> DEFINE Waits == \A g \in games : current[g] # 1 /\ current'[g] = 1
                                       => g = LastGame(games) /\ creates' = creates + 1
<1>1. Init => NextIdIsNewest
  BY DEF Init, NextIdIsNewest
<1>2. TypeOK /\ NextIdIsNewest /\ [Next]_vars => [Waits]_vars
  <2> SUFFICES ASSUME TypeOK, NextIdIsNewest, Next,
                      NEW g \in games, current[g] # 1, current'[g] = 1
               PROVE  g = LastGame(games) /\ creates' = creates + 1
    BY DEF vars
  <2>1. g \in GameIds /\ g \in Nat /\ games \subseteq Nat /\ lastId \in Nat
    BY LobbyAssumption DEF TypeOK, GameIds
  <2>2. ASSUME NEW C \in SUBSET Cities, Create(C)
        PROVE  g = LastGame(games) /\ creates' = creates + 1
    <3>1. g = lastId + 1 /\ creates' = creates + 1
      BY <2>1, <2>2 DEF Create, TypeOK
    <3>2. LastGame(games) \in {0} \cup games /\ g <= LastGame(games)
      BY LastGameType DEF TypeOK
    <3> DEFINE last == LastGame(games)
    <3> HIDE DEF last
    <3>3. last \in {0} \cup games /\ g <= last
      BY <3>2 DEF last
    <3>4. last \in Nat
      BY <2>1, <3>3
    <3>5. last \in games
      BY <2>1, <3>1, <3>3
    <3>6. last <= lastId + 1
      BY <3>5 DEF NextIdIsNewest
    <3>7. g = last
      BY <2>1, <3>1, <3>3, <3>4, <3>6
    <3> QED BY <3>1, <3>7 DEF last
  <2>3. ASSUME NEW h \in GameIds, EndTurn(h) PROVE FALSE
    <3>1. \A n : NextTurn(current[h], n) # 1
      BY DEF NextTurn
    <3> QED BY <2>1, <2>3, <3>1 DEF EndTurn, TypeOK
  <2>4. CASE current' = current
    BY <2>4
  <2> QED BY <2>2, <2>3, <2>4
          DEF Next, db, Resave, FatalAction, SelectBegin, SelectBlind, AddPlayer, SelectSeat,
              SelectStore, SelectRefused, Crash
<1>3. IInv => TypeOK
  BY DEF IInv
<1> QED BY <1>1, <1>2, <1>3, InitIInv, NextIInv, NextIdStep, PTL
        DEF Spec, FirstPlayerWaitsForReset

-----------------------------------------------------------------------------
(* Capitals are apart.                                                     *)

\* A tribe's capital is a city of its own, and the neutral tribe has none.
Rightful(own, row) ==
    row.capital # NoCity => own[row.capital] = row.tribe /\ row.tribe # Neutral

NeutralHasNone ==
    \A g \in GameIds : \A i \in DOMAIN rows[g] :
        rows[g][i].tribe = Neutral => rows[g][i].capital = NoCity

\* The session of a selection in flight: all tribes of the rows, their capitals as
\* load() filtered them, and last the new tribe with a city that is still neutral.
SessionCapitals ==
    handler # Idle =>
        LET g  == handler.game
            ts == handler.tribes
        IN  /\ \A i \in DOMAIN rows[g] : HasRow(ts, rows[g][i].tribe)
            /\ \A k \in 1 .. Len(ts) - 1 : Rightful(owner[g], ts[k])
            /\ ts[Len(ts)].capital = handler.city
            /\ handler.city # NoCity => owner[g][handler.city] = Neutral

CapitalInv == IInv /\ CapitalsApart /\ NeutralHasNone /\ SessionCapitals

\* What load() returns has only rightful capitals, and all the tribes.
LEMMA LoadedIsRightful ==
    ASSUME IInv, NeutralHasNone, NEW g \in GameIds, NEW s \in LoadedTribes(g)
    PROVE  /\ \A i \in DOMAIN s : Rightful(owner[g], s[i])
           /\ \A i \in DOMAIN rows[g] : HasRow(s, rows[g][i].tribe)
<1>1. /\ s \in Seq(TribeRow) /\ Len(s) = Len(rows[g])
      /\ {s[i].tribe : i \in DOMAIN s} = {rows[g][i].tribe : i \in DOMAIN rows[g]}
  BY LoadedType DEF IInv
<1>2. \A i \in DOMAIN rows[g] : HasRow(s, rows[g][i].tribe)
  BY <1>1 DEF HasRow
<1>3. PICK q \in Scans(g) : s = [i \in DOMAIN q |->
        [tribe   |-> q[i].tribe,
         capital |-> IF q[i].capital # NoCity /\ owner[g][q[i].capital] = q[i].tribe
                     THEN q[i].capital ELSE NoCity]]
  BY DEF LoadedTribes
<1>4. \A i \in DOMAIN q : \E j \in DOMAIN rows[g] : q[i] = rows[g][j]
  <2>1. CASE StableScan
    BY <2>1 DEF Scans
  <2>2. CASE ~ StableScan
    <3> DEFINE I == DOMAIN rows[g]
    <3>1. PICK p \in Bijection(I, I) : q = [i \in I |-> rows[g][p[i]]]
      BY <2>2 DEF Scans
    <3>2. p \in [I -> I]
      BY <3>1 DEF Bijection, Injection
    <3> QED BY <3>1, <3>2
  <2> QED BY <2>1, <2>2
<1>5. ASSUME NEW i \in DOMAIN s PROVE Rightful(owner[g], s[i])
  <2>1. i \in DOMAIN q /\ s[i].tribe = q[i].tribe
        /\ s[i].capital = IF q[i].capital # NoCity /\ owner[g][q[i].capital] = q[i].tribe
                          THEN q[i].capital ELSE NoCity
    BY <1>3
  <2>2. q[i].tribe = Neutral => q[i].capital = NoCity
    BY <1>4, <2>1 DEF NeutralHasNone
  <2> QED BY <2>1, <2>2 DEF Rightful
<1> QED BY <1>2, <1>5

\* When the session has all tribes of the rows, each row written is one of its own.
LEMMA SavedFromSession ==
    ASSUME NEW old \in Seq(TribeRow), NEW ts \in Seq(TribeRow), ts # << >>,
           \A i \in DOMAIN old : HasRow(ts, old[i].tribe),
           NEW i \in DOMAIN SaveTribes(old, ts)
    PROVE  \E k \in DOMAIN ts : SaveTribes(old, ts)[i] = ts[k]
<1> DEFINE up == Updated(old, ts)
           last == ts[Len(ts)]
<1>1. \A j \in DOMAIN old : \E k \in DOMAIN ts : up[j] = ts[k]
  BY DEF Updated, RowOf, HasRow
<1>2. DOMAIN up = 1 .. Len(old) /\ DOMAIN old = 1 .. Len(old) /\ Len(old) \in Nat
  BY DEF Updated
<1>3. Len(ts) \in DOMAIN ts
  OBVIOUS
<1>4. up \in Seq(TribeRow) /\ Len(up) = Len(old)
  <2>1. up \in [1 .. Len(old) -> TribeRow]
    BY <1>1, <1>2 DEF Updated
  <2> QED BY <1>2, <2>1
<1> HIDE DEF up
<1>5. SaveTribes(old, ts) = IF HasRow(old, last.tribe) THEN up ELSE Append(up, last)
  BY DEF SaveTribes, up
<1>6. CASE HasRow(old, last.tribe)
  BY <1>1, <1>2, <1>5, <1>6
<1>7. CASE ~ HasRow(old, last.tribe)
  <2>1. SaveTribes(old, ts) = Append(up, last)
    BY <1>5, <1>7
  <2>2. i \in 1 .. Len(old) + 1
    BY <1>4, <2>1
  <2>3. CASE i = Len(old) + 1
    BY <1>3, <1>4, <2>1, <2>3
  <2>4. CASE i # Len(old) + 1
    <3>1. i \in 1 .. Len(old)
      BY <1>2, <2>2, <2>4
    <3> QED BY <1>1, <1>2, <1>4, <2>1, <3>1
  <2> QED BY <2>3, <2>4
<1> QED BY <1>6, <1>7

\* A step that leaves every row of one game with a rightful capital, and the rest alone.
LEMMA RightfulStep ==
    ASSUME CapitalInv, IInv', NEW g \in GameIds,
           \A h \in GameIds : h # g => rows'[h] = rows[h] /\ owner'[h] = owner[h],
           \A i \in DOMAIN rows'[g] : Rightful(owner'[g], rows'[g][i])
    PROVE  CapitalsApart' /\ NeutralHasNone'
<1>1. ASSUME NEW h \in GameIds, NEW i \in DOMAIN rows'[h], NEW j \in DOMAIN rows'[h],
             rows'[h][i].capital # NoCity
      PROVE  /\ owner'[h][rows'[h][i].capital] \in {rows'[h][i].tribe, Neutral}
             /\ rows'[h][i].capital = rows'[h][j].capital => i = j
  <2>1. CASE h = g
    <3>1. rows'[g][i].tribe = IF i = 1 THEN Neutral ELSE i - 1
      BY <1>1, <2>1 DEF IInv, Numbered
    <3>2. rows'[g][j].tribe = IF j = 1 THEN Neutral ELSE j - 1
      BY <1>1, <2>1 DEF IInv, Numbered
    <3>3. i \in Nat /\ j \in Nat /\ i >= 1 /\ j >= 1
      <4>1. rows'[g] \in Seq(TribeRow)
        BY DEF IInv, TypeOK
      <4> QED BY <1>1, <2>1, <4>1
    <3>4. Rightful(owner'[g], rows'[g][i]) /\ Rightful(owner'[g], rows'[g][j])
      BY <1>1, <2>1
    <3>5. rows'[g][i].tribe = rows'[g][j].tribe => i = j
      BY <3>1, <3>2, <3>3 DEF Neutral
    <3> QED BY <1>1, <2>1, <3>4, <3>5 DEF Rightful
  <2>2. CASE h # g
    BY <1>1, <2>2 DEF CapitalInv, CapitalsApart
  <2> QED BY <2>1, <2>2
<1>2. CapitalsApart'
  BY <1>1 DEF CapitalsApart
<1>3. NeutralHasNone'
  BY DEF CapitalInv, NeutralHasNone, Rightful
<1> QED BY <1>2, <1>3

\* Loading and saving, as every request does it.
LEMMA ResaveIsRightful ==
    ASSUME CapitalInv, IInv', NEW g \in games, NEW s \in LoadedTribes(g),
           rows' = [rows EXCEPT ![g] = SaveTribes(@, s)], owner' = owner, handler' = Idle
    PROVE  CapitalInv'
<1>1. /\ g \in GameIds /\ rows[g] \in Seq(TribeRow) /\ Len(rows[g]) >= 1
      /\ rows'[g] = SaveTribes(rows[g], s) /\ DOMAIN rows = GameIds
  BY DEF CapitalInv, IInv, TypeOK, Started
<1>2. s \in Seq(TribeRow) /\ s # << >>
  BY <1>1, LoadedType DEF CapitalInv, IInv
<1>3. /\ \A i \in DOMAIN s : Rightful(owner[g], s[i])
      /\ \A i \in DOMAIN rows[g] : HasRow(s, rows[g][i].tribe)
  BY <1>1, LoadedIsRightful DEF CapitalInv
<1>4. ASSUME NEW i \in DOMAIN rows'[g] PROVE Rightful(owner'[g], rows'[g][i])
  <2>1. \E k \in DOMAIN s : rows'[g][i] = s[k]
    BY <1>1, <1>2, <1>3, SavedFromSession
  <2> QED BY <1>3, <2>1
<1>5. CapitalsApart' /\ NeutralHasNone'
  BY <1>1, <1>4, RightfulStep
<1> QED BY <1>5 DEF CapitalInv, SessionCapitals

THEOREM NextCapitalInv == CapitalInv /\ [Next]_vars => CapitalInv'
<1> SUFFICES ASSUME CapitalInv, [Next]_vars PROVE CapitalInv'
  OBVIOUS
<1>0. IInv /\ IInv'
  BY NextIInv DEF CapitalInv
<1>1. ASSUME NEW C \in SUBSET Cities, Create(C) PROVE CapitalInv'
  <2> DEFINE id == lastId + 1
             one == <<[tribe |-> Neutral, capital |-> NoCity]>>
  <2>1. /\ id \in GameIds /\ handler' = Idle
        /\ rows' = [rows EXCEPT ![id] = SaveTribes(rows[id], one)]
        /\ owner' = [owner EXCEPT ![id] =
                       [c \in Cities |-> IF c \in C THEN Neutral ELSE owner[id][c]]]
    BY <1>1 DEF Create
  <2>2. one \in Seq(TribeRow) /\ one # << >> /\ one[Len(one)] = one[1] /\ DOMAIN one = {1}
        /\ one[1].tribe = Neutral /\ one[1].capital = NoCity
    BY DEF TribeRow, TribeId
  <2> HIDE DEF one, id
  <2>3. /\ rows[id] \in Seq(TribeRow) /\ Len(rows[id]) \in Nat
        /\ DOMAIN rows[id] = 1 .. Len(rows[id])
        /\ \A i \in 1 .. Len(rows[id]) :
              rows[id][i].tribe = IF i = 1 THEN Neutral ELSE i - 1
    BY <1>0, <2>1, GameRows
  <2>4. ASSUME NEW i \in DOMAIN rows'[id], rows'[id][i].capital # NoCity
        PROVE  i \in DOMAIN rows[id] /\ rows'[id][i] = rows[id][i]
    <3> DEFINE up == Updated(rows[id], one)
    <3>1. \A j \in DOMAIN rows[id] :
             up[j] = IF rows[id][j].tribe = Neutral THEN one[1] ELSE rows[id][j]
      BY <2>2 DEF Updated, HasRow, RowOf
    <3>2. up \in Seq(TribeRow) /\ Len(up) = Len(rows[id]) /\ DOMAIN up = DOMAIN rows[id]
      <4>1. DOMAIN up = 1 .. Len(rows[id])
        BY <2>3 DEF Updated
      <4>2. up \in [1 .. Len(rows[id]) -> TribeRow]
        <5>1. one[1] \in TribeRow
          BY <2>2
        <5>2. \A j \in 1 .. Len(rows[id]) : rows[id][j] \in TribeRow
          BY <2>3
        <5>3. \A j \in 1 .. Len(rows[id]) : up[j] \in TribeRow
          BY <2>3, <3>1, <5>1, <5>2
        <5>4. up = [j \in 1 .. Len(rows[id]) |-> up[j]]
          BY <2>3 DEF Updated
        <5> HIDE DEF up
        <5> QED BY <5>3, <5>4
      <4> QED BY <2>3, <4>1, <4>2
    <3> HIDE DEF up
    <3>3. rows'[id] = IF HasRow(rows[id], Neutral) THEN up ELSE Append(up, one[1])
      <4>1. rows'[id] = SaveTribes(rows[id], one)
        BY <1>0, <2>1 DEF IInv, TypeOK
      <4> QED BY <2>2, <4>1 DEF SaveTribes, up
    <3>4. rows'[id][i] # one[1]
      BY <2>2, <2>4
    <3>5. CASE HasRow(rows[id], Neutral)
      BY <3>1, <3>2, <3>3, <3>4, <3>5, <2>4
    <3>6. CASE ~ HasRow(rows[id], Neutral)
      <4>1. rows'[id] = Append(up, one[1])
        BY <3>3, <3>6
      <4>2. i \in 1 .. Len(up) + 1 /\ Len(up) \in Nat
        BY <3>2, <4>1, <2>3, <2>4
      <4>3. i # Len(up) + 1
        BY <3>2, <3>4, <4>1
      <4>4. i \in 1 .. Len(up)
        BY <4>2, <4>3
      <4>5. rows'[id][i] = up[i] /\ i \in DOMAIN rows[id]
        BY <2>3, <3>2, <4>1, <4>4
      <4> QED BY <3>1, <3>4, <4>5
    <3> QED BY <3>5, <3>6
  <2>5. ASSUME NEW h \in GameIds, h # id PROVE rows'[h] = rows[h] /\ owner'[h] = owner[h]
    BY <1>0, <2>1, <2>5 DEF IInv, TypeOK
  <2>6. owner'[id] = [c \in Cities |-> IF c \in C THEN Neutral ELSE owner[id][c]]
    BY <1>0, <2>1 DEF IInv, TypeOK
  <2>7. ASSUME NEW h \in GameIds, NEW i \in DOMAIN rows'[h], NEW j \in DOMAIN rows'[h],
               rows'[h][i].capital # NoCity
        PROVE  /\ owner'[h][rows'[h][i].capital] \in {rows'[h][i].tribe, Neutral}
               /\ rows'[h][i].capital = rows'[h][j].capital => i = j
    <3>1. CASE h = id
      <4>1. i \in DOMAIN rows[id] /\ rows'[id][i] = rows[id][i] /\ rows[id][i].capital # NoCity
        BY <2>4, <2>7, <3>1
      <4>2. rows[id][i].capital \in Cities
        <5>1. rows[id][i] \in TribeRow
          BY <2>3, <4>1
        <5> QED BY <4>1, <5>1 DEF TribeRow
      <4>3. owner[id][rows[id][i].capital] \in {rows[id][i].tribe, Neutral}
        BY <2>1, <4>1 DEF CapitalInv, CapitalsApart
      <4>4. ASSUME rows'[id][i].capital = rows'[id][j].capital PROVE i = j
        <5>1. j \in DOMAIN rows[id] /\ rows'[id][j] = rows[id][j]
          BY <2>4, <2>7, <3>1, <4>4
        <5> QED BY <2>1, <4>1, <4>4, <5>1 DEF CapitalInv, CapitalsApart
      <4> QED BY <2>6, <3>1, <4>1, <4>2, <4>3, <4>4
    <3>2. CASE h # id
      BY <2>5, <2>7, <3>2 DEF CapitalInv, CapitalsApart
    <3> QED BY <3>1, <3>2
  <2>8. CapitalsApart'
    BY <2>7 DEF CapitalsApart
  <2>9. NeutralHasNone'
    BY <2>4, <2>5 DEF NeutralHasNone, CapitalInv
  <2> QED BY <1>0, <2>1, <2>8, <2>9 DEF CapitalInv, SessionCapitals
<1>2. ASSUME NEW g \in GameIds, Resave(g) \/ EndTurn(g) PROVE CapitalInv'
  <2>1. g \in games /\ owner' = owner /\ handler' = Idle
        /\ \E s \in LoadedTribes(g) : rows' = [rows EXCEPT ![g] = SaveTribes(@, s)]
    BY <1>2 DEF Resave, EndTurn
  <2> QED BY <1>0, <2>1, ResaveIsRightful
<1>3. ASSUME rows' = rows, owner' = owner, handler' \in {handler, Idle} PROVE CapitalInv'
  BY <1>0, <1>3 DEF CapitalInv, CapitalsApart, NeutralHasNone, SessionCapitals
<1>4. ASSUME NEW g \in GameIds, NEW u \in Users, SelectBegin(g, u) \/ SelectBlind(g, u)
      PROVE  CapitalInv'
  <2>0. PICK b \in BOOLEAN : AddPlayer(g, u, b)
    BY <1>4, SelectionBegins
  <2>1. PICK s \in LoadedTribes(g),
             c \in {x \in Cities : owner[g][x] = Neutral} \cup {NoCity} :
          handler' = [step |-> "added", game |-> g, user |-> u, blind |-> b, city |-> c,
                      tribes |-> Append(s, [tribe |-> NextTribeId(s), capital |-> c])]
    BY <2>0 DEF AddPlayer
  <2>2. rows' = rows /\ owner' = owner
    BY <2>0 DEF AddPlayer, db
  <2>3. /\ \A i \in DOMAIN s : Rightful(owner[g], s[i])
        /\ \A i \in DOMAIN rows[g] : HasRow(s, rows[g][i].tribe)
    BY LoadedIsRightful DEF CapitalInv
  <2>4. s \in Seq(TribeRow)
    BY <1>0, LoadedType DEF IInv
  <2> DEFINE row == [tribe |-> NextTribeId(s), capital |-> c]
             ts == Append(s, row)
  <2>5. /\ Len(ts) = Len(s) + 1 /\ Len(s) \in Nat /\ DOMAIN s = 1 .. Len(s)
        /\ DOMAIN ts = 1 .. Len(s) + 1
        /\ \A k \in 1 .. Len(s) : ts[k] = s[k]
        /\ ts[Len(ts)] = row
    BY <2>4
  <2>6. row.capital = c
    OBVIOUS
  <2> HIDE DEF ts, row
  <2>7. \A t : HasRow(s, t) => HasRow(ts, t)
    BY <2>5 DEF HasRow
  <2>8. \A k \in 1 .. Len(ts) - 1 : Rightful(owner[g], ts[k])
    BY <2>3, <2>5
  <2>9. handler' = [step |-> "added", game |-> g, user |-> u, blind |-> b, city |-> c,
                    tribes |-> ts]
    BY <2>1 DEF ts, row
  <2>10. SessionCapitals'
    BY <2>2, <2>3, <2>5, <2>6, <2>7, <2>8, <2>9 DEF SessionCapitals
  <2> QED BY <1>0, <2>2, <2>10 DEF CapitalInv, CapitalsApart, NeutralHasNone
<1>5. CASE SelectSeat
  <2>1. handler \in Handler /\ handler # Idle
    BY <1>0, <1>5 DEF SelectSeat, IInv, TypeOK, Idle
  <2>2. /\ handler'.game = handler.game /\ handler'.tribes = handler.tribes
        /\ handler'.city = handler.city
    BY <1>5, <2>1 DEF SelectSeat, Handler
  <2>3. rows' = rows /\ owner' = owner
    BY <1>5 DEF SelectSeat, db
  <2> QED BY <1>0, <2>1, <2>2, <2>3 DEF CapitalInv, CapitalsApart, NeutralHasNone, SessionCapitals
<1>6. CASE SelectStore
  <2> DEFINE g == handler.game
             ts == handler.tribes
             n == Len(ts)
             me == ts[n].tribe
  <2>1. handler # Idle /\ handler \in Handler
    BY <1>0, <1>6 DEF SelectStore, Idle, IInv, TypeOK
  <2>2. /\ g \in GameIds /\ ts \in Seq(TribeRow) /\ ts # << >> /\ n \in Nat /\ n >= 1
        /\ DOMAIN ts = 1 .. n /\ me = Len(rows[g])
    BY <1>0, <2>1 DEF Handler, IInv, InFlight
  <2>3. /\ \A i \in DOMAIN rows[g] : HasRow(ts, rows[g][i].tribe)
        /\ \A k \in 1 .. n - 1 : Rightful(owner[g], ts[k])
        /\ ts[n].capital = handler.city
        /\ handler.city # NoCity => owner[g][handler.city] = Neutral
    BY <2>1 DEF CapitalInv, SessionCapitals
  <2>4. me # Neutral
    BY <1>0, <2>2, GameRows DEF Neutral
  <2> HIDE DEF me, n
  <2>5. /\ rows' = [rows EXCEPT ![g] = SaveTribes(rows[g], ts)]
        /\ owner' = [owner EXCEPT ![g] =
                       [c \in Cities |-> IF c = handler.city THEN me ELSE owner[g][c]]]
        /\ handler' = Idle
    BY <1>6 DEF SelectStore, me, n
  <2>6. /\ rows'[g] = SaveTribes(rows[g], ts) /\ rows[g] \in Seq(TribeRow)
        /\ owner'[g] = [c \in Cities |-> IF c = handler.city THEN me ELSE owner[g][c]]
        /\ \A h \in GameIds : h # g => rows'[h] = rows[h] /\ owner'[h] = owner[h]
    BY <1>0, <2>2, <2>5 DEF IInv, TypeOK
  <2>7. ASSUME NEW k \in DOMAIN ts PROVE Rightful(owner'[g], ts[k])
    <3>1. ts[k].capital # NoCity => ts[k].capital \in Cities
      <4>1. ts[k] \in TribeRow
        <5> HIDE DEF ts
        <5> QED BY <2>2, <2>7
      <4> QED BY <4>1 DEF TribeRow
    <3>2. CASE k = n
      BY <2>3, <2>4, <2>6, <3>1, <3>2 DEF Rightful, me
    <3>3. CASE k # n
      <4>1. k \in 1 .. n - 1
        BY <2>2, <3>3
      <4>2. Rightful(owner[g], ts[k])
        BY <2>3, <4>1
      <4>3. ts[k].capital # NoCity => ts[k].capital # handler.city
        BY <2>3, <4>2 DEF Rightful
      <4> QED BY <2>6, <3>1, <4>2, <4>3 DEF Rightful
    <3> QED BY <3>2, <3>3
  <2>8. ASSUME NEW i \in DOMAIN rows'[g] PROVE Rightful(owner'[g], rows'[g][i])
    <3>1. i \in DOMAIN SaveTribes(rows[g], ts) /\ rows[g] \in Seq(TribeRow)
      BY <2>6
    <3>2. \E k \in DOMAIN ts : SaveTribes(rows[g], ts)[i] = ts[k]
      <4> HIDE DEF ts, g
      <4> QED BY <2>2, <2>3, <3>1, SavedFromSession
    <3>3. \E k \in DOMAIN ts : rows'[g][i] = ts[k]
      BY <2>6, <3>2
    <3> QED BY <2>7, <3>3
  <2>9. CapitalsApart' /\ NeutralHasNone'
    BY <1>0, <2>2, <2>6, <2>8, RightfulStep
  <2> QED BY <1>0, <2>5, <2>9 DEF CapitalInv, SessionCapitals
<1> QED BY <1>1, <1>2, <1>3, <1>4, <1>5, <1>6
        DEF Next, vars, db, FatalAction, SelectRefused, Crash

\* No two tribes have one capital, and none is attached to a rival: although capitals
\* are chosen in a copy, stored in two tables, and taken back by a second create.
THEOREM CapitalsStayApart == Spec => []CapitalsApart
<1>1. Init => CapitalInv
  BY InitIInv DEF Init, CapitalInv, CapitalsApart, NeutralHasNone, SessionCapitals, Idle
<1>2. CapitalInv => CapitalsApart
  BY DEF CapitalInv
<1> QED BY <1>1, <1>2, NextCapitalInv, PTL DEF Spec

-----------------------------------------------------------------------------
(* A finished game has one owner.                                          *)

Owners(own) == {own[c] : c \in Cities} \ {Nobody}

\* Whoever owns a city has a row.
OwnersHaveRows ==
    \A g \in GameIds, c \in Cities :
        owner[g][c] # Nobody => HasRow(rows[g], owner[g][c])

FinishedInv == CapitalInv /\ OwnersHaveRows /\ FinishedMeansOneOwner

\* A save loses no tribe.
LEMMA SavedKeepsTribes ==
    ASSUME NEW old \in Seq(TribeRow), NEW ts \in Seq(TribeRow), ts # << >>,
           NEW t, HasRow(old, t)
    PROVE  HasRow(SaveTribes(old, ts), t)
<1> DEFINE new == SaveTribes(old, ts)
<1>1. PICK i \in DOMAIN old : old[i].tribe = t
  BY DEF HasRow
<1>2. /\ new \in Seq(TribeRow) /\ new[i].tribe = t
      /\ Len(new) = Len(old) \/ Len(new) = Len(old) + 1
  <2>1. i \in 1 .. Len(old)
    BY <1>1
  <2>2. /\ new \in Seq(TribeRow) /\ \A k \in 1 .. Len(old) : new[k].tribe = old[k].tribe
        /\ Len(new) = Len(old) \/ Len(new) = Len(old) + 1
    BY SaveTribesType
  <2> HIDE DEF new
  <2> QED BY <1>1, <2>1, <2>2
<1> HIDE DEF new
<1>3. i \in DOMAIN new
  BY <1>1, <1>2
<1> QED BY <1>2, <1>3 DEF HasRow, new

\* A session with the tribes of the rows, and perhaps one that owns nothing, finds
\* every owner alive and nobody else.
LEMMA AliveAreOwners ==
    ASSUME FinishedInv, NEW g \in GameIds, NEW ts \in Seq(TribeRow),
           \A i \in DOMAIN rows[g] : HasRow(ts, rows[g][i].tribe)
    PROVE  Alive(ts, owner[g]) = Owners(owner[g])
<1>1. ASSUME NEW c \in Cities, owner[g][c] # Nobody
      PROVE  owner[g][c] \in {ts[i].tribe : i \in DOMAIN ts}
  BY <1>1 DEF FinishedInv, OwnersHaveRows, HasRow
<1>2. \A i \in DOMAIN ts : ts[i].tribe # Nobody
  <2>1. \A i \in DOMAIN ts : ts[i] \in TribeRow
    OBVIOUS
  <2> QED BY <2>1 DEF TribeRow, TribeId, Neutral, Nobody
<1> QED BY <1>1, <1>2 DEF Alive, Owners

\* There are finitely many owners, none of which is the next tribe.
LEMMA OwnersAreFinite ==
    ASSUME FinishedInv, NEW g \in GameIds
    PROVE  IsFiniteSet(Owners(owner[g])) /\ Len(rows[g]) \notin Owners(owner[g])
<1> DEFINE n == Len(rows[g])
<1>1. /\ n \in Nat /\ DOMAIN rows[g] = 1 .. n
      /\ \A i \in 1 .. n : rows[g][i].tribe = IF i = 1 THEN Neutral ELSE i - 1
  BY GameRows DEF FinishedInv, CapitalInv
<1> HIDE DEF n
<1>2. \A i \in 1 .. n : rows[g][i].tribe \in -1 .. n - 1
  BY <1>1 DEF Neutral
<1>3. Owners(owner[g]) \subseteq -1 .. n - 1
  <2>1. ASSUME NEW c \in Cities, owner[g][c] # Nobody PROVE owner[g][c] \in -1 .. n - 1
    <3>1. PICK i \in DOMAIN rows[g] : rows[g][i].tribe = owner[g][c]
      BY <2>1 DEF FinishedInv, OwnersHaveRows, HasRow
    <3> QED BY <1>1, <1>2, <3>1
  <2> QED BY <2>1 DEF Owners
<1>4. IsFiniteSet(-1 .. n - 1)
  BY <1>1, FS_Interval
<1> QED BY <1>1, <1>3, <1>4, FS_Subset DEF n

\* A save of game g that leaves its owners alone.
LEMMA ResaveKeepsFinished ==
    ASSUME FinishedInv, CapitalInv', NEW g \in games,
           owner' = owner, games' = games,
           \E s \in LoadedTribes(g) : rows' = [rows EXCEPT ![g] = SaveTribes(@, s)],
           finished' = [finished EXCEPT ![g] = IsFinished(Alive(rows[g], owner[g]))]
    PROVE  FinishedInv'
<1>0. IInv /\ g \in GameIds
  BY DEF FinishedInv, CapitalInv, IInv, TypeOK
<1>1. PICK s \in LoadedTribes(g) : rows' = [rows EXCEPT ![g] = SaveTribes(@, s)]
  OBVIOUS
<1>2. rows[g] \in Seq(TribeRow) /\ Len(rows[g]) >= 1 /\ DOMAIN rows = GameIds
  BY <1>0 DEF IInv, TypeOK, Started
<1>3. s \in Seq(TribeRow) /\ s # << >>
  <2>1. s \in Seq(TribeRow) /\ Len(s) = Len(rows[g])
    BY <1>0, LoadedType DEF IInv
  <2>2. Len(s) # 0
    BY <1>2, <2>1
  <2> QED BY <2>1, <2>2
<1>4. OwnersHaveRows'
  <2>1. \A h \in GameIds : rows'[h] = IF h = g THEN SaveTribes(rows[g], s) ELSE rows[h]
    BY <1>1, <1>2
  <2>2. \A t : HasRow(rows[g], t) => HasRow(SaveTribes(rows[g], s), t)
    BY <1>2, <1>3, SavedKeepsTribes
  <2>3. \A h \in GameIds : \A t : HasRow(rows[h], t) => HasRow(rows'[h], t)
    BY <2>1, <2>2
  <2> QED BY <2>3 DEF OwnersHaveRows, FinishedInv
<1>5. \A i \in DOMAIN rows[g] : HasRow(rows[g], rows[g][i].tribe)
  BY DEF HasRow
<1>6. Alive(rows[g], owner[g]) = Owners(owner[g])
  BY <1>0, <1>2, <1>5, AliveAreOwners
<1>7. finished'[g] = (Cardinality(Owners(owner[g])) = 1)
      /\ \A h \in GameIds : h # g => finished'[h] = finished[h]
  BY <1>0, <1>6 DEF IsFinished, IInv, TypeOK
<1>8. FinishedMeansOneOwner'
  <2>1. ASSUME NEW h \in games', finished'[h] PROVE Cardinality(Owners(owner'[h])) = 1
    <3>1. h \in games /\ h \in GameIds /\ owner'[h] = owner[h]
      BY <1>0, <2>1 DEF IInv, TypeOK
    <3>2. CASE h = g
      BY <1>7, <2>1, <3>1, <3>2
    <3>3. CASE h # g
      <4>1. finished[h]
        BY <1>7, <2>1, <3>1, <3>3
      <4>2. Cardinality(Owners(owner[h])) = 1
        BY <3>1, <4>1 DEF FinishedInv, FinishedMeansOneOwner, Owners
      <4> QED BY <3>1, <4>2
    <3> QED BY <3>2, <3>3
  <2> QED BY <2>1 DEF FinishedMeansOneOwner, Owners
<1> QED BY <1>4, <1>8 DEF FinishedInv

LEMMA FinishedStep == FinishedInv /\ [Next]_vars => FinishedInv'
<1> SUFFICES ASSUME FinishedInv, [Next]_vars PROVE FinishedInv'
  OBVIOUS
<1>0. IInv /\ IInv' /\ CapitalInv /\ CapitalInv'
  BY NextIInv, NextCapitalInv DEF FinishedInv, CapitalInv
<1>1. ASSUME NEW C \in SUBSET Cities, Create(C) PROVE FinishedInv'
  <2> DEFINE id == lastId + 1
             one == <<[tribe |-> Neutral, capital |-> NoCity]>>
  <2>1. /\ id \in GameIds /\ games' = games \cup {id}
        /\ rows' = [rows EXCEPT ![id] = SaveTribes(rows[id], one)]
        /\ owner' = [owner EXCEPT ![id] =
                       [c \in Cities |-> IF c \in C THEN Neutral ELSE owner[id][c]]]
        /\ finished' = [finished EXCEPT ![id] = FALSE]
    BY <1>1 DEF Create
  <2>2. one \in Seq(TribeRow) /\ one # << >>
    BY DEF TribeRow, TribeId
  <2> HIDE DEF one, id
  <2>3. /\ \A h \in GameIds : h # id =>
              /\ rows'[h] = rows[h] /\ owner'[h] = owner[h] /\ finished'[h] = finished[h]
        /\ rows'[id] = SaveTribes(rows[id], one) /\ rows[id] \in Seq(TribeRow)
        /\ owner'[id] = [c \in Cities |-> IF c \in C THEN Neutral ELSE owner[id][c]]
        /\ finished'[id] = FALSE
    BY <1>0, <2>1 DEF IInv, TypeOK
  <2>4. \A t : HasRow(rows[id], t) => HasRow(rows'[id], t)
    BY <2>2, <2>3, SavedKeepsTribes
  <2>5. HasRow(rows'[id], Neutral)
    <3>1. id \in games' /\ rows' \in [GameIds -> Seq(TribeRow)] /\ Len(rows'[id]) >= 1
      BY <1>0, <2>1 DEF IInv, TypeOK, Started
    <3>2. 1 \in DOMAIN rows'[id]
      BY <2>1, <3>1
    <3>3. rows'[id][1].tribe = Neutral
      BY <1>0, <2>1, <3>2 DEF IInv, Numbered
    <3> QED BY <3>2, <3>3 DEF HasRow
  <2>6. OwnersHaveRows'
    <3>1. ASSUME NEW h \in GameIds, NEW c \in Cities, owner'[h][c] # Nobody
          PROVE  HasRow(rows'[h], owner'[h][c])
      <4>1. CASE h = id
        BY <2>3, <2>4, <2>5, <3>1, <4>1 DEF FinishedInv, OwnersHaveRows
      <4>2. CASE h # id
        BY <2>3, <3>1, <4>2 DEF FinishedInv, OwnersHaveRows
      <4> QED BY <4>1, <4>2
    <3> QED BY <3>1 DEF OwnersHaveRows, HasRow
  <2>7. FinishedMeansOneOwner'
    <3>1. ASSUME NEW h \in games', finished'[h] PROVE Cardinality(Owners(owner'[h])) = 1
      <4>1. h # id /\ h \in games /\ h \in GameIds
        BY <1>0, <2>1, <2>3, <3>1 DEF IInv, TypeOK
      <4>2. finished[h] /\ owner'[h] = owner[h]
        BY <2>3, <3>1, <4>1
      <4> QED BY <4>1, <4>2 DEF FinishedInv, FinishedMeansOneOwner, Owners
    <3> QED BY <3>1 DEF FinishedMeansOneOwner, Owners
  <2> QED BY <1>0, <2>6, <2>7 DEF FinishedInv
<1>2. ASSUME NEW g \in GameIds, Resave(g) \/ EndTurn(g) PROVE FinishedInv'
  <2>1. /\ g \in games /\ owner' = owner /\ games' = games
        /\ \E s \in LoadedTribes(g) : rows' = [rows EXCEPT ![g] = SaveTribes(@, s)]
        /\ finished' = [finished EXCEPT ![g] = IsFinished(Alive(rows[g], owner[g]))]
    BY <1>2 DEF Resave, EndTurn
  <2> QED BY <1>0, <2>1, ResaveKeepsFinished
<1>3. ASSUME UNCHANGED db PROVE FinishedInv'
  BY <1>0, <1>3 DEF db, FinishedInv, OwnersHaveRows, FinishedMeansOneOwner
<1>4. CASE SelectStore
  <2> DEFINE g == handler.game
             ts == handler.tribes
             me == ts[Len(ts)].tribe
             mine == IF handler.city = NoCity THEN {} ELSE {me}
  <2>1. handler # Idle /\ handler \in Handler
    BY <1>0, <1>4 DEF SelectStore, Idle, IInv, TypeOK
  <2>2. /\ g \in GameIds /\ ts \in Seq(TribeRow) /\ ts # << >> /\ me = Len(rows[g])
        /\ handler.city \in Cities \cup {NoCity}
    BY <1>0, <2>1 DEF Handler, IInv, InFlight
  <2>3. /\ \A i \in DOMAIN rows[g] : HasRow(ts, rows[g][i].tribe)
        /\ handler.city # NoCity => owner[g][handler.city] = Neutral
    BY <1>0, <2>1 DEF CapitalInv, SessionCapitals
  <2>4. Alive(ts, owner[g]) = Owners(owner[g])
    BY <2>2, <2>3, AliveAreOwners
  <2>5. IsFiniteSet(Owners(owner[g])) /\ me \notin Owners(owner[g])
    BY <2>2, OwnersAreFinite
  <2>6. /\ games' = games
        /\ rows' = [rows EXCEPT ![g] = SaveTribes(rows[g], ts)]
        /\ owner' = [owner EXCEPT ![g] =
                       [c \in Cities |-> IF c = handler.city THEN me ELSE owner[g][c]]]
        /\ finished' = [finished EXCEPT ![g] =
                          IsFinished(Alive(ts, owner[g]) \cup mine)]
    BY <1>4 DEF SelectStore
  <2>7. HasRow(SaveTribes(rows[g], ts), me)
    <3>1. ~ HasRow(rows[g], me)
      <4>1. /\ Len(rows[g]) \in Nat /\ DOMAIN rows[g] = 1 .. Len(rows[g])
            /\ \A i \in 1 .. Len(rows[g]) :
                  rows[g][i].tribe = IF i = 1 THEN Neutral ELSE i - 1
        BY <1>0, <2>2, GameRows
      <4>2. \A i \in 1 .. Len(rows[g]) : rows[g][i].tribe # Len(rows[g])
        BY <4>1 DEF Neutral
      <4> QED BY <2>2, <4>1, <4>2 DEF HasRow
    <3>2. rows[g] \in Seq(TribeRow) /\ Len(rows[g]) \in Nat
      BY <1>0, <2>2, GameRows
    <3> DEFINE new == SaveTribes(rows[g], ts)
    <3>3. new \in Seq(TribeRow) /\ Len(new) = Len(rows[g]) + 1
          /\ new[Len(rows[g]) + 1].tribe = me
      BY <2>2, <3>1, <3>2, SaveTribesType
    <3> HIDE DEF new, me
    <3>4. Len(rows[g]) + 1 \in DOMAIN new
      BY <3>2, <3>3
    <3> QED BY <3>3, <3>4 DEF HasRow, new
  <2> HIDE DEF me, ts, g, mine
  <2>8. /\ \A h \in GameIds : h # g =>
              /\ rows'[h] = rows[h] /\ owner'[h] = owner[h] /\ finished'[h] = finished[h]
        /\ rows'[g] = SaveTribes(rows[g], ts) /\ rows[g] \in Seq(TribeRow)
        /\ owner'[g] = [c \in Cities |-> IF c = handler.city THEN me ELSE owner[g][c]]
        /\ finished'[g] = IsFinished(Owners(owner[g]) \cup mine)
    BY <1>0, <2>2, <2>4, <2>6 DEF IInv, TypeOK
  <2>9. \A t : HasRow(rows[g], t) => HasRow(rows'[g], t)
    BY <2>2, <2>8, SavedKeepsTribes
  <2>10. OwnersHaveRows'
    <3>1. ASSUME NEW h \in GameIds, NEW c \in Cities, owner'[h][c] # Nobody
          PROVE  HasRow(rows'[h], owner'[h][c])
      <4>1. CASE h = g
        BY <2>7, <2>8, <2>9, <3>1, <4>1 DEF FinishedInv, OwnersHaveRows
      <4>2. CASE h # g
        BY <2>8, <3>1, <4>2 DEF FinishedInv, OwnersHaveRows
      <4> QED BY <4>1, <4>2
    <3> QED BY <3>1 DEF OwnersHaveRows, HasRow
  <2>11. finished'[g] => Cardinality(Owners(owner'[g])) = 1
    <3>1. CASE handler.city = NoCity
      <4>1. \A c \in Cities : owner'[g][c] = owner[g][c]
        BY <2>8, <3>1, LobbyAssumption
      <4>2. Owners(owner'[g]) = Owners(owner[g])
        BY <4>1 DEF Owners
      <4> QED BY <2>8, <3>1, <4>2 DEF IsFinished, mine
    <3>2. CASE handler.city # NoCity
      <4> DEFINE S == Owners(owner[g])
      <4>1. Neutral \in S
        BY <2>2, <2>3, <3>2 DEF Owners, Neutral, Nobody
      <4>2. mine = {me}
        BY <3>2 DEF mine
      <4>3. IsFiniteSet(S \cup {me})
        BY <2>5, FS_AddElement
      <4> HIDE DEF S
      <4>4. me \notin S
        BY <2>5 DEF S
      <4>5. Cardinality(S \cup {me}) # 1
        <5>1. ~ \E x : S \cup {me} = {x}
          BY <4>1, <4>4
        <5> QED BY <4>3, <5>1, FS_Singleton
      <4> QED BY <2>8, <4>2, <4>5 DEF IsFinished, S
    <3> QED BY <3>1, <3>2
  <2>12. FinishedMeansOneOwner'
    <3>1. ASSUME NEW h \in games', finished'[h] PROVE Cardinality(Owners(owner'[h])) = 1
      <4>1. h \in games /\ h \in GameIds
        BY <1>0, <2>6, <3>1 DEF IInv, TypeOK
      <4>2. CASE h = g
        BY <2>11, <3>1, <4>2
      <4>3. CASE h # g
        <5>1. finished[h] /\ owner'[h] = owner[h]
          BY <2>8, <3>1, <4>1, <4>3
        <5> QED BY <4>1, <5>1 DEF FinishedInv, FinishedMeansOneOwner, Owners
      <4> QED BY <4>2, <4>3
    <3> QED BY <3>1 DEF FinishedMeansOneOwner, Owners
  <2> QED BY <1>0, <2>10, <2>12 DEF FinishedInv
<1> QED BY <1>1, <1>2, <1>3, <1>4
        DEF Next, vars, db, FatalAction, SelectBegin, SelectBlind, AddPlayer, SelectSeat,
            SelectRefused, Crash

\* A game that games_list hides as finished has one owner, although a tribe that takes
\* a city is saved before the neutral tribe's list of cities is brought up to date.
THEOREM FinishedHasOneOwner == Spec => []FinishedMeansOneOwner
<1>1. Init => FinishedInv
  BY InitIInv DEF Init, FinishedInv, OwnersHaveRows, FinishedMeansOneOwner, CapitalInv,
     CapitalsApart, NeutralHasNone, SessionCapitals, Idle
<1>2. FinishedInv => FinishedMeansOneOwner
  BY DEF FinishedInv
<1> QED BY <1>1, <1>2, FinishedStep, PTL DEF Spec
=============================================================================
