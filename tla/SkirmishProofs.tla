--------------------------- MODULE SkirmishProofs ---------------------------
(***************************************************************************)
(* Fights of the game library for any number of units and tribes on any    *)
(* map: who lives is listed, ships and passengers agree, and an exchange   *)
(* hurts two and kills one, whatever the rounding of the damage.           *)
(***************************************************************************)
EXTENDS Skirmish, FiniteSetTheorems, TLAPS

-----------------------------------------------------------------------------
(* Classes and blows                                                       *)

LEMMA ShipsDontWalk == Walkers \cap Ships = {}
BY DEF Walkers, Ships, OnFoot, Afloat

LEMMA AfloatFacts == \A k \in Ships : Afloat[k].hits \in Nat /\ Afloat[k].defence \in Nat
BY DEF Ships, Afloat, Of

LEMMA OnFootFacts ==
    \A k \in Walkers : /\ OnFoot[k].hits \in Nat /\ OnFoot[k].defence \in Nat
                       /\ OnFoot[k].full \in Nat \ {0}
BY DEF Walkers, OnFoot, Of

LEMMA ClassFacts ==
    /\ DOMAIN Class = Walkers \cup Ships
    /\ \A k \in DOMAIN Class : Class[k].hits \in Nat /\ Class[k].defence \in Nat
    /\ \A k \in Walkers : Class[k].full \in Nat \ {0}
<1>1. DOMAIN Class = Walkers \cup Ships
  BY DEF Class
<1>2. \A k \in Ships : Class[k] = Afloat[k]
  BY DEF Class
<1>3. \A k \in Walkers : Class[k] = OnFoot[k]
  BY ShipsDontWalk DEF Class
<1> QED BY <1>1, <1>2, <1>3, AfloatFacts, OnFootFacts

LEMMA CeilIsInt ==
    ASSUME NEW n \in Int, NEW d \in Nat \ {0}, NEW strength, NEW h, NEW odd
    PROVE  Ceil(n, d, strength, h, odd) \subseteq Int
<1>1. (-n) \div d \in Int
  OBVIOUS
<1> DEFINE c == -((-n) \div d)
<1>2. c \in Int
  BY <1>1
<1>3. Ceil(n, d, strength, h, odd) \subseteq {c, c + 1}
  BY DEF Ceil
<1> HIDE DEF c
<1> QED BY <1>2, <1>3

\* Blows are numbers, and one that kills is not returned.
LEMMA BlowsAreInts ==
    ASSUME TypeOK, NEW a \in Units, NEW d \in Units, NEW b \in Blows(a, d)
    PROVE  /\ b[1] \in Int /\ b[2] \in Int
           /\ Falls(d, b[1]) => b[2] = 0
<1>1. \A u \in Units : /\ Vigour(u) \in Int /\ Body(u).full \in Nat \ {0}
                       /\ Class[unit[u].kind].hits \in Nat
                       /\ Class[unit[u].kind].defence \in Nat
  <2> SUFFICES ASSUME NEW u \in Units
               PROVE  /\ Vigour(u) \in Int /\ Body(u).full \in Nat \ {0}
                      /\ Class[unit[u].kind].hits \in Nat
                      /\ Class[unit[u].kind].defence \in Nat
    OBVIOUS
  <2>1. /\ unit[u].kind \in DOMAIN Class /\ unit[u].pas \in Walkers
        /\ unit[u].health \in Int /\ aboard[u] \in Int
    BY DEF TypeOK
  <2> QED BY <2>1, ClassFacts DEF Vigour, Body
<1>2. \A x \in Damage(a, d, Vigour(a)) : x \in Int
  <2> DEFINE full == Body(a).full
             h == Vigour(a)
             hits == Class[unit[a].kind].hits
             def == Class[unit[d].kind].defence
             n == 5 * (hits * h - (def * full) * Modifier(d) + 4 * full)
  <2>1. Modifier(d) \in {2, 3, 4}
    BY DEF Modifier
  <2>2. full \in Nat \ {0} /\ h \in Int /\ hits \in Nat /\ def \in Nat
    BY <1>1
  <2> HIDE DEF full, h, hits, def
  <2>3. hits * h \in Int /\ def * full \in Int /\ (def * full) * Modifier(d) \in Int
    BY <2>1, <2>2
  <2>4. n \in Int /\ 4 * full \in Nat \ {0}
    BY <2>2, <2>3
  <2>5. Ceil(n, 4 * full, hits, h, Body(a).odd) \subseteq Int
    <3> HIDE DEF n
    <3> QED BY <2>4, CeilIsInt
  <2>6. Damage(a, d, h) = Ceil(n, 4 * full, hits, h, Body(a).odd)
    BY DEF Damage, full, hits, def
  <2> QED BY <2>5, <2>6 DEF h
<1>3. \A x \in Int : \A y \in Backdraft(d, Vigour(d) - x) : y \in Int
  <2> SUFFICES ASSUME NEW x \in Int PROVE Backdraft(d, Vigour(d) - x) \subseteq Int
    OBVIOUS
  <2> DEFINE full == Body(d).full
             h == Vigour(d) - x
             def == Class[unit[d].kind].defence
             n == 5 * (def * h + 2 * full)
  <2>1. full \in Nat \ {0} /\ h \in Int /\ def \in Nat
    BY <1>1
  <2> HIDE DEF full, h, def
  <2>2. def * h \in Int
    BY <2>1
  <2>3. n \in Int /\ 2 * full \in Nat \ {0}
    BY <2>1, <2>2
  <2>4. Ceil(n, 2 * full, def, h, Body(d).odd) \subseteq Int
    <3> HIDE DEF n
    <3> QED BY <2>3, CeilIsInt
  <2> QED BY <2>4 DEF Backdraft, full, h, def
<1>4. PICK x \in Damage(a, d, Vigour(a)) :
         b \in {<<x, y>> : y \in IF Answers(a, d, x) THEN Backdraft(d, Vigour(d) - x) ELSE {0}}
  BY DEF Blows
<1>5. PICK y \in IF Answers(a, d, x) THEN Backdraft(d, Vigour(d) - x) ELSE {0} : b = <<x, y>>
  BY <1>4
<1>6. b[1] = x /\ b[2] = y /\ x \in Int
  BY <1>2, <1>5
<1>7. y \in Int
  BY <1>3, <1>5, <1>6
<1>8. Falls(d, x) => y = 0
  BY <1>5 DEF Answers
<1> QED BY <1>6, <1>7, <1>8

-----------------------------------------------------------------------------
(* An exchange of blows                                                    *)

Kept(x, y) == /\ x.tribe = y.tribe /\ x.kind = y.kind /\ x.pas = y.pas

Record == [tribe : Tribes, kind : DOMAIN Class, pas : Walkers, at : Squares,
           health : Int, kills : Nat]

\* An exchange leaves its two units what they are; each loses what struck it, and
\* those who have nothing left are the fallen.
LEMMA WoundedFacts ==
    ASSUME TypeOK, NEW a \in Units, NEW d \in Units, a # d, NEW b \in Blows(a, d)
    PROVE  /\ Wounded(a, d, b) \in [Units -> Record]
           /\ \A u \in Units : Kept(Wounded(a, d, b)[u], unit[u])
           /\ \A u \in Units : Wounded(a, d, b)[u].at = unit[u].at
           /\ \A u \in Units : Wounded(a, d, b)[u].health =
                 IF u = d THEN unit[u].health - b[1]
                 ELSE IF u = a THEN unit[u].health - b[2] ELSE unit[u].health
           /\ \A u \in Units : Wounded(a, d, b)[u].kills =
                 IF u \in {a, d} THEN unit[u].kills + Cardinality(Fallen(a, d, b) \ {u})
                 ELSE unit[u].kills
           /\ Fallen(a, d, b) = {u \in {a, d} : Wounded(a, d, b)[u].health <= 0}
<1> DEFINE W == Wounded(a, d, b)
           n(u) == Cardinality(Fallen(a, d, b) \ {u})
<1>0. b[1] \in Int /\ b[2] \in Int
  BY BlowsAreInts
<1>1. \A u \in Units : n(u) \in Nat
  <2> SUFFICES ASSUME NEW u \in Units PROVE n(u) \in Nat
    OBVIOUS
  <2>1. IsFiniteSet({a} \cup {d})
    BY FS_Singleton, FS_Union
  <2>2. Fallen(a, d, b) \ {u} \subseteq {a} \cup {d}
    BY DEF Fallen
  <2> QED BY <2>1, <2>2, FS_Subset, FS_CardinalityType
<1> HIDE DEF n
<1>2. W = [u \in Units |->
              IF u \notin {a, d} THEN unit[u]
              ELSE [unit[u] EXCEPT !.health = @ - (IF u = d THEN b[1] ELSE b[2]),
                                   !.kills = @ + n(u)]]
  BY DEF Wounded, n
<1>3. \A u \in Units : unit[u] \in Record
  BY DEF TypeOK, Record
<1>4. \A u \in Units :
        /\ W[u] \in Record
        /\ Kept(W[u], unit[u]) /\ W[u].at = unit[u].at
        /\ W[u].health = IF u = d THEN unit[u].health - b[1]
                         ELSE IF u = a THEN unit[u].health - b[2] ELSE unit[u].health
        /\ W[u].kills = IF u \in {a, d} THEN unit[u].kills + n(u) ELSE unit[u].kills
  <2> SUFFICES ASSUME NEW u \in Units
               PROVE /\ W[u] \in Record
                     /\ Kept(W[u], unit[u]) /\ W[u].at = unit[u].at
                     /\ W[u].health = IF u = d THEN unit[u].health - b[1]
                         ELSE IF u = a THEN unit[u].health - b[2] ELSE unit[u].health
                     /\ W[u].kills = IF u \in {a, d} THEN unit[u].kills + n(u)
                                     ELSE unit[u].kills
    OBVIOUS
  <2>1. CASE u \notin {a, d}
    BY <2>1, <1>2, <1>3 DEF Kept
  <2>2. CASE u \in {a, d}
    <3> DEFINE blow == IF u = d THEN b[1] ELSE b[2]
    <3>1. W[u] = [unit[u] EXCEPT !.health = @ - blow, !.kills = @ + n(u)]
      BY <2>2, <1>2
    <3>2. blow \in Int /\ n(u) \in Nat
      BY <1>0, <1>1
    <3> DEFINE r == unit[u]
               k == n(u)
               w == W[u]
    <3>4. r \in Record /\ blow \in Int /\ k \in Nat
          /\ w = [r EXCEPT !.health = @ - blow, !.kills = @ + k]
      BY <3>1, <3>2, <1>3
    <3> HIDE DEF W, blow, r, k, w
    <3>5. /\ w \in Record /\ w.health = r.health - blow /\ Kept(w, r) /\ w.at = r.at
          /\ w.kills = r.kills + k
      <4>1. r.health \in Int /\ r.kills \in Nat
        BY <3>4 DEF Record
      <4>2. w.health = r.health - blow /\ w.at = r.at /\ w.kills = r.kills + k
        BY <3>4 DEF Record
      <4>3. w.tribe = r.tribe /\ w.kind = r.kind /\ w.pas = r.pas
        BY <3>4 DEF Record
      <4>4. w \in Record
        <5> DEFINE h == r.health - blow
                   m == r.kills + k
        <5>1. h \in Int /\ m \in Nat /\ w = [r EXCEPT !.health = h, !.kills = m]
          BY <3>4, <4>1
        <5> HIDE DEF h, m
        <5> QED BY <3>4, <5>1 DEF Record
      <4> QED BY <4>2, <4>3, <4>4 DEF Kept
    <3>3. /\ W[u] \in Record
          /\ W[u].health = unit[u].health - blow
          /\ Kept(W[u], unit[u]) /\ W[u].at = unit[u].at
          /\ W[u].kills = unit[u].kills + n(u)
      BY <3>5 DEF r, w, k
    <3> QED BY <3>3, <2>2 DEF blow
  <2> QED BY <2>1, <2>2
<1>5. W \in [Units -> Record]
  <2>1. W = [u \in Units |-> W[u]]
    BY <1>2
  <2> HIDE DEF W
  <2> QED BY <2>1, <1>4
<1>6. Fallen(a, d, b) = {u \in {a, d} : W[u].health <= 0}
  <2> HIDE DEF W
  <2>0. unit[a].health \in Int /\ unit[d].health \in Int
    BY <1>3 DEF Record
  <2>1. \A u \in {a, d} : /\ W[u].health = unit[u].health - (IF u = d THEN b[1] ELSE b[2])
                          /\ unit[u].health \in Int
    BY <1>4, <2>0
  <2> QED BY <2>1, <1>0 DEF Fallen, Falls
<1> QED BY <1>4, <1>5, <1>6 DEF n

-----------------------------------------------------------------------------
(* Kills and losses                                                        *)

Lost == {u \in Units : unit[u].health <= 0}

\* The killers of the lost, one each, and what the tribes have lost.
Credited(lost, killer) ==
    /\ \A v \in lost : killer[v] # v
    /\ \A u \in Units : unit[u].kills = Cardinality({v \in lost : killer[v] = u})

Ledger ==
    /\ IsFiniteSet(Lost)
    /\ \E killer \in [Lost -> Units] : Credited(Lost, killer)
    /\ \A t \in Tribes : progress[t] = Cardinality({u \in Lost : unit[u].tribe = t})

\* What a step does to the ledger: nothing, or it writes that w has killed v.
NoKill ==
    /\ \A u \in Units : /\ unit'[u].health <= 0 <=> unit[u].health <= 0
                        /\ unit'[u].kills = unit[u].kills
                        /\ unit[u].health <= 0 => unit'[u].tribe = unit[u].tribe
    /\ progress' = progress

Kill(v, w) ==
    /\ v # w /\ ~(unit[v].health <= 0)
    /\ \A u \in Units : /\ unit'[u].health <= 0 <=> unit[u].health <= 0 \/ u = v
                        /\ unit'[u].kills = unit[u].kills + (IF u = w THEN 1 ELSE 0)
                        /\ unit'[u].tribe = unit[u].tribe
    /\ \A t \in Tribes : progress'[t] = progress[t] + (IF t = unit[v].tribe THEN 1 ELSE 0)

LEMMA NoKillKeepsLedger == ASSUME Ledger, NoKill PROVE Ledger'
<1>1. Lost' = Lost
  BY DEF Lost, NoKill
<1>2. PICK killer \in [Lost -> Units] : Credited(Lost, killer)
  BY DEF Ledger
<1>3. Credited(Lost, killer)'
  BY <1>1, <1>2 DEF Credited, NoKill
<1>4. ASSUME NEW t \in Tribes
      PROVE  progress'[t] = Cardinality({u \in Lost' : unit'[u].tribe = t})
  <2>1. {u \in Lost' : unit'[u].tribe = t} = {u \in Lost : unit[u].tribe = t}
    BY <1>1 DEF NoKill, Lost
  <2> QED BY <2>1 DEF NoKill, Ledger
<1>5. \E k \in [Lost' -> Units] : /\ \A v \in Lost' : k[v] # v
                                  /\ \A u \in Units : unit'[u].kills =
                                        Cardinality({v \in Lost' : k[v] = u})
  BY <1>1, <1>3 DEF Credited
<1> QED BY <1>1, <1>4, <1>5 DEF Ledger, Credited

\* One more in a set that counts.
LEMMA OneMore ==
    ASSUME NEW S, IsFiniteSet(S), NEW v, v \notin S
    PROVE  /\ IsFiniteSet(S \cup {v}) /\ Cardinality(S) \in Nat
           /\ Cardinality(S \cup {v}) = Cardinality(S) + 1
BY FS_AddElement, FS_CardinalityType

LEMMA KillKeepsLedger ==
    ASSUME Ledger, NEW v \in Units, NEW w \in Units, Kill(v, w) PROVE Ledger'
<1>1. Lost' = Lost \cup {v} /\ v \notin Lost
  BY DEF Lost, Kill
<1>2. IsFiniteSet(Lost) /\ IsFiniteSet(Lost')
  BY <1>1, OneMore DEF Ledger
<1>3. PICK killer \in [Lost -> Units] : Credited(Lost, killer)
  BY DEF Ledger
<1> DEFINE k == [x \in Lost' |-> IF x = v THEN w ELSE killer[x]]
<1>4. k \in [Lost' -> Units]
  BY <1>1
<1>5. \A x \in Lost' : k[x] # x
  BY <1>1, <1>3 DEF Credited, Kill
<1>6. ASSUME NEW u \in Units
      PROVE  unit'[u].kills = Cardinality({x \in Lost' : k[x] = u})
  <2> DEFINE S == {x \in Lost : killer[x] = u}
  <2>1. unit[u].kills = Cardinality(S) /\ IsFiniteSet(S) /\ v \notin S
    BY <1>1, <1>2, <1>3, FS_Subset DEF Credited
  <2>2. {x \in Lost' : k[x] = u} = IF u = w THEN S \cup {v} ELSE S
    BY <1>1
  <2>3. unit'[u].kills = unit[u].kills + (IF u = w THEN 1 ELSE 0)
    BY DEF Kill
  <2> HIDE DEF S, k
  <2>4. Cardinality(S \cup {v}) = Cardinality(S) + 1 /\ Cardinality(S) \in Nat
    BY <2>1, OneMore
  <2>5. CASE u = w
    BY <2>1, <2>2, <2>3, <2>4, <2>5
  <2>6. CASE u # w
    <3>1. unit[u].kills \in Nat
      BY <2>1, <2>4
    <3>2. unit'[u].kills = unit[u].kills
      BY <2>3, <2>6, <3>1
    <3> QED BY <2>1, <2>2, <2>6, <3>2
  <2> QED BY <2>5, <2>6
<1>7. ASSUME NEW t \in Tribes
      PROVE  progress'[t] = Cardinality({u \in Lost' : unit'[u].tribe = t})
  <2> DEFINE S == {x \in Lost : unit[x].tribe = t}
  <2>1. progress[t] = Cardinality(S) /\ IsFiniteSet(S) /\ v \notin S
    BY <1>1, <1>2, FS_Subset DEF Ledger
  <2>2. {u \in Lost' : unit'[u].tribe = t} = IF t = unit[v].tribe THEN S \cup {v} ELSE S
    BY <1>1 DEF Kill, Lost
  <2>3. progress'[t] = progress[t] + (IF t = unit[v].tribe THEN 1 ELSE 0)
    BY DEF Kill
  <2> HIDE DEF S
  <2>4. Cardinality(S \cup {v}) = Cardinality(S) + 1 /\ Cardinality(S) \in Nat
    BY <2>1, OneMore
  <2>5. CASE t = unit[v].tribe
    BY <2>1, <2>2, <2>3, <2>4, <2>5
  <2>6. CASE t # unit[v].tribe
    <3>1. progress[t] \in Nat
      BY <2>1, <2>4
    <3>2. progress'[t] = progress[t]
      BY <2>3, <2>6, <3>1
    <3> QED BY <2>1, <2>2, <2>6, <3>2
  <2> QED BY <2>5, <2>6
<1> HIDE DEF k
<1>8. \E f \in [Lost' -> Units] : /\ \A x \in Lost' : f[x] # x
                                  /\ \A u \in Units : unit'[u].kills =
                                        Cardinality({x \in Lost' : f[x] = u})
  BY <1>4, <1>5, <1>6
<1> QED BY <1>2, <1>7, <1>8 DEF Ledger, Credited

-----------------------------------------------------------------------------
(* Duels                                                                   *)

\* The exchanges counted are of two units, and each has cost the attacker five.
Costly ==
    \/ duel = Apart
    \/ /\ duel.pair \in Units \X Units /\ duel.rounds > 0
       /\ 0 < unit[duel.pair[1]].health
       /\ unit[duel.pair[1]].health <= duel.health - 5 * duel.rounds

LEMMA AtLeastFive ==
    ASSUME NEW n \in Int, NEW d \in Nat \ {0}, n >= 5 * d,
           NEW strength, NEW h, NEW odd, NEW y \in Ceil(n, d, strength, h, odd)
    PROVE  y \in Int /\ y >= 5
<1> DEFINE c == -((-n) \div d)
<1>1. c \in Int /\ c >= 5
  OBVIOUS
<1>2. y \in {c, c + 1}
  BY DEF Ceil
<1> HIDE DEF c
<1> QED BY <1>1, <1>2

\* Whoever lives and is near answers with five at least.
LEMMA AnswerHurts ==
    ASSUME TypeOK, ShipSharesItsFate, NEW a \in Units, NEW d \in Units, a # d,
           NEW b \in Blows(a, d), ~Falls(d, b[1]), IsNear(a, d)
    PROVE  b[2] >= 5
<1>1. PICK x \in Damage(a, d, Vigour(a)) :
         b \in {<<x, y>> : y \in IF Answers(a, d, x) THEN Backdraft(d, Vigour(d) - x) ELSE {0}}
  BY DEF Blows
<1>2. PICK y \in IF Answers(a, d, x) THEN Backdraft(d, Vigour(d) - x) ELSE {0} : b = <<x, y>>
  BY <1>1
<1>3. b[1] = x /\ b[2] = y /\ x \in Int
  BY <1>2, BlowsAreInts
<1>4. y \in Backdraft(d, Vigour(d) - x)
  BY <1>2, <1>3 DEF Answers
<1> DEFINE full == Body(d).full
           h == Vigour(d) - x
           def == Class[unit[d].kind].defence
           n == 5 * (def * h + 2 * full)
<1>5. /\ Vigour(d) = unit[d].health /\ unit[d].health \in Int /\ unit[d].health > x
  BY <1>3 DEF Vigour, ShipSharesItsFate, Falls, TypeOK
<1>6. full \in Nat \ {0} /\ def \in Nat /\ h \in Nat
  <2>1. unit[d].kind \in DOMAIN Class /\ unit[d].pas \in Walkers
    BY DEF TypeOK
  <2> QED BY <2>1, <1>3, <1>5, ClassFacts DEF Body
<1>7. y \in Ceil(n, 2 * full, def, h, Body(d).odd)
  BY <1>4 DEF Backdraft
<1> HIDE DEF full, h, def
<1>8. def * h \in Nat
  BY <1>6
<1>9. n \in Int /\ 2 * full \in Nat \ {0} /\ n >= 5 * (2 * full)
  BY <1>6, <1>8
<1> HIDE DEF n
<1> QED BY <1>3, <1>7, <1>9, AtLeastFive

\* The invariants of fights.
IInv == TypeOK /\ TheFallenAreGone /\ ShipSharesItsFate /\ Ledger /\ Costly

LEMMA ListedLives ==
    ASSUME IInv, NEW u \in Units
    PROVE  Listed(u) <=> unit[u].health > 0
<1>1. unit[u].tribe \in Tribes
  BY DEF IInv, TypeOK
<1> QED BY <1>1 DEF IInv, TheFallenAreGone, Listed

\* What follows from the blows, wherever the attacker goes.
LEMMA ExchangeKeeps ==
    ASSUME IInv, NEW a \in Units, NEW d \in Units, NEW b \in Blows(a, d),
           Listed(a), Listed(d), unit[a].tribe # unit[d].tribe, Exchange(a, d, b),
           \A u \in Units : /\ Kept(unit'[u], Wounded(a, d, b)[u])
                            /\ unit'[u].health = Wounded(a, d, b)[u].health
                            /\ unit'[u].kills = Wounded(a, d, b)[u].kills
    PROVE  /\ TheFallenAreGone' /\ ShipSharesItsFate' /\ Ledger' /\ Costly'
           /\ aboard' \in [Units -> Int] /\ list' \in [Tribes -> SUBSET Units]
           /\ progress' \in [Tribes -> Nat]
           /\ duel' \in [pair : {<<>>} \cup Units \X Units, rounds : Nat, health : Int]
<1> USE DEF IInv
<1>0. /\ a # d /\ b[1] \in Int /\ b[2] \in Int
      /\ unit[a].health > 0 /\ unit[d].health > 0
  BY BlowsAreInts, ListedLives
<1>1. \A u \in Units :
        /\ unit'[u].tribe = unit[u].tribe /\ unit'[u].kind = unit[u].kind
        /\ unit'[u].health = IF u = d THEN unit[u].health - b[1]
                             ELSE IF u = a THEN unit[u].health - b[2] ELSE unit[u].health
        /\ unit[u].health \in Int /\ unit[u].tribe \in Tribes /\ unit'[u].health \in Int
  <2>1. \A u \in Units : unit[u].health \in Int /\ unit[u].tribe \in Tribes
    BY DEF TypeOK
  <2> QED BY <2>1, <1>0, WoundedFacts DEF Kept
<1>2. Fallen(a, d, b) = {u \in {a, d} : unit'[u].health <= 0}
  BY <1>0, WoundedFacts
<1>3. list' = [t \in Tribes |-> list[t] \ Fallen(a, d, b)] /\ list \in [Tribes -> SUBSET Units]
  BY DEF Exchange, Bury, TypeOK
<1>4. TheFallenAreGone'
  <2> SUFFICES ASSUME NEW u \in Units, NEW t \in Tribes
               PROVE  u \in list'[t] <=> unit'[u].health > 0 /\ unit'[u].tribe = t
    BY DEF TheFallenAreGone
  <2>1. u \in list[t] <=> unit[u].health > 0 /\ unit[u].tribe = t
    BY DEF TheFallenAreGone
  <2>2. u \in list'[t] <=> u \in list[t] /\ u \notin Fallen(a, d, b)
    BY <1>3
  <2>3. CASE u \in {a, d}
    <3>1. u \in Fallen(a, d, b) <=> ~(unit'[u].health > 0)
      BY <1>1, <1>2, <2>3
    <3>2. unit[u].health > 0
      BY <1>0, <2>3
    <3> QED BY <2>1, <2>2, <3>1, <3>2, <1>1
  <2>4. CASE u \notin {a, d}
    BY <2>1, <2>2, <2>4, <1>1, <1>2
  <2> QED BY <2>3, <2>4
<1>5. aboard' \in [Units -> Int] /\ ShipSharesItsFate'
  <2>1. /\ aboard \in [Units -> Int] /\ aboard' = Passengers(a, d, b)
    BY DEF TypeOK, Exchange
  <2>2. \A u \in Units : aboard'[u] =
            IF u \in {a, d} /\ unit[u].kind \in Ships
            THEN aboard[u] - (IF u = d THEN b[1] ELSE b[2]) ELSE aboard[u]
    BY <2>1 DEF Passengers
  <2>3. aboard' \in [Units -> Int]
    BY <2>1, <1>0 DEF Passengers
  <2>4. \A u \in Units : unit[u].kind \in Ships => aboard[u] = unit[u].health
    BY DEF ShipSharesItsFate
  <2> QED BY <2>2, <2>3, <2>4, <1>0, <1>1 DEF ShipSharesItsFate
<1>6. progress' \in [Tribes -> Nat]
  <2> DEFINE n(t) == Cardinality({u \in Fallen(a, d, b) : unit[u].tribe = t})
  <2>1. \A t \in Tribes : n(t) \in Nat
    <3> SUFFICES ASSUME NEW t \in Tribes
                 PROVE  Cardinality({u \in Fallen(a, d, b) : unit[u].tribe = t}) \in Nat
      OBVIOUS
    <3>1. IsFiniteSet({a} \cup {d})
      BY FS_Singleton, FS_Union
    <3>2. {u \in Fallen(a, d, b) : unit[u].tribe = t} \subseteq {a} \cup {d}
      BY DEF Fallen
    <3> QED BY <3>1, <3>2, FS_Subset, FS_CardinalityType
  <2>2. progress' = [t \in Tribes |-> progress[t] + n(t)]
    BY DEF Exchange, Count
  <2> HIDE DEF n
  <2> QED BY <2>1, <2>2 DEF TypeOK
<1>7. duel' \in [pair : {<<>>} \cup Units \X Units, rounds : Nat, health : Int]
  <2>1. /\ duel' = Round(a, d, b)
        /\ duel \in [pair : {<<>>} \cup Units \X Units, rounds : Nat, health : Int]
    BY DEF Exchange, TypeOK
  <2>2. Apart \in [pair : {<<>>} \cup Units \X Units, rounds : Nat, health : Int]
    BY DEF Apart
  <2>3. [duel EXCEPT !.rounds = @ + 1]
            \in [pair : {<<>>} \cup Units \X Units, rounds : Nat, health : Int]
    BY <2>1
  <2>4. [pair |-> <<a, d>>, rounds |-> 1, health |-> unit[a].health]
            \in [pair : {<<>>} \cup Units \X Units, rounds : Nat, health : Int]
    BY <1>1
  <2>5. \/ duel' = Apart \/ duel' = [duel EXCEPT !.rounds = @ + 1]
        \/ duel' = [pair |-> <<a, d>>, rounds |-> 1, health |-> unit[a].health]
    BY <2>1 DEF Round
  <2> QED BY <2>2, <2>3, <2>4, <2>5
<1>8. list' \in [Tribes -> SUBSET Units]
  BY <1>3
<1>9. NoKill \/ \E v, w \in Units : Kill(v, w)
  <2> DEFINE F == Fallen(a, d, b)
             n(t) == Cardinality({u \in F : unit[u].tribe = t})
  <2>1. ASSUME NEW u \in Units
        PROVE  /\ unit[u].kills \in Nat
               /\ u \in {a, d} => unit'[u].kills = unit[u].kills + Cardinality(F \ {u})
               /\ u \notin {a, d} => unit'[u].kills = unit[u].kills
    <3>1. unit[u].kills \in Nat
      BY DEF TypeOK
    <3>2. unit'[u].kills = Wounded(a, d, b)[u].kills
      OBVIOUS
    <3>3. Wounded(a, d, b)[u].kills =
             IF u \in {a, d} THEN unit[u].kills + Cardinality(F \ {u}) ELSE unit[u].kills
      BY <1>0, WoundedFacts
    <3> QED BY <3>1, <3>2, <3>3
  <2>2. \A t \in Tribes : progress'[t] = progress[t] + n(t) /\ progress[t] \in Nat
    BY DEF Exchange, Count, TypeOK
  <2>3. \A u \in Units : /\ u \in F => unit[u].health > 0
                         /\ unit'[u].health <= 0 <=> unit[u].health <= 0 \/ u \in F
    BY <1>0, <1>1, <1>2
  <2>4. F = {} \/ F = {a} \/ F = {d}
    <3>1. Falls(d, b[1]) => b[2] = 0
      BY BlowsAreInts
    <3>2. ~(a \in F /\ d \in F)
      BY <3>1, <1>0, <1>1 DEF Fallen, Falls
    <3> QED BY <3>2 DEF Fallen
  <2>5. Cardinality({}) = 0 /\ \A x : Cardinality({x}) = 1
    BY FS_EmptySet, FS_Singleton
  <2> HIDE DEF F
  <2>6. CASE F = {}
    <3>1. \A u : F \ {u} = {}
      BY <2>6
    <3>2. ASSUME NEW u \in Units PROVE unit'[u].kills = unit[u].kills
      <4> DEFINE k == unit[u].kills
                 l == unit'[u].kills
      <4>1. k \in Nat /\ (u \in {a, d} => l = k + 0) /\ (u \notin {a, d} => l = k)
        BY <2>1, <2>5, <3>1
      <4> HIDE DEF k, l
      <4>2. l = k
        BY <4>1
      <4> QED BY <4>2 DEF k, l
    <3>3. \A t \in Tribes : {u \in F : unit[u].tribe = t} = {}
      BY <2>6
    <3>4. \A t \in Tribes : progress'[t] = progress[t]
      BY <2>2, <2>5, <3>3
    <3>5. progress \in [Tribes -> Nat] /\ progress' \in [Tribes -> Nat]
      BY <1>6 DEF TypeOK
    <3>6. progress' = progress
      BY <3>4, <3>5
    <3> QED BY <1>1, <2>3, <2>6, <3>2, <3>6 DEF NoKill
  <2>7. ASSUME NEW v \in {a, d}, NEW w \in {a, d}, v # w, F = {v}
        PROVE  Kill(v, w)
    <3>1. F \ {v} = {} /\ F \ {w} = {v} /\ v \in Units
      BY <2>7
    <3>2. /\ unit'[v].kills = unit[v].kills + 0 /\ unit'[w].kills = unit[w].kills + 1
          /\ unit[v].kills \in Nat
      <4>1. v \in Units /\ w \in Units
        BY <2>7
      <4>2. unit'[v].kills = unit[v].kills + Cardinality(F \ {v}) /\ unit[v].kills \in Nat
        BY <2>1, <2>7, <4>1
      <4>3. unit'[w].kills = unit[w].kills + Cardinality(F \ {w})
        BY <2>1, <2>7, <4>1
      <4> QED BY <2>5, <3>1, <4>2, <4>3
    <3>3. ASSUME NEW u \in Units
          PROVE  unit'[u].kills = unit[u].kills + (IF u = w THEN 1 ELSE 0)
      <4> DEFINE k == unit[u].kills
                 l == unit'[u].kills
      <4>1. k \in Nat /\ (u \notin {a, d} => l = k)
        BY <2>1
      <4>2. (u = w => l = k + 1) /\ (u = v => l = k + 0)
        BY <3>2
      <4>3. u = w \/ u = v \/ u \notin {a, d}
        BY <2>7
      <4> HIDE DEF k, l
      <4>4. l = k + (IF u = w THEN 1 ELSE 0)
        BY <2>7, <4>1, <4>2, <4>3
      <4> QED BY <4>4 DEF k, l
    <3>4. ASSUME NEW t \in Tribes
          PROVE  progress'[t] = progress[t] + (IF t = unit[v].tribe THEN 1 ELSE 0)
      <4>1. {u \in F : unit[u].tribe = t} = IF t = unit[v].tribe THEN {v} ELSE {}
        BY <2>7
      <4>2. n(t) = IF t = unit[v].tribe THEN 1 ELSE 0
        BY <2>5, <4>1
      <4> QED BY <2>2, <4>2
    <3>5. ~(unit[v].health <= 0)
      BY <1>1, <2>3, <2>7, <3>1
    <3>6. \A u \in Units : /\ unit'[u].health <= 0 <=> unit[u].health <= 0 \/ u = v
                           /\ unit'[u].tribe = unit[u].tribe
      BY <1>1, <2>3, <2>7
    <3> QED BY <2>7, <3>3, <3>4, <3>5, <3>6 DEF Kill
  <2>8. CASE F = {a}
    BY <1>0, <2>7, <2>8
  <2>9. CASE F = {d}
    BY <1>0, <2>7, <2>9
  <2> QED BY <2>4, <2>6, <2>8, <2>9
<1>10. Ledger'
  BY <1>9, NoKillKeepsLedger, KillKeepsLedger
<1>11. Costly'
  <2>1. duel' = Round(a, d, b) /\ duel \in [pair : {<<>>} \cup Units \X Units, rounds : Nat,
                                            health : Int]
    BY DEF Exchange, TypeOK
  <2>2. CASE Fallen(a, d, b) # {} \/ ~IsNear(a, d)
    BY <2>1, <2>2 DEF Round, Costly
  <2>3. CASE Fallen(a, d, b) = {} /\ IsNear(a, d)
    <3>1. ~Falls(d, b[1])
      BY <2>3 DEF Fallen
    <3>2. b[2] >= 5
      BY <1>0, <2>3, <3>1, AnswerHurts
    <3>3. unit'[a].health = unit[a].health - b[2] /\ unit'[a].health > 0
      BY <1>0, <1>1, <1>2, <2>3
    <3>4. CASE duel.pair = <<a, d>>
      <4>1. duel' = [duel EXCEPT !.rounds = @ + 1]
        BY <2>1, <2>3, <3>4 DEF Round
      <4>2. /\ duel'.pair = <<a, d>> /\ duel'.rounds = duel.rounds + 1
            /\ duel'.health = duel.health /\ duel.rounds \in Nat /\ duel.health \in Int
        BY <2>1, <3>4, <4>1
      <4>3. unit[a].health <= duel.health - 5 * duel.rounds
        <5>1. Apart.pair = <<>> /\ <<a, d>> # <<>>
          BY DEF Apart
        <5>2. duel # Apart
          BY <3>4, <5>1
        <5>3. duel.pair[1] = a
          BY <3>4
        <5> QED BY <5>2, <5>3 DEF Costly
      <4>4. unit'[a].health <= duel'.health - 5 * duel'.rounds /\ duel'.rounds > 0
        BY <1>0, <1>1, <3>2, <3>3, <4>2, <4>3
      <4>5. duel'.pair[1] = a /\ duel'.pair \in Units \X Units
        BY <4>2
      <4> QED BY <3>3, <4>4, <4>5 DEF Costly
    <3>5. CASE duel.pair # <<a, d>>
      <4>1. duel' = [pair |-> <<a, d>>, rounds |-> 1, health |-> unit[a].health]
        BY <2>1, <2>3, <3>5 DEF Round
      <4>2. /\ duel'.pair = <<a, d>> /\ duel'.rounds = 1 /\ duel'.health = unit[a].health
        BY <4>1
      <4>4. unit'[a].health <= duel'.health - 5 * duel'.rounds /\ duel'.rounds > 0
        BY <1>0, <1>1, <3>2, <3>3, <4>2
      <4>5. duel'.pair[1] = a /\ duel'.pair \in Units \X Units
        BY <4>2
      <4> QED BY <3>3, <4>4, <4>5 DEF Costly
    <3> QED BY <3>4, <3>5
  <2> QED BY <2>2, <2>3
<1> QED BY <1>4, <1>5, <1>6, <1>7, <1>8, <1>10, <1>11

LEMMA ClearedTyped ==
    ASSUME TypeOK, NEW a, NEW d, NEW b
    PROVE  Cleared(a, d, b) \in [Squares -> Units \cup {Nobody}]
BY DEF Cleared, TypeOK

-----------------------------------------------------------------------------
(* The steps                                                               *)

LEMMA InitIInv == Init => IInv
<1> SUFFICES ASSUME Init PROVE IInv
  OBVIOUS
<1>1. PICK army \in Armies :
        /\ unit = [u \in Units |-> [tribe |-> army[u].tribe, kind |-> army[u].kind,
                                    pas |-> army[u].pas, at |-> army[u].at,
                                    health |-> Class[army[u].pas].full, kills |-> 0]]
        /\ aboard = [u \in Units |-> Class[army[u].pas].full]
        /\ list = [t \in Tribes |-> {u \in Units : army[u].tribe = t}]
        /\ on = [s \in Squares |-> IF \E u \in Units : army[u].at = s
                                   THEN CHOOSE u \in Units : army[u].at = s ELSE Nobody]
        /\ progress = [t \in Tribes |-> 0]
        /\ duel = [pair |-> <<>>, rounds |-> 0, health |-> 0]
  BY DEF Init, Apart
<1>2. \A u \in Units : /\ army[u].tribe \in Tribes /\ army[u].at \in Squares
                       /\ army[u].kind \in DOMAIN Class /\ army[u].pas \in Walkers
                       /\ Class[army[u].pas].full \in Nat \ {0}
  BY SkirmishAssumption, ClassFacts
<1>3. unit \in [Units -> Record]
  BY <1>1, <1>2 DEF Record
<1>4. on \in [Squares -> Units \cup {Nobody}]
  BY <1>1
<1>5. aboard \in [Units -> Int] /\ list \in [Tribes -> SUBSET Units]
  BY <1>1, <1>2
<1>6. progress \in [Tribes -> Nat]
  BY <1>1
<1>7. duel \in [pair : {<<>>} \cup Units \X Units, rounds : Nat, health : Int]
  BY <1>1
<1>8. TypeOK
  BY <1>3, <1>4, <1>5, <1>6, <1>7 DEF TypeOK, Record
<1>9. TheFallenAreGone /\ ShipSharesItsFate
  <2>1. \A u \in Units : /\ unit[u].health = Class[army[u].pas].full
                         /\ unit[u].tribe = army[u].tribe
                         /\ aboard[u] = unit[u].health
    BY <1>1
  <2>2. \A u \in Units, t \in Tribes : u \in list[t] <=> army[u].tribe = t
    BY <1>1
  <2>3. \A u \in Units : unit[u].health > 0
    BY <1>2, <2>1
  <2> QED BY <2>1, <2>2, <2>3 DEF TheFallenAreGone, ShipSharesItsFate
<1>10. Ledger
  <2>1. \A u \in Units : unit[u].health > 0 /\ unit[u].kills = 0
    BY <1>1, <1>2
  <2>2. \A u \in Units : ~(unit[u].health <= 0)
    BY <1>3, <2>1 DEF Record
  <2>3. Lost = {}
    BY <2>2 DEF Lost
  <2>4. IsFiniteSet({}) /\ Cardinality({}) = 0
    BY FS_EmptySet
  <2> DEFINE k == [v \in {} |-> v]
  <2>5. k \in [Lost -> Units]
    BY <2>3
  <2> HIDE DEF k
  <2>6. \A u : {v \in Lost : k[v] = u} = {}
    BY <2>3
  <2>7. Credited(Lost, k)
    BY <2>1, <2>3, <2>4, <2>6 DEF Credited
  <2>8. \A t \in Tribes : {u \in Lost : unit[u].tribe = t} = {} /\ progress[t] = 0
    BY <1>1, <2>3
  <2> QED BY <2>3, <2>4, <2>5, <2>7, <2>8 DEF Ledger
<1>11. Costly
  BY <1>1 DEF Costly, Apart
<1> QED BY <1>8, <1>9, <1>10, <1>11 DEF IInv

\* An enticed unit changes its tribe and its list, and nothing else.
LEMMA EnticeKeepsIInv ==
    ASSUME IInv, NEW a \in Units, NEW d \in Units, Listed(a), Listed(d),
           unit[a].tribe # unit[d].tribe, Entice(a, d)
    PROVE  /\ IInv'
           /\ \A u \in Units : /\ unit'[u].health = unit[u].health
                               /\ unit'[u].kind = unit[u].kind /\ unit'[u].at = unit[u].at
<1> USE DEF IInv
<1>0. /\ unit \in [Units -> Record] /\ list \in [Tribes -> SUBSET Units]
      /\ unit[a].tribe \in Tribes /\ unit[d].tribe \in Tribes /\ unit[d].health > 0
  BY ListedLives DEF TypeOK, Record
<1>1. \A u \in Units : /\ unit'[u] \in Record
                       /\ unit'[u].tribe = IF u = d THEN unit[a].tribe ELSE unit[u].tribe
                       /\ unit'[u].health = unit[u].health /\ unit'[u].kind = unit[u].kind
                       /\ unit'[u].at = unit[u].at /\ unit'[u].kills = unit[u].kills
  <2> DEFINE t == unit[a].tribe
             r == unit[d]
  <2>1. t \in Tribes /\ r \in Record
    BY <1>0
  <2> HIDE DEF t, r
  <2>2. /\ [r EXCEPT !.tribe = t] \in Record /\ [r EXCEPT !.tribe = t].tribe = t
        /\ [r EXCEPT !.tribe = t].health = r.health /\ [r EXCEPT !.tribe = t].kind = r.kind
        /\ [r EXCEPT !.tribe = t].at = r.at /\ [r EXCEPT !.tribe = t].kills = r.kills
    BY <2>1 DEF Record
  <2>3. \A u \in Units : unit'[u] = IF u = d THEN [r EXCEPT !.tribe = t] ELSE unit[u]
    BY <1>0 DEF Entice, r, t
  <2> QED BY <1>0, <2>2, <2>3 DEF r, t
<1>2. unit' \in [Units -> Record]
  <2>1. unit' = [u \in Units |-> unit'[u]]
    BY <1>0 DEF Entice
  <2> QED BY <1>1, <2>1
<1>3. \A t \in Tribes : list'[t] = IF t = unit[d].tribe THEN list[t] \ {d}
                                   ELSE IF t = unit[a].tribe THEN list[t] \cup {d} ELSE list[t]
  BY <1>0 DEF Entice, Enticed
<1>4. list' \in [Tribes -> SUBSET Units]
  BY <1>0 DEF Entice, Enticed
<1>5. TheFallenAreGone'
  <2> SUFFICES ASSUME NEW u \in Units, NEW t \in Tribes
               PROVE  u \in list'[t] <=> unit'[u].health > 0 /\ unit'[u].tribe = t
    BY DEF TheFallenAreGone
  <2>1. u \in list[t] <=> unit[u].health > 0 /\ unit[u].tribe = t
    BY DEF TheFallenAreGone
  <2>2. unit'[u].health = unit[u].health
    BY <1>1
  <2>3. CASE u = d
    <3>1. unit'[u].tribe = unit[a].tribe /\ unit[u].health > 0
      BY <1>0, <1>1, <2>3
    <3>2. u \in list'[t] <=> t = unit[a].tribe
      BY <1>0, <1>3, <2>1, <2>3
    <3> QED BY <2>2, <3>1, <3>2
  <2>4. CASE u # d
    <3>1. unit'[u].tribe = unit[u].tribe
      BY <1>1, <2>4
    <3>2. u \in list'[t] <=> u \in list[t]
      BY <1>3, <2>4
    <3> QED BY <2>1, <2>2, <3>1, <3>2
  <2> QED BY <2>3, <2>4
<1>6. ShipSharesItsFate'
  BY <1>1 DEF ShipSharesItsFate, Entice
<1>7. duel' \in [pair : {<<>>} \cup Units \X Units, rounds : Nat, health : Int]
  BY DEF Entice, Apart
<1>8. TypeOK'
  BY <1>2, <1>4, <1>7 DEF TypeOK, Entice, Record
<1>9. NoKill
  <2>1. progress' = progress
    BY DEF Entice
  <2>2. ~(unit[d].health <= 0)
    BY <1>0 DEF Record
  <2> QED BY <1>1, <2>1, <2>2 DEF NoKill
<1>10. Ledger'
  BY <1>9, NoKillKeepsLedger
<1>11. Costly'
  BY DEF Entice, Costly
<1> QED BY <1>1, <1>5, <1>6, <1>8, <1>10, <1>11

\* What a step may do to places: none, or one unit goes where it may.
Goes(u, to) == \A v \in Units : unit'[v].at = IF v = u THEN to ELSE unit[v].at
Stands == \A v \in Units : unit'[v].at = unit[v].at
SameKinds == \A v \in Units : unit'[v].kind = unit[v].kind

\* What a step may do to health: nothing, or what an exchange between two does.
Strikes(a, d) ==
    /\ \A v \in Units \ {a, d} : unit'[v].health = unit[v].health
    /\ unit'[d].health <= 0 => unit'[a].health = unit[a].health
    /\ unit[a].health > 0
Spares == \A v \in Units : unit'[v].health = unit[v].health

LEMMA StruckStrikes ==
    ASSUME IInv, NEW a \in Units, NEW d \in Units, a # d, Listed(a), NEW b \in Blows(a, d),
           \A u \in Units : unit'[u].health = Wounded(a, d, b)[u].health
    PROVE  Strikes(a, d)
<1>1. b[1] \in Int /\ b[2] \in Int /\ (Falls(d, b[1]) => b[2] = 0)
  BY BlowsAreInts DEF IInv
<1>2. \A u \in Units : /\ unit[u].health \in Int
                       /\ unit'[u].health = IF u = d THEN unit[u].health - b[1]
                             ELSE IF u = a THEN unit[u].health - b[2] ELSE unit[u].health
  BY WoundedFacts DEF IInv, TypeOK
<1> QED BY <1>1, <1>2, ListedLives DEF Strikes, Falls

LEMMA FightKeepsIInv ==
    ASSUME IInv, NEW a \in Units, NEW d \in Units, Fight(a, d)
    PROVE  IInv' /\ SameKinds /\ Stands /\ (Spares \/ Strikes(a, d))
<1>0. Listed(a) /\ Listed(d) /\ unit[a].tribe # unit[d].tribe /\ a # d
  BY DEF Fight
<1>1. CASE Entice(a, d)
  BY <1>0, <1>1, EnticeKeepsIInv DEF SameKinds, Stands, Spares
<1>2. CASE \E b \in Blows(a, d) : /\ Exchange(a, d, b)
                                  /\ unit' = Wounded(a, d, b)
                                  /\ on' = Cleared(a, d, b)
  <2>1. PICK b \in Blows(a, d) : /\ Exchange(a, d, b)
                                 /\ unit' = Wounded(a, d, b)
                                 /\ on' = Cleared(a, d, b)
    BY <1>2
  <2>2. /\ unit' \in [Units -> Record]
        /\ \A u \in Units : Kept(unit'[u], unit[u]) /\ unit'[u].at = unit[u].at
    BY <1>0, <2>1, WoundedFacts DEF IInv
  <2>3. \A u \in Units : /\ Kept(unit'[u], Wounded(a, d, b)[u])
                         /\ unit'[u].health = Wounded(a, d, b)[u].health
                         /\ unit'[u].kills = Wounded(a, d, b)[u].kills
    BY <2>1 DEF Kept
  <2>4. /\ TheFallenAreGone' /\ ShipSharesItsFate' /\ Ledger' /\ Costly'
        /\ aboard' \in [Units -> Int] /\ list' \in [Tribes -> SUBSET Units]
        /\ progress' \in [Tribes -> Nat]
        /\ duel' \in [pair : {<<>>} \cup Units \X Units, rounds : Nat, health : Int]
    BY <1>0, <2>1, <2>3, ExchangeKeeps
  <2>5. on' \in [Squares -> Units \cup {Nobody}]
    BY <2>1, ClearedTyped DEF IInv
  <2>6. Strikes(a, d)
    BY <1>0, <2>3, StruckStrikes
  <2> QED BY <2>2, <2>4, <2>5, <2>6 DEF IInv, TypeOK, Record, SameKinds, Stands, Kept
<1> QED BY <1>1, <1>2 DEF Fight

\* A square in reach is on the map and may be entered.
LEMMA ReachedIsEntered ==
    ASSUME NEW u \in Units, NEW to \in Reached(u) PROVE to \in Squares /\ CanMove(u, to)
<1>1. PICK q \in Directions \X (1..MovementRange(u)) :
          /\ to = Ahead(u, q[1], q[2])
          /\ \A j \in 1..q[2] : Enters(u, Ahead(u, q[1], j))
  BY DEF Reached
<1>2. q[2] \in 1..q[2]
  BY <1>1
<1> QED BY <1>1, <1>2 DEF Enters

\* What an attack or a walk does to the place of the unit that goes.
LEMMA WalkKeepsIInv ==
    ASSUME IInv, NEW u \in Units, NEW to \in Squares, to \in Free(u), WalkTo(u, to)
    PROVE  IInv' /\ SameKinds /\ Goes(u, to) /\ CanMove(u, to) /\ Spares
<1> USE DEF IInv
<1>0. /\ unit \in [Units -> Record] /\ unit' = [unit EXCEPT ![u].at = to]
      /\ UNCHANGED <<aboard, list, progress>> /\ duel' = Apart
  BY DEF WalkTo, TypeOK, Record
<1>1. \A v \in Units : /\ unit'[v] \in Record /\ Kept(unit'[v], unit[v])
                       /\ unit'[v].health = unit[v].health
                       /\ unit'[v].kills = unit[v].kills
                       /\ unit'[v].at = IF v = u THEN to ELSE unit[v].at
  <2> DEFINE r == unit[u]
  <2>1. r \in Record
    BY <1>0
  <2> HIDE DEF r
  <2>2. /\ [r EXCEPT !.at = to] \in Record /\ Kept([r EXCEPT !.at = to], r)
        /\ [r EXCEPT !.at = to].health = r.health /\ [r EXCEPT !.at = to].at = to
        /\ [r EXCEPT !.at = to].kills = r.kills
    BY <2>1 DEF Record, Kept
  <2>3. \A v \in Units : unit'[v] = IF v = u THEN [r EXCEPT !.at = to] ELSE unit[v]
    BY <1>0 DEF r
  <2> QED BY <1>0, <2>2, <2>3 DEF r, Kept
<1>2. unit' \in [Units -> Record]
  <2>1. unit' = [v \in Units |-> unit'[v]]
    BY <1>0
  <2> QED BY <1>1, <2>1
<1>3. on' \in [Squares -> Units \cup {Nobody}]
  BY DEF WalkTo, TypeOK
<1>4. TypeOK'
  BY <1>0, <1>2, <1>3 DEF TypeOK, Record, Apart
<1>5. TheFallenAreGone' /\ ShipSharesItsFate'
  BY <1>0, <1>1 DEF TheFallenAreGone, ShipSharesItsFate, Kept
<1>6. to \in Reached(u)
  BY DEF Free
<1>7. Ledger'
  BY <1>0, <1>1, NoKillKeepsLedger DEF NoKill, Kept
<1>8. Costly'
  BY <1>0 DEF Costly
<1> QED BY <1>1, <1>4, <1>5, <1>6, <1>7, <1>8, ReachedIsEntered
        DEF SameKinds, Goes, Spares, Kept

LEMMA AttackKeepsIInv ==
    ASSUME IInv, NEW u \in Units, NEW to \in Squares, to \in Foes(u), AttackOn(u, to)
    PROVE  /\ IInv' /\ SameKinds
           /\ Stands \/ (Goes(u, to) /\ CanMove(u, to))
           /\ Spares \/ \E d \in Units \ {u} : Strikes(u, d)
<1> DEFINE d == UnitOn(to)
<1>0. /\ d \in Units /\ Listed(u) /\ Listed(d) /\ unit[u].tribe # unit[d].tribe /\ u # d
      /\ to \in Reached(u)
  BY DEF AttackOn, Foes, UnitOn, IInv, TypeOK
<1>c. CanMove(u, to)
  BY <1>0, ReachedIsEntered
<1>1. CASE Entice(u, d)
  <2> HIDE DEF d
  <2>1. /\ IInv'
        /\ \A v \in Units : /\ unit'[v].health = unit[v].health
                            /\ unit'[v].kind = unit[v].kind /\ unit'[v].at = unit[v].at
    BY <1>0, <1>1, EnticeKeepsIInv
  <2> QED BY <2>1 DEF SameKinds, Stands, Spares
<1>2. CASE ~Entice(u, d)
  <2>1. PICK b \in Blows(u, d) :
          /\ Exchange(u, d, b)
          /\ \/ /\ unit' = [Wounded(u, d, b) EXCEPT ![u].at = to]
                /\ on' = [Cleared(u, d, b) EXCEPT ![unit[u].at] = Nobody, ![to] = u]
             \/ unit' = Wounded(u, d, b) /\ on' = Cleared(u, d, b)
    BY <1>2 DEF AttackOn
  <2> HIDE DEF d
  <2> DEFINE W == Wounded(u, d, b)
  <2>2. /\ W \in [Units -> Record]
        /\ \A v \in Units : Kept(W[v], unit[v]) /\ W[v].at = unit[v].at
    BY <1>0, WoundedFacts DEF IInv
  <2>3. /\ unit' \in [Units -> Record] /\ (Stands \/ Goes(u, to))
        /\ \A v \in Units : /\ Kept(unit'[v], W[v]) /\ unit'[v].health = W[v].health
                           /\ unit'[v].kills = W[v].kills
    <3> HIDE DEF W
    <3>1. CASE unit' = W
      BY <2>2, <3>1 DEF Stands, Kept
    <3>2. CASE unit' = [W EXCEPT ![u].at = to]
      <4> DEFINE r == W[u]
      <4>1. r \in Record
        BY <2>2
      <4> HIDE DEF r
      <4>2. /\ [r EXCEPT !.at = to] \in Record /\ Kept([r EXCEPT !.at = to], r)
            /\ [r EXCEPT !.at = to].health = r.health /\ [r EXCEPT !.at = to].at = to
            /\ [r EXCEPT !.at = to].kills = r.kills
        BY <4>1 DEF Record, Kept
      <4>3. \A v \in Units : unit'[v] = IF v = u THEN [r EXCEPT !.at = to] ELSE W[v]
        BY <2>2, <3>2 DEF r
      <4>4. \A v \in Units : unit'[v] \in Record
        BY <2>2, <4>2, <4>3
      <4>5. unit' = [v \in Units |-> unit'[v]]
        BY <2>2, <3>2
      <4>6. unit' \in [Units -> Record]
        BY <4>4, <4>5
      <4>7. Goes(u, to)
        BY <2>2, <4>2, <4>3 DEF Goes
      <4>8. \A v \in Units : /\ Kept(unit'[v], W[v]) /\ unit'[v].health = W[v].health
                             /\ unit'[v].kills = W[v].kills
        BY <4>2, <4>3 DEF r, Kept
      <4> QED BY <4>6, <4>7, <4>8
    <3> QED BY <2>1, <3>1, <3>2 DEF W
  <2>4. /\ TheFallenAreGone' /\ ShipSharesItsFate' /\ Ledger' /\ Costly'
        /\ aboard' \in [Units -> Int] /\ list' \in [Tribes -> SUBSET Units]
        /\ progress' \in [Tribes -> Nat]
        /\ duel' \in [pair : {<<>>} \cup Units \X Units, rounds : Nat, health : Int]
    BY <1>0, <2>1, <2>3, ExchangeKeeps
  <2>5. on' \in [Squares -> Units \cup {Nobody}]
    BY <2>1, ClearedTyped DEF IInv
  <2>6. Strikes(u, d)
    BY <1>0, <2>3, StruckStrikes
  <2>7. SameKinds
    BY <2>2, <2>3 DEF SameKinds, Kept
  <2> QED BY <1>0, <1>c, <2>3, <2>4, <2>5, <2>6, <2>7 DEF IInv, TypeOK, Record
<1> QED BY <1>1, <1>2

\* Every step, by what it does.
LEMMA Steps ==
    ASSUME IInv, [Next]_vars
    PROVE  /\ IInv' /\ SameKinds
           /\ Stands \/ \E u \in Units, to \in Squares : Goes(u, to) /\ CanMove(u, to)
           /\ Spares \/ \E a, d \in Units : a # d /\ Strikes(a, d)
<1>1. CASE \E a, d \in Units : Fight(a, d)
  <2>1. PICK a \in Units, d \in Units : Fight(a, d)
    BY <1>1
  <2>2. a # d
    BY <2>1 DEF Fight
  <2> QED BY <2>1, <2>2, FightKeepsIInv
<1>2. CASE \E u \in Units : Attack(u)
  <2>1. PICK u \in Units : \E to \in Foes(u) : AttackOn(u, to)
    BY <1>2 DEF Attack
  <2>2. PICK to \in Foes(u) : AttackOn(u, to)
    BY <2>1
  <2>3. to \in Squares
    BY <2>2, ReachedIsEntered DEF Foes
  <2> QED BY <2>2, <2>3, AttackKeepsIInv
<1>3. CASE \E u \in Units : Walk(u)
  <2>1. PICK u \in Units : \E to \in Free(u) : WalkTo(u, to)
    BY <1>3 DEF Walk
  <2>2. PICK to \in Free(u) : WalkTo(u, to)
    BY <2>1
  <2>3. to \in Squares
    BY <2>2, ReachedIsEntered DEF Free
  <2> QED BY <2>2, <2>3, WalkKeepsIInv
<1>4. CASE UNCHANGED vars
  <2>1. TypeOK' /\ TheFallenAreGone' /\ ShipSharesItsFate' /\ SameKinds /\ Stands /\ Spares
    BY <1>4 DEF vars, IInv, TypeOK, TheFallenAreGone, ShipSharesItsFate, Listed, SameKinds,
                Stands, Spares
  <2>2. Ledger'
    BY <1>4, NoKillKeepsLedger DEF vars, NoKill, IInv
  <2>3. Costly'
    BY <1>4 DEF vars, IInv, Costly
  <2> QED BY <2>1, <2>2, <2>3 DEF IInv
<1> QED BY <1>1, <1>2, <1>3, <1>4 DEF Next

LEMMA Inductive == Spec => []IInv
<1>1. IInv /\ [Next]_vars => IInv'
  BY Steps
<1> QED BY <1>1, InitIInv, PTL DEF Spec

-----------------------------------------------------------------------------
(* The properties                                                          *)

\* TypeOK: every reachable state of a fight is typed.
THEOREM TypeCorrect == Spec => []TypeOK
<1>1. IInv => TypeOK
  BY DEF IInv
<1> QED BY <1>1, Inductive, PTL

\* TheFallenAreGone: a unit is in the list of its tribe exactly as long as it has
\* health, however often units are enticed and whatever the rounding of damage.
THEOREM FallenAreGone == Spec => []TheFallenAreGone
<1>1. IInv => TheFallenAreGone
  BY DEF IInv
<1> QED BY <1>1, Inductive, PTL

\* ShipSharesItsFate: the health of a ship and of its passenger are one.
THEOREM ShipsShareTheirFate == Spec => []ShipSharesItsFate
<1>1. IInv => ShipSharesItsFate
  BY DEF IInv
<1> QED BY <1>1, Inductive, PTL

\* KillsAreLosses: the kills of all units and the counters of the achievements agree
\* with the dead, one by one, whoever fell in attack or in defence.
THEOREM EveryLossIsAKill == Spec => []KillsAreLosses
<1>1. IInv => KillsAreLosses
  BY DEF IInv, Ledger, Credited, Lost, KillsAreLosses
<1> QED BY <1>1, Inductive, PTL

\* DuelIsShort: whatever the classes, the health and the terrain, every exchange costs
\* the attacker five at least, so no attack at close quarters can go on for ever.
THEOREM DuelsEnd == Spec => []DuelIsShort
<1>1. IInv => DuelIsShort
  <2>1. Apart.rounds = 0
    BY DEF Apart
  <2> QED BY <2>1 DEF IInv, Costly, DuelIsShort
<1> QED BY <1>1, Inductive, PTL

\* BlowsAreExchanged: no step hurts more than two or kills more than one.
THEOREM ExchangesAreBlows == Spec => BlowsAreExchanged
<1> DEFINE hurt == {u \in Units : unit'[u].health # unit[u].health}
           dead == {u \in hurt : unit'[u].health <= 0}
<1>1. IInv /\ [Next]_vars => Cardinality(hurt) <= 2 /\ Cardinality(dead) <= 1
  <2> SUFFICES ASSUME IInv, [Next]_vars
               PROVE  Cardinality(hurt) <= 2 /\ Cardinality(dead) <= 1
    OBVIOUS
  <2>1. CASE Spares
    <3>1. hurt = {} /\ dead = {}
      BY <2>1 DEF Spares
    <3> QED BY <3>1, FS_EmptySet
  <2>2. CASE \E a, d \in Units : a # d /\ Strikes(a, d)
    <3>1. PICK a \in Units, d \in Units : a # d /\ Strikes(a, d)
      BY <2>2
    <3>2. hurt \subseteq {a, d}
      BY <3>1 DEF Strikes
    <3>3. dead \subseteq {a} \/ dead \subseteq {d}
      BY <3>1, <3>2 DEF Strikes
    <3>4. /\ IsFiniteSet({a}) /\ IsFiniteSet({d}) /\ Cardinality({a}) = 1
          /\ Cardinality({d}) = 1
      BY FS_Singleton
    <3>5. Cardinality(dead) <= 1
      BY <3>3, <3>4, FS_Subset
    <3>6. IsFiniteSet({a, d}) /\ Cardinality({a, d}) = 2
      <4>1. {a, d} = {a} \cup {d} /\ d \notin {a}
        BY <3>1
      <4>2. /\ IsFiniteSet({a} \cup {d})
            /\ Cardinality({a} \cup {d}) = Cardinality({a}) + 1
        BY <3>4, <4>1, FS_AddElement
      <4> QED BY <3>4, <4>1, <4>2
    <3>7. Cardinality(hurt) <= 2
      BY <3>2, <3>6, FS_Subset
    <3> QED BY <3>5, <3>7
  <2> QED BY <2>1, <2>2, Steps
<1> QED BY <1>1, Inductive, PTL DEF Spec, BlowsAreExchanged

\* FightsEndCleanly: for any number of units, whoever fights whom in whatever order.
THEOREM FightsStayClean == Spec => FightsEndCleanly
<1>1. TheFallenAreGone /\ ShipSharesItsFate => TheFallenAreGone /\ ShipSharesItsFate
  OBVIOUS
<1> QED BY <1>1, FallenAreGone, ShipsShareTheirFate, ExchangesAreBlows, PTL DEF FightsEndCleanly

\* KeepsToItsElement: units that were put where they may stand stay where they may,
\* however they walk, attack and take squares.
THEOREM ElementsAreKept == Init /\ KeepsToItsElement /\ [][Next]_vars => []KeepsToItsElement
<1>1. IInv /\ KeepsToItsElement /\ [Next]_vars => KeepsToItsElement'
  <2> SUFFICES ASSUME IInv, KeepsToItsElement, [Next]_vars PROVE KeepsToItsElement'
    OBVIOUS
  <2>1. SameKinds
    BY Steps
  <2>2. CASE Stands
    BY <2>1, <2>2 DEF KeepsToItsElement, Stands, SameKinds
  <2>3. CASE \E u \in Units, to \in Squares : Goes(u, to) /\ CanMove(u, to)
    <3>1. PICK u \in Units, to \in Squares : Goes(u, to) /\ CanMove(u, to)
      BY <2>3
    <3>2. IF unit[u].kind \in Ships
          THEN Terrain[to] \in {"Water", "DeepWater", "Mountain"} \/ to \in Ports
          ELSE Terrain[to] \notin {"Water", "DeepWater"}
      BY <3>1, SkirmishAssumption DEF CanMove
    <3> QED BY <2>1, <3>1, <3>2 DEF KeepsToItsElement, Goes, SameKinds
  <2> QED BY <2>2, <2>3, Steps
<1>2. Init /\ [][Next]_vars => []IInv
  BY Inductive DEF Spec
<1> QED BY <1>1, <1>2, PTL
=============================================================================
