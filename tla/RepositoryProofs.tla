-------------------------- MODULE RepositoryProofs --------------------------
(***************************************************************************)
(* Whatever statements are refused and whenever the connection breaks or   *)
(* the process dies: no request leaves a transaction open, the flag is     *)
(* stuck only by a lost BEGIN, a game is stored in part only for the two   *)
(* reasons in causes, and until then the repository implements Store.      *)
(***************************************************************************)
EXTENDS Repository, TLAPS

-----------------------------------------------------------------------------
(* The invariant                                                           *)

\* Which handler a step belongs to.
KindFits ==
    /\ pc = "join" => kind = "select"
    /\ pc \in {"seat", "unseat", "ready", "seatcommit"} => kind = "select"
    /\ pc = "begin" => kind # "ready"
    /\ pc \in {"route", "commit"} => kind = "action"

\* An open transaction has the flag and a connection; without one the rows are
\* what a statement sees.
TransactionIsFlagged ==
    /\ tx # "idle" => flag /\ conn
    /\ tx = "idle" => work = rows

\* Where no transaction is open and the flag, if up, is left over from a lost BEGIN.
Outside == pc \in {"idle", "join", "begin"} \/ (pc = "save" /\ kind # "action")
\* Where a leftover flag makes save believe that its caller opened one.
Believes == pc \in {"statement", "saverollback"} /\ kind # "action" /\ external
OutsideIsIdle ==
    /\ Outside => tx = "idle" /\ (flag => beginLost)
    /\ Believes => tx = "idle" /\ beginLost
    /\ pc = "saverollback" => tx # "open"

\* An action carries its transaction through unless something failed.
ActionIsCovered ==
    /\ kind = "action" /\ pc \in {"route", "save"} => flag
    /\ kind = "action" /\ pc \in {"statement", "saverollback"} => external
    /\ kind = "action" /\ pc \in {"route", "save", "statement", "commit"}
           => failed \/ tx = "open"
    /\ pc = "saverollback" => failed

\* The place of a part among the statements.
Place == [games |-> 1, tribes |-> 2, techs |-> 3, tiles |-> 4, units |-> 6,
          cities |-> 7, buildings |-> 8, resources |-> 9]

\* What an open transaction has written.
TransactionHolds ==
    /\ pc \in {"join", "begin", "route", "seat", "unseat", "ready", "seatcommit", "save"}
          => \A p \in Parts : work[p] = rows[p]
    /\ tx = "open" /\ pc = "statement"
          => \A p \in Parts : session[p] # Missing /\ Place[p] < step => work[p] = session[p]
    /\ tx = "open" /\ pc = "commit"
          => \A p \in Parts : session[p] # Missing => work[p] = session[p]

\* While nothing is torn: the rows are of one earlier request, the session of this.
Newest == IF kind = "ready" THEN rows["games"] ELSE requests
SoundIsWhole ==
    causes = {} =>
        /\ Whole(rows)
        /\ rows["games"] \in 0..requests
        /\ pc # "idle" /\ (pc = "saverollback" => kind = "action") =>
              /\ \A p \in Parts : session[p] = Newest
              /\ kind # "ready" => rows["games"] < requests

\* The seat of a request is stored by its commit, not before, unless its BEGIN was lost.
SeatIsNew ==
    /\ rows["seat"] \in 0..requests
    /\ pc \notin {"ready", "seatcommit"} => work["seat"] = rows["seat"]
    /\ pc \in {"join", "begin", "seat", "unseat"} => rows["seat"] < requests
    /\ pc \in {"ready", "seatcommit"} =>
          /\ work["seat"] \in {rows["seat"], requests}
          /\ rows["seat"] < requests \/ beginLost
    /\ pc = "seat" => tx # "idle" \/ beginLost \/ ~conn

\* What the properties say of the last answer.
AnswersHold == OkIsStoredOrFailed /\ RefusedIsNotSeated

IInv == /\ TypeOK /\ KindFits /\ TransactionIsFlagged /\ OutsideIsIdle /\ ActionIsCovered
        /\ TransactionHolds /\ SoundIsWhole /\ SeatIsNew /\ AnswersHold
-----------------------------------------------------------------------------
(* Statements                                                              *)

LEMMA Length == Len(SaveStatements) = 9
BY DEF SaveStatements

LEMMA Places == \A p \in Parts : Place[p] \in 1..9
BY DEF Parts, Place

\* The statements of save, each part at its place; the units are deleted before.
LEMMA Statements ==
    \A i \in 1..9 : \/ SaveStatements[i].part \in Parts /\ Place[SaveStatements[i].part] = i
                    \/ i = 5 /\ SaveStatements[i].part = "delete units"
<1>2. /\ SaveStatements[1].part = "games" /\ SaveStatements[2].part = "tribes"
      /\ SaveStatements[3].part = "techs" /\ SaveStatements[4].part = "tiles"
      /\ SaveStatements[5].part = "delete units" /\ SaveStatements[6].part = "units"
      /\ SaveStatements[7].part = "cities" /\ SaveStatements[8].part = "buildings"
      /\ SaveStatements[9].part = "resources"
  BY DEF SaveStatements, Statement
<1>3. ASSUME NEW i \in 1..9
      PROVE  \/ SaveStatements[i].part \in Parts /\ Place[SaveStatements[i].part] = i
             \/ i = 5 /\ SaveStatements[i].part = "delete units"
  <2>1. \/ i = 1 \/ i = 2 \/ i = 3 \/ i = 4 \/ i = 5 \/ i = 6 \/ i = 7 \/ i = 8 \/ i = 9
    OBVIOUS
  <2>2. /\ Place["games"] = 1 /\ Place["tribes"] = 2 /\ Place["techs"] = 3
        /\ Place["tiles"] = 4 /\ Place["units"] = 6 /\ Place["cities"] = 7
        /\ Place["buildings"] = 8 /\ Place["resources"] = 9
    BY DEF Place
  <2>3. {"games", "tribes", "techs", "tiles", "units", "cities", "buildings",
         "resources"} \subseteq Parts
    BY DEF Parts
  <2> HIDE DEF Parts, Place
  <2> QED BY <1>2, <2>1, <2>2, <2>3
<1> QED BY <1>3

\* A statement keeps the seat and what the earlier ones have written.
LEMMA StatementWrites ==
    ASSUME TypeOK, step \in 1..9
    PROVE  LET new == Written(SaveStatements[step].part)
           IN  /\ new \in [Tables -> Value]
               /\ new["seat"] = work["seat"]
               /\ \A p \in Parts : Place[p] < step => new[p] = work[p]
               /\ \A p \in Parts : Place[p] = step /\ session[p] # Missing
                      => new[p] = session[p]
<1> DEFINE part == SaveStatements[step].part
           new == Written(part)
<1>0. /\ work \in [Tables -> Value] /\ session \in [Parts -> Value \cup {Missing}]
      /\ None \in Value /\ "seat" \in Tables /\ Parts \subseteq Tables
  BY DEF TypeOK, Tables, Value
<1>1. CASE part \in Parts /\ Place[part] = step
  <2>1. part # "delete units" /\ part # "seat" /\ "seat" \notin Parts
    BY <1>1 DEF Parts
  <2> DEFINE value == IF session[part] = Missing THEN None ELSE session[part]
  <2>2. new = [work EXCEPT ![part] = value] /\ value \in Value
    BY <1>0, <1>1, <2>1 DEF Written
  <2> HIDE DEF value, part, new
  <2>3. \A p \in Parts : p # part => new[p] = work[p]
    BY <1>0, <2>2
  <2>4. new \in [Tables -> Value] /\ new["seat"] = work["seat"] /\ new[part] = value
    BY <1>0, <1>1, <2>1, <2>2
  <2>5. \A p \in Parts : Place[p] = step => p = part
    BY <1>1 DEF Parts, Place
  <2>6. \A p \in Parts : Place[p] < step => p # part
    <3>1. step < step <=> FALSE
      OBVIOUS
    <3> QED BY <1>1, <3>1
  <2> QED BY <2>3, <2>4, <2>5, <2>6, <1>1 DEF value, new, part
<1>2. CASE step = 5 /\ part = "delete units"
  <2>1. new = [work EXCEPT !["units"] = None]
    BY <1>2 DEF Written
  <2> HIDE DEF new
  <2>2. \A p \in Parts : Place[p] <= 5 => p # "units" /\ Place[p] # 5
    BY DEF Parts, Place
  <2>3. \A t \in Tables : t # "units" => new[t] = work[t]
    BY <1>0, <2>1
  <2>4. new \in [Tables -> Value]
    BY <1>0, <2>1
  <2>5. \A p \in Parts : Place[p] < step => p # "units"
    <3>1. \A p \in Parts : Place[p] < 5 => Place[p] <= 5
      BY Places
    <3> QED BY <1>2, <2>2, <3>1
  <2>6. new["seat"] = work["seat"]
    BY <1>0, <2>3
  <2>7. \A p \in Parts : Place[p] < step => new[p] = work[p]
    BY <1>0, <2>3, <2>5
  <2>8. \A p \in Parts : Place[p] # step
    <3>1. \A p \in Parts : Place[p] = 5 => Place[p] <= 5
      BY Places
    <3> QED BY <1>2, <2>2, <3>1
  <2> QED BY <2>4, <2>6, <2>7, <2>8 DEF new
<1> QED BY <1>1, <1>2, Statements

-----------------------------------------------------------------------------
(* The connection                                                          *)

DbOK == /\ rows \in [Tables -> Value] /\ work \in [Tables -> Value]
        /\ tx \in {"idle", "open", "aborted"}
        /\ flag \in BOOLEAN /\ conn \in BOOLEAN
        /\ faults \in 0..MaxFaults
Sane == DbOK /\ TransactionIsFlagged

\* A refused statement writes nothing and leaves no transaction that could commit.
LEMMA Failing ==
    ASSUME Sane, Fails, UNCHANGED flag
    PROVE  /\ Sane' /\ rows' = rows /\ tx' # "open"
           /\ work' = work \/ work' = rows
           /\ tx = "idle" => tx' = "idle"
           /\ tx # "idle" /\ tx' = "idle" => ~conn'
           /\ ~conn => ~conn'
<1>1. faults' \in 0..MaxFaults
  BY BoundsAssumption DEF Sane, DbOK, Fails, Breaks, db
<1>2. CASE (~conn \/ tx = "aborted") /\ UNCHANGED db
  BY <1>1, <1>2 DEF Sane, DbOK, TransactionIsFlagged, db
<1>3. CASE /\ conn /\ tx # "aborted" /\ tx' = (IF tx = "open" THEN "aborted" ELSE tx)
           /\ UNCHANGED <<rows, work, conn>>
  BY <1>1, <1>3 DEF Sane, DbOK, TransactionIsFlagged
<1>4. CASE Breaks
  BY <1>1, <1>4 DEF Sane, DbOK, TransactionIsFlagged, Breaks
<1> QED BY <1>2, <1>3, <1>4 DEF Fails

LEMMA Executing ==
    ASSUME Sane, NEW new \in [Tables -> Value], Executes(new), UNCHANGED flag
    PROVE  /\ Sane' /\ tx' = tx /\ tx # "aborted" /\ conn /\ conn' /\ work' = new
           /\ rows' = IF tx = "open" THEN rows ELSE new
BY DEF Sane, DbOK, TransactionIsFlagged, Executes

LEMMA Beginning ==
    ASSUME Sane, BeginRuns
    PROVE  /\ Sane' /\ ~flag /\ flag' /\ tx = "idle" /\ tx' = "open" /\ conn'
           /\ rows' = rows /\ work' = work /\ beginLost' = beginLost
BY DEF Sane, DbOK, TransactionIsFlagged, BeginRuns

LEMMA BeginningFails ==
    ASSUME Sane, beginLost \in BOOLEAN, BeginFails
    PROVE  /\ Sane' /\ flag' /\ rows' = rows /\ beginLost' \in BOOLEAN
           /\ (beginLost => beginLost')
           /\ \/ flag /\ tx' = tx /\ work' = work /\ conn' = conn
              \/ ~flag /\ tx = "idle" /\ tx' = "idle" /\ beginLost'
<1>1. faults' \in 0..MaxFaults
  BY BoundsAssumption DEF Sane, DbOK, BeginFails, Breaks, db
<1> QED BY <1>1 DEF Sane, DbOK, TransactionIsFlagged, BeginFails, Breaks, db

LEMMA Committing ==
    ASSUME Sane, CommitRuns
    PROVE  /\ Sane' /\ flag' = FALSE /\ tx' = "idle" /\ work' = rows'
           /\ rows' = IF tx = "open" THEN work ELSE rows
BY DEF Sane, DbOK, TransactionIsFlagged, CommitRuns

\* Only where the connection breaks may the commit have happened.
LEMMA CommittingFails ==
    ASSUME Sane, CommitFails
    PROVE  /\ Sane' /\ flag' = FALSE /\ tx' = "idle" /\ work' = rows'
           /\ rows' = rows \/ (tx = "open" /\ rows' = work /\ ~conn')
<1>1. faults' \in 0..MaxFaults
  BY BoundsAssumption DEF Sane, DbOK, CommitFails, db
<1> QED BY <1>1 DEF Sane, DbOK, TransactionIsFlagged, CommitFails, db

LEMMA RollingBack ==
    ASSUME Sane, RollsBack
    PROVE  Sane' /\ flag' = FALSE /\ tx' = "idle" /\ work' = rows' /\ rows' = rows
BY DEF Sane, DbOK, TransactionIsFlagged, RollsBack

-----------------------------------------------------------------------------
(* Types                                                                   *)

\* TypeOK without the rows.
RequestOK ==
    /\ external \in BOOLEAN
    /\ pc \in {"idle", "join", "begin", "route", "seat", "ready", "unseat",
               "seatcommit", "save", "statement", "saverollback", "commit"}
    /\ kind \in Kinds
    /\ session \in [Parts -> Value \cup {Missing}]
    /\ step \in 1..10
    /\ requests \in 0..MaxRequests
    /\ answer \in {"none", "ok", "error"}
    /\ failed \in BOOLEAN /\ beginLost \in BOOLEAN
    /\ causes \subseteq {"no transaction", "partial load"}

LEMMA Types == TypeOK <=> DbOK /\ RequestOK
<1>1. Len(SaveStatements) + 1 = 10
  BY Length
<1> QED BY <1>1 DEF TypeOK, DbOK, RequestOK

LEMMA RequestNumbers ==
    ASSUME requests \in 0..MaxRequests
    PROVE  /\ requests \in Value /\ requests # None /\ requests # Missing
           /\ requests < MaxRequests => requests + 1 \in 0..MaxRequests /\ requests + 1 \in Value
BY BoundsAssumption DEF Value, Requests, None, Missing

LEMMA RequestCounts == ASSUME RequestOK PROVE requests \in Nat /\ requests \in 0..requests
<1>1. requests \in 0..MaxRequests
  BY DEF RequestOK
<1> QED BY <1>1, BoundsAssumption

\* A seat that is written leaves the game alone.
LEMMA SeatWrites ==
    ASSUME TypeOK
    PROVE  LET new == [work EXCEPT !["seat"] = requests]
           IN  /\ new \in [Tables -> Value] /\ new["seat"] = requests
               /\ \A p \in Parts : new[p] = work[p]
<1>1. work \in [Tables -> Value] /\ requests \in Value
  BY RequestNumbers DEF TypeOK
<1>2. "seat" \in Tables /\ \A p \in Parts : p \in Tables /\ p # "seat"
  BY DEF Tables, Parts
<1> QED BY <1>1, <1>2

-----------------------------------------------------------------------------
(* One lemma for each step                                                 *)

RequestInv == /\ KindFits /\ OutsideIsIdle /\ ActionIsCovered
          /\ TransactionHolds /\ SoundIsWhole /\ SeatIsNew /\ AnswersHold

LEMMA Invariants == IInv <=> Sane /\ RequestOK /\ RequestInv
BY Types DEF IInv, Sane, RequestInv

\* A request starts with a new number, outside of every transaction.
LEMMA LoadStep ==
    ASSUME Sane, RequestOK, RequestInv, NEW k \in Kinds, NEW M \in SUBSET Parts, Load(k, M)
    PROVE  Sane' /\ RequestOK' /\ RequestInv'
<1> DEFINE n == requests + 1
<1>1. /\ n \in 1..MaxRequests /\ n \in Value /\ requests \in Nat
      /\ faults' \in 0..MaxFaults
  <2>1. requests \in 0..MaxRequests /\ faults \in 0..MaxFaults
    BY DEF RequestOK, Sane, DbOK
  <2>2. /\ requests < MaxRequests
        /\ IF M = {} THEN faults' = faults ELSE faults < MaxFaults /\ faults' = faults + 1
    BY DEF Load
  <2>3. faults' \in 0..MaxFaults
    BY <2>1, <2>2, BoundsAssumption
  <2>4. n \in 1..MaxRequests /\ requests \in Nat
    BY <2>1, <2>2, BoundsAssumption
  <2>5. n \in Value
    BY <2>1, <2>2, RequestNumbers
  <2> QED BY <2>3, <2>4, <2>5
<1>2. /\ requests' = n /\ kind' = k /\ answer' = "none" /\ failed' = FALSE
      /\ rows' = rows /\ work' = work /\ tx' = tx /\ flag' = flag /\ conn' = conn
      /\ external' = external /\ step' = step /\ beginLost' = beginLost
      /\ session' = Changed(k, M, n) /\ pc = "idle"
      /\ causes' = IF M = {} THEN causes ELSE causes \cup {"partial load"}
  BY DEF Load
<1>3. /\ k = "ready" => pc' = "save"
      /\ k = "action" => pc' = "begin"
      /\ k = "select" => pc' = "join"
      /\ k \in {"ready", "action", "select"}
  <2>1. /\ FirstStep["ready"] = "save" /\ FirstStep["action"] = "begin"
        /\ FirstStep["select"] = "join"
    BY DEF FirstStep
  <2> QED BY <2>1 DEF Load, Kinds
<1>4. tx = "idle" /\ (flag => beginLost) /\ work = rows
  BY <1>2 DEF RequestInv, OutsideIsIdle, Outside, Sane, TransactionIsFlagged
<1>5. session' \in [Parts -> Value \cup {Missing}]
  <2>1. \A p \in Parts : rows[p] \in Value
    BY DEF Sane, DbOK, Tables
  <2> QED BY <1>1, <1>2, <2>1 DEF Changed
<1>6. Sane'
  BY <1>1, <1>2, <1>4 DEF Sane, DbOK, TransactionIsFlagged
<1> HIDE DEF n
<1>7. RequestOK'
  <2>0. n \in 0..MaxRequests
    BY <1>1, BoundsAssumption
  <2>1. requests' \in 0..MaxRequests
    BY <1>2, <2>0
  <2> QED BY <1>2, <1>3, <1>5, <2>1 DEF RequestOK, Kinds
<1>8. KindFits' /\ OutsideIsIdle' /\ ActionIsCovered' /\ TransactionHolds'
  BY <1>2, <1>3, <1>4 DEF KindFits, OutsideIsIdle, Outside, Believes, ActionIsCovered,
                          TransactionHolds
<1>9. SoundIsWhole'
  <2> SUFFICES ASSUME causes' = {} PROVE SoundIsWhole'
    BY DEF SoundIsWhole
  <2>1. M = {} /\ causes = {}
    BY <1>2
  <2>2. Whole(rows) /\ rows["games"] \in 0..requests /\ "games" \in Parts
    BY <2>1 DEF RequestInv, SoundIsWhole, Parts
  <2>3. \A p \in Parts : session'[p] = IF k = "ready" THEN rows["games"] ELSE n
    BY <1>2, <2>1, <2>2 DEF Changed, Whole
  <2>4. rows["games"] \in 0..n /\ rows["games"] < n
    BY <1>1, <2>2 DEF n
  <2> QED BY <1>2, <1>3, <2>2, <2>3, <2>4 DEF SoundIsWhole, Newest, Whole
<1>10. SeatIsNew'
  <2>1. rows["seat"] \in 0..requests
    BY DEF RequestInv, SeatIsNew
  <2>2. rows["seat"] \in 0..n /\ rows["seat"] < n
    BY <1>1, <2>1 DEF n
  <2> QED BY <1>2, <1>3, <1>4, <2>2 DEF SeatIsNew
<1>11. AnswersHold'
  BY <1>2, <1>3 DEF AnswersHold, OkIsStoredOrFailed, RefusedIsNotSeated
<1> QED BY <1>6, <1>7, <1>8, <1>9, <1>10, <1>11 DEF RequestInv

LEMMA NotFoundStep ==
    ASSUME Sane, RequestOK, RequestInv, NotFound
    PROVE  Sane' /\ RequestOK' /\ RequestInv'
<1>1. /\ requests' = requests + 1 /\ requests \in Nat /\ requests' \in 0..MaxRequests
  <2>1. requests \in 0..MaxRequests
    BY DEF RequestOK
  <2>2. requests < MaxRequests /\ requests' = requests + 1
    BY DEF NotFound
  <2> QED BY <2>1, <2>2, BoundsAssumption
<1>2. /\ rows' = rows /\ work' = work /\ tx' = tx /\ flag' = flag /\ conn' = conn
      /\ pc' = "idle" /\ pc = "idle" /\ kind' = kind /\ session' = session
      /\ external' = external /\ step' = step /\ failed' = failed /\ answer' = "error"
      /\ beginLost' = beginLost /\ causes' = causes /\ faults' = faults /\ ~conn
  BY DEF NotFound, history
<1>3. Sane'
  BY <1>2 DEF Sane, DbOK, TransactionIsFlagged
<1>4. RequestOK'
  BY <1>1, <1>2 DEF RequestOK
<1>5. KindFits' /\ OutsideIsIdle' /\ ActionIsCovered' /\ TransactionHolds'
  BY <1>2 DEF RequestInv, KindFits, OutsideIsIdle, Outside, Believes, ActionIsCovered,
              TransactionHolds
<1>6. SoundIsWhole'
  <2>1. rows["games"] \in 0..requests => rows["games"] \in 0..requests'
    BY <1>1
  <2> QED BY <1>2, <2>1 DEF RequestInv, SoundIsWhole, Whole
<1>7. SeatIsNew'
  <2>1. rows["seat"] \in 0..requests => rows["seat"] \in 0..requests'
    BY <1>1
  <2> QED BY <1>2, <2>1 DEF RequestInv, SeatIsNew
<1>8. AnswersHold'
  BY <1>2 DEF AnswersHold, OkIsStoredOrFailed, RefusedIsNotSeated
<1> QED BY <1>3, <1>4, <1>5, <1>6, <1>7, <1>8 DEF RequestInv

\* The steps of the handlers write at most the seat.
LEMMA JoinStep ==
    ASSUME Sane, RequestOK, RequestInv, Join
    PROVE  Sane' /\ RequestOK' /\ RequestInv'
<1>1. /\ flag' = flag /\ kind' = kind /\ session' = session /\ requests' = requests
      /\ external' = external /\ step' = step /\ beginLost' = beginLost /\ causes' = causes
      /\ pc = "join" /\ kind = "select"
  BY DEF Join, request, history, RequestInv, KindFits
<1>2. tx = "idle" /\ (flag => beginLost) /\ work = rows /\ rows["seat"] < requests
  BY <1>1 DEF RequestInv, OutsideIsIdle, Outside, Sane, TransactionIsFlagged, SeatIsNew
<1>3. CASE Executes(work) /\ pc' = "begin" /\ UNCHANGED <<answer, failed>>
  <2>1. /\ Sane' /\ rows' = rows /\ work' = work /\ tx' = "idle"
    BY <1>1, <1>2, <1>3, Executing DEF Sane, DbOK
  <2> QED BY <1>1, <1>2, <1>3, <2>1 DEF RequestOK, RequestInv, KindFits, OutsideIsIdle,
          Outside, Believes, ActionIsCovered, TransactionHolds, SoundIsWhole, Newest, Whole,
          SeatIsNew, AnswersHold, OkIsStoredOrFailed, RefusedIsNotSeated
<1>4. CASE Fails /\ Answered("error") /\ failed' = TRUE
  <2>1. /\ Sane' /\ rows' = rows /\ tx' = "idle" /\ work' = rows /\ pc' = "idle"
        /\ answer' = "error"
    BY <1>1, <1>2, <1>4, Failing DEF Answered
  <2>2. rows["seat"] \in 0..requests
    BY DEF RequestInv, SeatIsNew
  <2>3. rows["seat"] # requests
    BY <1>2, <2>2
  <2> QED BY <1>1, <1>2, <1>4, <2>1, <2>3 DEF RequestOK, RequestInv, KindFits, OutsideIsIdle,
          Outside, Believes, ActionIsCovered, TransactionHolds, SoundIsWhole, Newest, Whole,
          SeatIsNew, AnswersHold, OkIsStoredOrFailed, RefusedIsNotSeated
<1> QED BY <1>3, <1>4 DEF Join

LEMMA HandlerBeginStep ==
    ASSUME Sane, RequestOK, RequestInv, HandlerBegin
    PROVE  Sane' /\ RequestOK' /\ RequestInv'
<1>1. /\ kind' = kind /\ session' = session /\ requests' = requests /\ causes' = causes
      /\ external' = external /\ step' = step /\ answer' = answer /\ pc = "begin"
      /\ kind \in {"action", "select"}
      /\ pc' = IF kind = "action" THEN "route" ELSE "seat"
  BY DEF HandlerBegin, request, RequestInv, KindFits, RequestOK, Kinds
<1>2. tx = "idle" /\ (flag => beginLost) /\ work = rows /\ rows["seat"] < requests
  BY <1>1 DEF RequestInv, OutsideIsIdle, Outside, Sane, TransactionIsFlagged, SeatIsNew
<1>3. CASE BeginRuns /\ UNCHANGED failed
  <2>1. /\ Sane' /\ rows' = rows /\ work' = work /\ tx' = "open" /\ flag' /\ beginLost' = beginLost
    BY <1>3, Beginning
  <2> QED BY <1>1, <1>2, <1>3, <2>1 DEF RequestOK, RequestInv, KindFits, OutsideIsIdle,
          Outside, Believes, ActionIsCovered, TransactionHolds, SoundIsWhole, Newest, Whole,
          SeatIsNew, AnswersHold, OkIsStoredOrFailed, RefusedIsNotSeated
<1>4. CASE BeginFails /\ failed' = TRUE
  <2>1. /\ Sane' /\ rows' = rows /\ tx' = "idle" /\ flag' /\ beginLost' /\ beginLost' \in BOOLEAN
    BY <1>2, <1>4, BeginningFails DEF RequestOK
  <2>2. work' = rows
    BY <2>1 DEF Sane, TransactionIsFlagged
  <2> QED BY <1>1, <1>2, <1>4, <2>1, <2>2 DEF RequestOK, RequestInv, KindFits, OutsideIsIdle,
          Outside, Believes, ActionIsCovered, TransactionHolds, SoundIsWhole, Newest, Whole,
          SeatIsNew, AnswersHold, OkIsStoredOrFailed, RefusedIsNotSeated
<1> QED BY <1>3, <1>4 DEF HandlerBegin

LEMMA RouteStep ==
    ASSUME Sane, RequestOK, RequestInv, Route
    PROVE  Sane' /\ RequestOK' /\ RequestInv'
<1>1. /\ kind' = kind /\ session' = session /\ requests' = requests /\ causes' = causes
      /\ external' = external /\ step' = step /\ failed' = failed /\ beginLost' = beginLost
      /\ pc = "route" /\ kind = "action"
  BY DEF Route, request, history, RequestInv, KindFits
<1>2. CASE pc' = "save" /\ UNCHANGED <<db, flag, answer>>
  BY <1>1, <1>2 DEF db, Sane, DbOK, TransactionIsFlagged, RequestOK, RequestInv, KindFits,
     OutsideIsIdle, Outside, Believes, ActionIsCovered, TransactionHolds, SoundIsWhole, Newest,
     Whole, SeatIsNew, AnswersHold, OkIsStoredOrFailed, RefusedIsNotSeated
<1>3. CASE RollsBack /\ Answered("none")
  <2>1. Sane' /\ flag' = FALSE /\ tx' = "idle" /\ work' = rows' /\ rows' = rows
    BY <1>3, RollingBack
  <2> QED BY <1>1, <1>3, <2>1 DEF Answered, RequestOK, RequestInv, KindFits, OutsideIsIdle,
          Outside, Believes, ActionIsCovered, TransactionHolds, SoundIsWhole, Newest, Whole,
          SeatIsNew, AnswersHold, OkIsStoredOrFailed, RefusedIsNotSeated
<1> QED BY <1>2, <1>3 DEF Route

LEMMA SeatStep ==
    ASSUME Sane, RequestOK, RequestInv, Seat
    PROVE  Sane' /\ RequestOK' /\ RequestInv'
<1>1. /\ flag' = flag /\ kind' = kind /\ session' = session /\ requests' = requests
      /\ external' = external /\ step' = step /\ answer' = answer /\ beginLost' = beginLost
      /\ causes' = causes /\ pc = "seat" /\ kind = "select"
  BY DEF Seat, request, history, RequestInv, KindFits
<1>2. /\ work["seat"] = rows["seat"] /\ rows["seat"] < requests /\ rows["seat"] \in 0..requests
      /\ tx # "idle" \/ beginLost \/ ~conn
      /\ \A p \in Parts : work[p] = rows[p]
  BY <1>1 DEF RequestInv, SeatIsNew, TransactionHolds
<1>3. CASE /\ Executes([work EXCEPT !["seat"] = requests]) /\ pc' = "ready" /\ UNCHANGED failed
  <2> DEFINE new == [work EXCEPT !["seat"] = requests]
  <2>0. /\ new \in [Tables -> Value] /\ new["seat"] = requests
        /\ \A p \in Parts : new[p] = work[p]
    BY SeatWrites, Types DEF Sane
  <2> HIDE DEF new
  <2>1. /\ Sane' /\ tx' = tx /\ tx # "aborted" /\ conn /\ conn' /\ work' = new
        /\ rows' = IF tx = "open" THEN rows ELSE new
    BY <1>1, <1>3, <2>0, Executing DEF new
  <2>2. CASE tx = "open"
    BY <1>1, <1>2, <1>3, <2>0, <2>1, <2>2 DEF RequestOK, RequestInv, KindFits, OutsideIsIdle,
          Outside, Believes, ActionIsCovered, TransactionHolds, SoundIsWhole, Newest, Whole,
          SeatIsNew, AnswersHold, OkIsStoredOrFailed, RefusedIsNotSeated
  <2>3. CASE tx = "idle"
    <3>1. beginLost /\ requests \in 0..requests
      BY <1>2, <2>1, <2>3, RequestCounts
    <3>2. "games" \in Parts
      BY DEF Parts
    <3> QED BY <1>1, <1>2, <1>3, <2>0, <2>1, <2>3, <3>1, <3>2 DEF RequestOK, RequestInv, KindFits, OutsideIsIdle,
          Outside, Believes, ActionIsCovered, TransactionHolds, SoundIsWhole, Newest, Whole,
          SeatIsNew, AnswersHold, OkIsStoredOrFailed, RefusedIsNotSeated
  <2> QED BY <2>1, <2>2, <2>3 DEF Sane, DbOK
<1>4. CASE Fails /\ pc' = "unseat" /\ failed' = TRUE
  <2>1. Sane' /\ rows' = rows /\ tx' # "open" /\ (work' = work \/ work' = rows)
    BY <1>1, <1>4, Failing
  <2> QED BY <1>1, <1>2, <1>4, <2>1 DEF RequestOK, RequestInv, KindFits, OutsideIsIdle,
          Outside, Believes, ActionIsCovered, TransactionHolds, SoundIsWhole, Newest, Whole,
          SeatIsNew, AnswersHold, OkIsStoredOrFailed, RefusedIsNotSeated
<1> QED BY <1>3, <1>4 DEF Seat

LEMMA UnseatStep ==
    ASSUME Sane, RequestOK, RequestInv, Unseat
    PROVE  Sane' /\ RequestOK' /\ RequestInv'
<1>1. /\ kind' = kind /\ session' = session /\ requests' = requests /\ causes' = causes
      /\ external' = external /\ step' = step /\ failed' = failed /\ beginLost' = beginLost
      /\ pc = "unseat" /\ kind = "select" /\ pc' = "idle" /\ answer' = "error"
  BY DEF Unseat, Answered, request, history, RequestInv, KindFits
<1>2. Sane' /\ flag' = FALSE /\ tx' = "idle" /\ work' = rows' /\ rows' = rows
  BY RollingBack DEF Unseat
<1>3. rows["seat"] \in 0..requests /\ rows["seat"] < requests
  BY <1>1 DEF RequestInv, SeatIsNew
<1>4. rows["seat"] # requests
  BY <1>3
<1> QED BY <1>1, <1>2, <1>3, <1>4 DEF RequestOK, RequestInv, KindFits, OutsideIsIdle,
          Outside, Believes, ActionIsCovered, TransactionHolds, SoundIsWhole, Newest, Whole,
          SeatIsNew, AnswersHold, OkIsStoredOrFailed, RefusedIsNotSeated

LEMMA ReadyStep ==
    ASSUME Sane, RequestOK, RequestInv, Ready
    PROVE  Sane' /\ RequestOK' /\ RequestInv'
<1>1. /\ flag' = flag /\ kind' = kind /\ session' = session /\ requests' = requests
      /\ external' = external /\ step' = step /\ answer' = answer /\ beginLost' = beginLost
      /\ causes' = causes /\ pc = "ready" /\ kind = "select" /\ pc' = "seatcommit"
  BY DEF Ready, request, history, RequestInv, KindFits
<1>2. CASE Executes(work) /\ UNCHANGED failed
  <2>1. Sane' /\ rows' = rows /\ work' = work /\ tx' = tx
    BY <1>1, <1>2, Executing DEF Sane, DbOK, TransactionIsFlagged
  <2> QED BY <1>1, <1>2, <2>1 DEF RequestOK, RequestInv, KindFits, OutsideIsIdle,
          Outside, Believes, ActionIsCovered, TransactionHolds, SoundIsWhole, Newest, Whole,
          SeatIsNew, AnswersHold, OkIsStoredOrFailed, RefusedIsNotSeated
<1>3. CASE Fails /\ failed' = TRUE
  <2>1. Sane' /\ rows' = rows /\ tx' # "open" /\ (work' = work \/ work' = rows)
    BY <1>1, <1>3, Failing
  <2> QED BY <1>1, <1>3, <2>1 DEF RequestOK, RequestInv, KindFits, OutsideIsIdle,
          Outside, Believes, ActionIsCovered, TransactionHolds, SoundIsWhole, Newest, Whole,
          SeatIsNew, AnswersHold, OkIsStoredOrFailed, RefusedIsNotSeated
<1> QED BY <1>2, <1>3 DEF Ready

LEMMA SeatCommitStep ==
    ASSUME Sane, RequestOK, RequestInv, SeatCommit
    PROVE  Sane' /\ RequestOK' /\ RequestInv'
<1>1. /\ kind' = kind /\ session' = session /\ requests' = requests
      /\ external' = external /\ step' = step /\ beginLost' = beginLost
      /\ causes' = causes /\ pc = "seatcommit" /\ kind = "select"
  BY DEF SeatCommit, request, history, RequestInv, KindFits
<1>2. /\ \A p \in Parts : work[p] = rows[p]
      /\ work["seat"] \in {rows["seat"], requests} /\ rows["seat"] \in 0..requests
      /\ rows["seat"] < requests \/ beginLost
      /\ "games" \in Parts
  BY <1>1 DEF RequestInv, TransactionHolds, SeatIsNew, Parts
<1>3. requests \in 0..requests /\ (rows["seat"] < requests => rows["seat"] # requests)
  BY <1>2, RequestCounts
<1>4. CASE CommitRuns /\ pc' = "save" /\ UNCHANGED <<answer, failed>>
  <2>1. /\ Sane' /\ flag' = FALSE /\ tx' = "idle" /\ work' = rows'
        /\ rows' = IF tx = "open" THEN work ELSE rows
    BY <1>4, Committing
  <2> QED BY <1>1, <1>2, <1>3, <1>4, <2>1 DEF RequestOK, RequestInv, KindFits, OutsideIsIdle,
          Outside, Believes, ActionIsCovered, TransactionHolds, SoundIsWhole, Newest, Whole,
          SeatIsNew, AnswersHold, OkIsStoredOrFailed, RefusedIsNotSeated
<1>5. CASE CommitFails /\ Answered("error") /\ failed' = TRUE
  <2>1. /\ Sane' /\ flag' = FALSE /\ tx' = "idle" /\ work' = rows'
        /\ rows' = rows \/ (tx = "open" /\ rows' = work /\ ~conn')
        /\ pc' = "idle" /\ answer' = "error"
    BY <1>5, CommittingFails DEF Answered
  <2> QED BY <1>1, <1>2, <1>3, <1>5, <2>1 DEF RequestOK, RequestInv, KindFits, OutsideIsIdle,
          Outside, Believes, ActionIsCovered, TransactionHolds, SoundIsWhole, Newest, Whole,
          SeatIsNew, AnswersHold, OkIsStoredOrFailed, RefusedIsNotSeated
<1> QED BY <1>4, <1>5 DEF SeatCommit

\* Steps of save.
LEMMA SaveStep ==
    ASSUME Sane, RequestOK, RequestInv, Save
    PROVE  Sane' /\ RequestOK' /\ RequestInv'
<1>1. /\ kind' = kind /\ session' = session /\ requests' = requests /\ causes' = causes
      /\ step' = 1 /\ pc = "save"
      /\ AfterSave => \/ kind = "action" /\ pc' = "commit" /\ answer' = answer
                      \/ kind # "action" /\ pc' = "idle" /\ answer' = "ok"
  BY DEF Save, request, AfterSave, Answered
<1>0. step' \in 1..10
  BY <1>1
<1>2. /\ work["seat"] = rows["seat"] /\ rows["seat"] \in 0..requests
      /\ \A p \in Parts : work[p] = rows[p]
      /\ kind # "action" => tx = "idle" /\ (flag => beginLost)
      /\ kind = "action" => flag /\ (failed \/ tx = "open")
  BY <1>1 DEF RequestInv, SeatIsNew, TransactionHolds, OutsideIsIdle, Outside, ActionIsCovered
<1>3. \A p \in Parts : ~(Place[p] < 1)
  BY Places
<1>4. CASE /\ ~conn /\ AfterSave /\ failed' = TRUE
           /\ UNCHANGED <<db, flag, external, beginLost>>
  <2>1. tx = "idle" /\ tx' = "idle" /\ rows' = rows /\ work' = work /\ flag' = flag
        /\ conn' = conn /\ beginLost' = beginLost /\ external' = external
    BY <1>4 DEF Sane, TransactionIsFlagged, db
  <2>2. Sane'
    BY <1>4, <2>1 DEF Sane, DbOK, TransactionIsFlagged, db
  <2>9. RequestOK'
    BY <1>0, <1>1, <1>4, <2>1 DEF RequestOK
  <2> QED BY <2>9, <1>1, <1>2, <1>4, <2>1, <2>2 DEF RequestInv, KindFits, OutsideIsIdle,
          Outside, Believes, ActionIsCovered, TransactionHolds, SoundIsWhole, Newest, Whole,
          SeatIsNew, AnswersHold, OkIsStoredOrFailed, RefusedIsNotSeated
<1>5. CASE /\ conn /\ flag /\ external' = TRUE /\ pc' = "statement"
           /\ UNCHANGED <<db, flag, answer, failed, beginLost>>
  <2>1. tx' = tx /\ rows' = rows /\ work' = work /\ Sane'
    BY <1>5 DEF Sane, DbOK, TransactionIsFlagged, db
  <2>9. RequestOK'
    BY <1>0, <1>1, <1>5, <2>1 DEF RequestOK
  <2> QED BY <2>9, <1>1, <1>2, <1>3, <1>5, <2>1 DEF RequestInv, KindFits, OutsideIsIdle,
          Outside, Believes, ActionIsCovered, TransactionHolds, SoundIsWhole, Newest, Whole,
          SeatIsNew, AnswersHold, OkIsStoredOrFailed, RefusedIsNotSeated
<1>6. CASE /\ conn /\ ~flag /\ external' = FALSE /\ BeginRuns /\ pc' = "statement"
           /\ UNCHANGED <<answer, failed>>
  <2>1. /\ Sane' /\ rows' = rows /\ work' = work /\ tx' = "open" /\ beginLost' = beginLost
    BY <1>6, Beginning
  <2>9. RequestOK'
    BY <1>0, <1>1, <1>6, <2>1 DEF RequestOK
  <2> QED BY <2>9, <1>1, <1>2, <1>3, <1>6, <2>1 DEF RequestInv, KindFits, OutsideIsIdle,
          Outside, Believes, ActionIsCovered, TransactionHolds, SoundIsWhole, Newest, Whole,
          SeatIsNew, AnswersHold, OkIsStoredOrFailed, RefusedIsNotSeated
<1>7. CASE /\ conn /\ ~flag /\ external' = FALSE /\ BeginFails /\ AfterSave /\ failed' = TRUE
  <2>1. /\ Sane' /\ rows' = rows /\ tx' = "idle" /\ flag' /\ beginLost' /\ beginLost' \in BOOLEAN
    BY <1>7, BeginningFails DEF RequestOK
  <2>2. work' = rows
    BY <2>1 DEF Sane, TransactionIsFlagged
  <2>9. RequestOK'
    BY <1>0, <1>1, <1>7, <2>1 DEF RequestOK
  <2> QED BY <2>9, <1>1, <1>2, <1>7, <2>1, <2>2 DEF RequestInv, KindFits, OutsideIsIdle,
          Outside, Believes, ActionIsCovered, TransactionHolds, SoundIsWhole, Newest, Whole,
          SeatIsNew, AnswersHold, OkIsStoredOrFailed, RefusedIsNotSeated
<1> QED BY <1>4, <1>5, <1>6, <1>7 DEF Save

LEMMA SaveStatementStep ==
    ASSUME Sane, RequestOK, RequestInv, SaveStatement
    PROVE  Sane' /\ RequestOK' /\ RequestInv'
<1> DEFINE s == SaveStatements[step]
           new == Written(s.part)
<1>1. /\ flag' = flag /\ kind' = kind /\ session' = session /\ requests' = requests
      /\ external' = external /\ answer' = answer /\ beginLost' = beginLost
      /\ pc = "statement" /\ step <= Len(SaveStatements)
  BY DEF SaveStatement, request
<1>2. step \in 1..9 /\ step + 1 \in 1..10
  <2>1. step \in 1..10
    BY DEF RequestOK
  <2>2. step <= 9
    BY <1>1, Length
  <2> QED BY <2>1, <2>2
<1>3. /\ work["seat"] = rows["seat"] /\ rows["seat"] \in 0..requests
      /\ Believes => tx = "idle" /\ beginLost
      /\ kind = "action" => external /\ (failed \/ tx = "open")
      /\ tx = "open" => \A p \in Parts :
             session[p] # Missing /\ Place[p] < step => work[p] = session[p]
  BY <1>1 DEF RequestInv, SeatIsNew, TransactionHolds, OutsideIsIdle, ActionIsCovered
<1>4. \A p \in Parts : Place[p] < step + 1 <=> Place[p] < step \/ Place[p] = step
  BY <1>2, Places
<1>5. /\ new \in [Tables -> Value] /\ new["seat"] = work["seat"]
      /\ \A p \in Parts : Place[p] < step => new[p] = work[p]
      /\ \A p \in Parts : Place[p] = step /\ session[p] # Missing => new[p] = session[p]
  BY <1>2, StatementWrites, Types DEF Sane
<1>6. \A p \in Parts : Place[p] = step => s.part = p
  <2>1. \A p, q \in Parts : Place[p] = Place[q] => p = q
    BY DEF Parts, Place
  <2>2. \A p \in Parts : Place[p] # 5
    BY DEF Parts, Place
  <2>3. \/ s.part \in Parts /\ Place[s.part] = step
        \/ step = 5
    BY <1>2, Statements
  <2> HIDE DEF s
  <2> QED BY <2>1, <2>2, <2>3
<1> HIDE DEF s, new
<1>7. CASE ~Issued(s) /\ NextStep /\ UNCHANGED <<db, failed, causes>>
  <2>1. /\ rows' = rows /\ work' = work /\ tx' = tx /\ Sane' /\ step' = step + 1 /\ pc' = pc
    BY <1>1, <1>7 DEF db, Sane, DbOK, TransactionIsFlagged, NextStep
  <2>2. \A p \in Parts : Place[p] = step => session[p] = Missing
    BY <1>6, <1>7 DEF Issued
  <2> QED BY <1>1, <1>2, <1>3, <1>4, <1>7, <2>1, <2>2 DEF RequestOK, RequestInv, KindFits, OutsideIsIdle,
          Outside, Believes, ActionIsCovered, TransactionHolds, SoundIsWhole, Newest, Whole,
          SeatIsNew, AnswersHold, OkIsStoredOrFailed, RefusedIsNotSeated
<1>8. CASE /\ Issued(s) /\ Executes(new) /\ NextStep /\ UNCHANGED failed
           /\ causes' = IF tx = "idle" THEN causes \cup {"no transaction"} ELSE causes
  <2>1. /\ Sane' /\ tx' = tx /\ tx # "aborted" /\ work' = new
        /\ rows' = IF tx = "open" THEN rows ELSE new
        /\ step' = step + 1 /\ pc' = pc
    BY <1>1, <1>5, <1>8, Executing DEF NextStep
  <2>2. CASE tx = "open"
    BY <1>1, <1>2, <1>3, <1>4, <1>5, <1>8, <2>1, <2>2 DEF RequestOK, RequestInv, KindFits, OutsideIsIdle,
          Outside, Believes, ActionIsCovered, TransactionHolds, SoundIsWhole, Newest, Whole,
          SeatIsNew, AnswersHold, OkIsStoredOrFailed, RefusedIsNotSeated
  <2>3. CASE tx # "open"
    <3>1. tx = "idle"
      BY <2>1, <2>3 DEF Sane, DbOK
    <3>2. causes' # {} /\ causes' \subseteq {"no transaction", "partial load"}
      BY <1>8, <3>1 DEF RequestOK
    <3> QED BY <1>1, <1>2, <1>3, <1>5, <1>8, <2>1, <3>1, <3>2 DEF RequestOK, RequestInv, KindFits, OutsideIsIdle,
          Outside, Believes, ActionIsCovered, TransactionHolds, SoundIsWhole, Newest, Whole,
          SeatIsNew, AnswersHold, OkIsStoredOrFailed, RefusedIsNotSeated
  <2> QED BY <2>2, <2>3
<1>9. CASE /\ Issued(s) /\ Fails /\ failed' = TRUE /\ UNCHANGED causes
           /\ NextStep \/ (pc' = "saverollback" /\ UNCHANGED step)
  <2>1. /\ Sane' /\ rows' = rows /\ tx' # "open" /\ (work' = work \/ work' = rows)
        /\ tx = "idle" => tx' = "idle"
    BY <1>1, <1>9, Failing
  <2>2. step' \in 1..10 /\ pc' \in {"statement", "saverollback"}
    BY <1>1, <1>2, <1>9 DEF NextStep
  <2> QED BY <1>1, <1>2, <1>3, <1>9, <2>1, <2>2 DEF RequestOK, RequestInv, KindFits, OutsideIsIdle,
          Outside, Believes, ActionIsCovered, TransactionHolds, SoundIsWhole, Newest, Whole,
          SeatIsNew, AnswersHold, OkIsStoredOrFailed, RefusedIsNotSeated
<1> QED BY <1>7, <1>8, <1>9 DEF SaveStatement, s, new

\* Where a step follows a save.
LEMMA AfterSaves ==
    ASSUME AfterSave
    PROVE  \/ kind = "action" /\ pc' = "commit" /\ answer' = answer
           \/ kind # "action" /\ pc' = "idle" /\ answer' = "ok"
BY DEF AfterSave, Answered

LEMMA SaveEndStep ==
    ASSUME Sane, RequestOK, RequestInv, SaveEnd
    PROVE  Sane' /\ RequestOK' /\ RequestInv'
<1>1. /\ kind' = kind /\ session' = session /\ requests' = requests /\ causes' = causes
      /\ external' = external /\ step' = step /\ beginLost' = beginLost
      /\ pc = "statement"
  BY DEF SaveEnd, request, history
<1>2. \A p \in Parts : Place[p] < step
  <2>1. step > 9
    BY Length DEF SaveEnd
  <2>2. step \in 1..10
    BY DEF RequestOK
  <2> QED BY <2>1, <2>2, Places
<1>3. /\ work["seat"] = rows["seat"] /\ rows["seat"] \in 0..requests
      /\ Believes => tx = "idle" /\ beginLost
      /\ kind = "action" => external /\ (failed \/ tx = "open")
      /\ tx = "open" => \A p \in Parts : session[p] # Missing => work[p] = session[p]
      /\ "games" \in Parts
  BY <1>1, <1>2 DEF RequestInv, SeatIsNew, TransactionHolds, OutsideIsIdle, ActionIsCovered, Parts
<1>4. CASE external /\ AfterSave /\ UNCHANGED <<db, flag, failed>>
  <2>1. /\ Sane' /\ tx' = tx /\ rows' = rows /\ work' = work /\ flag' = flag /\ conn' = conn
        /\ failed' = failed
    BY <1>4 DEF Sane, DbOK, TransactionIsFlagged, db
  <2>2. CASE kind = "action" /\ pc' = "commit" /\ answer' = answer
    <3>1. RequestOK'
      BY <1>1, <1>4, <2>2 DEF RequestOK
    <3>2. KindFits' /\ OutsideIsIdle' /\ ActionIsCovered' /\ TransactionHolds' /\ AnswersHold'
      BY <1>1, <1>3, <1>4, <2>1, <2>2 DEF KindFits, OutsideIsIdle, Outside, Believes,
         ActionIsCovered, TransactionHolds, AnswersHold, OkIsStoredOrFailed, RefusedIsNotSeated
    <3>3. SoundIsWhole' /\ SeatIsNew'
      BY <1>1, <1>3, <1>4, <2>1, <2>2 DEF RequestInv, SoundIsWhole, Newest, Whole, SeatIsNew
    <3> QED BY <2>1, <3>1, <3>2, <3>3 DEF RequestInv
  <2>3. CASE kind # "action" /\ pc' = "idle" /\ answer' = "ok"
    <3>1. tx = "idle" /\ beginLost
      BY <1>1, <1>3, <1>4, <2>3 DEF Believes
    <3> QED BY <1>1, <1>3, <1>4, <2>1, <2>3, <3>1 DEF RequestOK, RequestInv, KindFits, OutsideIsIdle,
          Outside, Believes, ActionIsCovered, TransactionHolds, SoundIsWhole, Newest, Whole,
          SeatIsNew, AnswersHold, OkIsStoredOrFailed, RefusedIsNotSeated
  <2> QED BY <1>4, <2>2, <2>3, AfterSaves
<1>5. requests \in 0..requests /\ requests # Missing
  BY RequestCounts, RequestNumbers DEF RequestOK
<1>6. ASSUME causes = {}
      PROVE  \A p \in Parts : /\ session[p] = Newest /\ session[p] # Missing
                              /\ session[p] \in 0..requests
                              /\ tx = "open" => work[p] = Newest
  <2>1. rows["games"] \in 0..requests /\ rows["games"] # Missing
    BY <1>1, <1>6 DEF RequestInv, SoundIsWhole, Missing
  <2>2. \A p \in Parts : session[p] = Newest
    BY <1>1, <1>6 DEF RequestInv, SoundIsWhole
  <2> QED BY <1>3, <1>5, <2>1, <2>2 DEF Newest
<1>7. CASE ~external /\ CommitRuns /\ AfterSave /\ UNCHANGED failed
  <2>1. /\ Sane' /\ flag' = FALSE /\ tx' = "idle" /\ work' = rows'
        /\ rows' = IF tx = "open" THEN work ELSE rows
    BY <1>7, Committing
  <2>2. kind # "action" /\ pc' = "idle" /\ answer' = "ok"
    BY <1>3, <1>7, AfterSaves
  <2> QED BY <1>1, <1>3, <1>5, <1>6, <1>7, <2>1, <2>2 DEF RequestOK, RequestInv, KindFits, OutsideIsIdle,
          Outside, Believes, ActionIsCovered, TransactionHolds, SoundIsWhole, Newest, Whole,
          SeatIsNew, AnswersHold, OkIsStoredOrFailed, RefusedIsNotSeated
<1>8. CASE ~external /\ CommitFails /\ pc' = "saverollback" /\ failed' = TRUE /\ UNCHANGED answer
  <2>1. /\ Sane' /\ flag' = FALSE /\ tx' = "idle" /\ work' = rows'
        /\ rows' = rows \/ (tx = "open" /\ rows' = work)
    BY <1>8, CommittingFails
  <2> QED BY <1>1, <1>3, <1>5, <1>6, <1>8, <2>1 DEF RequestOK, RequestInv, KindFits, OutsideIsIdle,
          Outside, Believes, ActionIsCovered, TransactionHolds, SoundIsWhole, Newest, Whole,
          SeatIsNew, AnswersHold, OkIsStoredOrFailed, RefusedIsNotSeated
<1> QED BY <1>4, <1>7, <1>8 DEF SaveEnd

LEMMA SaveRollbackStep ==
    ASSUME Sane, RequestOK, RequestInv, SaveRollback
    PROVE  Sane' /\ RequestOK' /\ RequestInv'
<1>1. /\ kind' = kind /\ session' = session /\ requests' = requests /\ causes' = causes
      /\ external' = external /\ step' = step /\ failed' = failed /\ beginLost' = beginLost
      /\ pc = "saverollback" /\ AfterSave
  BY DEF SaveRollback, request, history
<1>2. CASE external /\ UNCHANGED <<db, flag>>
  <2>1. /\ Sane' /\ tx' = tx /\ rows' = rows /\ work' = work /\ flag' = flag /\ conn' = conn
    BY <1>2 DEF Sane, DbOK, TransactionIsFlagged, db
  <2>2. CASE kind = "action" /\ pc' = "commit" /\ answer' = answer
    BY <1>1, <1>2, <2>1, <2>2 DEF RequestOK, RequestInv, KindFits, OutsideIsIdle,
          Outside, Believes, ActionIsCovered, TransactionHolds, SoundIsWhole, Newest, Whole,
          SeatIsNew, AnswersHold, OkIsStoredOrFailed, RefusedIsNotSeated
  <2>3. CASE kind # "action" /\ pc' = "idle" /\ answer' = "ok"
    <3>1. tx = "idle" /\ beginLost
      BY <1>1, <1>2, <2>3 DEF RequestInv, OutsideIsIdle, Believes
    <3> QED BY <1>1, <1>2, <2>1, <2>3, <3>1 DEF RequestOK, RequestInv, KindFits, OutsideIsIdle,
          Outside, Believes, ActionIsCovered, TransactionHolds, SoundIsWhole, Newest, Whole,
          SeatIsNew, AnswersHold, OkIsStoredOrFailed, RefusedIsNotSeated
  <2> QED BY <1>1, <2>2, <2>3, AfterSaves
<1>3. CASE ~external /\ RollsBack
  <2>1. Sane' /\ flag' = FALSE /\ tx' = "idle" /\ work' = rows' /\ rows' = rows
    BY <1>3, RollingBack
  <2> QED BY <1>1, <1>3, <2>1, AfterSaves DEF RequestOK, RequestInv, KindFits, OutsideIsIdle,
          Outside, Believes, ActionIsCovered, TransactionHolds, SoundIsWhole, Newest, Whole,
          SeatIsNew, AnswersHold, OkIsStoredOrFailed, RefusedIsNotSeated
<1> QED BY <1>2, <1>3 DEF SaveRollback

LEMMA ActionCommitStep ==
    ASSUME Sane, RequestOK, RequestInv, ActionCommit
    PROVE  Sane' /\ RequestOK' /\ RequestInv'
<1>1. /\ kind' = kind /\ session' = session /\ requests' = requests /\ causes' = causes
      /\ external' = external /\ step' = step /\ beginLost' = beginLost
      /\ pc = "commit" /\ kind = "action" /\ pc' = "idle" /\ answer' = "ok"
  BY DEF ActionCommit, Answered, request, history, RequestInv, KindFits
<1>2. /\ work["seat"] = rows["seat"] /\ rows["seat"] \in 0..requests
      /\ failed \/ tx = "open"
      /\ tx = "open" => \A p \in Parts : session[p] # Missing => work[p] = session[p]
      /\ "games" \in Parts
  BY <1>1 DEF RequestInv, SeatIsNew, TransactionHolds, ActionIsCovered, Parts
<1>3. requests \in 0..requests /\ requests # Missing
  BY RequestCounts, RequestNumbers DEF RequestOK
<1>4. ASSUME causes = {} PROVE tx = "open" => \A p \in Parts : work[p] = requests
  BY <1>1, <1>2, <1>3, <1>4 DEF RequestInv, SoundIsWhole, Newest
<1>5. CASE CommitRuns /\ UNCHANGED failed
  <2>1. /\ Sane' /\ flag' = FALSE /\ tx' = "idle" /\ work' = rows'
        /\ rows' = IF tx = "open" THEN work ELSE rows
    BY <1>5, Committing
  <2> QED BY <1>1, <1>2, <1>3, <1>4, <1>5, <2>1 DEF RequestOK, RequestInv, KindFits, OutsideIsIdle,
          Outside, Believes, ActionIsCovered, TransactionHolds, SoundIsWhole, Newest, Whole,
          SeatIsNew, AnswersHold, OkIsStoredOrFailed, RefusedIsNotSeated
<1>6. CASE CommitFails /\ failed' = TRUE
  <2>1. /\ Sane' /\ flag' = FALSE /\ tx' = "idle" /\ work' = rows'
        /\ rows' = rows \/ (tx = "open" /\ rows' = work)
    BY <1>6, CommittingFails
  <2> QED BY <1>1, <1>2, <1>3, <1>4, <1>6, <2>1 DEF RequestOK, RequestInv, KindFits, OutsideIsIdle,
          Outside, Believes, ActionIsCovered, TransactionHolds, SoundIsWhole, Newest, Whole,
          SeatIsNew, AnswersHold, OkIsStoredOrFailed, RefusedIsNotSeated
<1> QED BY <1>5, <1>6 DEF ActionCommit

LEMMA RestartStep ==
    ASSUME Sane, RequestOK, RequestInv, Restart
    PROVE  Sane' /\ RequestOK' /\ RequestInv'
<1>1. /\ kind' = kind /\ session' = session /\ requests' = requests /\ causes' = causes
      /\ external' = external /\ step' = step /\ failed' = failed
      /\ rows' = rows /\ work' = rows /\ tx' = "idle" /\ conn' = TRUE /\ flag' = FALSE
      /\ beginLost' = FALSE /\ pc' = "idle" /\ answer' = "none"
  BY DEF Restart, request
<1>2. faults' \in 0..MaxFaults
  <2>1. faults \in 0..MaxFaults
    BY DEF Sane, DbOK
  <2> QED BY <2>1, BoundsAssumption DEF Restart
<1> QED BY <1>1, <1>2 DEF Sane, DbOK, TransactionIsFlagged, RequestOK, RequestInv, KindFits, OutsideIsIdle,
          Outside, Believes, ActionIsCovered, TransactionHolds, SoundIsWhole, Newest, Whole,
          SeatIsNew, AnswersHold, OkIsStoredOrFailed, RefusedIsNotSeated

-----------------------------------------------------------------------------
(* The properties                                                          *)

LEMMA InitiallyHolds == Init => IInv
<1> SUFFICES ASSUME Init PROVE IInv
  OBVIOUS
<1>1. /\ \A t \in Tables : rows[t] = 0 /\ work[t] = 0
      /\ rows \in [Tables -> Value] /\ work \in [Tables -> Value] /\ work = rows
      /\ session \in [Parts -> Value \cup {Missing}]
      /\ "seat" \in Tables /\ "games" \in Tables /\ Parts \subseteq Tables
  BY DEF Init, Tables, Parts, Value
<1>2. /\ tx = "idle" /\ flag = FALSE /\ conn = TRUE /\ pc = "idle" /\ kind = "ready"
      /\ external = FALSE /\ step = 1 /\ requests = 0 /\ answer = "none" /\ failed = FALSE
      /\ beginLost = FALSE /\ causes = {} /\ faults = 0
  BY DEF Init
<1>3. step \in 1..10 /\ requests \in 0..MaxRequests /\ faults \in 0..MaxFaults
      /\ 0 \in 0..requests
  BY <1>2, BoundsAssumption
<1>4. Sane /\ RequestOK
  BY <1>1, <1>2, <1>3 DEF Sane, DbOK, TransactionIsFlagged, RequestOK, Kinds
<1>5. RequestInv
  BY <1>1, <1>2, <1>3 DEF RequestOK, RequestInv, KindFits, OutsideIsIdle,
          Outside, Believes, ActionIsCovered, TransactionHolds, SoundIsWhole, Newest, Whole,
          SeatIsNew, AnswersHold, OkIsStoredOrFailed, RefusedIsNotSeated
<1> QED BY <1>4, <1>5, Invariants

LEMMA Inductive == IInv /\ [Next]_vars => IInv'
<1> SUFFICES ASSUME IInv, [Next]_vars PROVE Sane' /\ RequestOK' /\ RequestInv'
  <2>1. Len(SaveStatements) + 1 = 10
    BY Length
  <2>2. DbOK' /\ RequestOK' => TypeOK'
    BY <2>1 DEF TypeOK, DbOK, RequestOK
  <2> QED BY <2>2 DEF IInv, RequestInv, Sane
<1>1. Sane /\ RequestOK /\ RequestInv
  BY Invariants
<1>2. CASE \E k \in Kinds, M \in SUBSET Parts : Load(k, M)
  BY <1>1, <1>2, LoadStep
<1>3. CASE NotFound \/ Join \/ HandlerBegin \/ Route
  BY <1>1, <1>3, NotFoundStep, JoinStep, HandlerBeginStep, RouteStep
<1>4. CASE Seat \/ Unseat \/ Ready \/ SeatCommit
  BY <1>1, <1>4, SeatStep, UnseatStep, ReadyStep, SeatCommitStep
<1>5. CASE Save \/ SaveStatement \/ SaveEnd \/ SaveRollback
  BY <1>1, <1>5, SaveStep, SaveStatementStep, SaveEndStep, SaveRollbackStep
<1>6. CASE ActionCommit \/ Restart
  BY <1>1, <1>6, ActionCommitStep, RestartStep
<1>7. CASE UNCHANGED vars
  <2>1. /\ rows' = rows /\ work' = work /\ tx' = tx /\ flag' = flag /\ conn' = conn
        /\ faults' = faults /\ pc' = pc /\ kind' = kind /\ session' = session
        /\ external' = external /\ step' = step /\ requests' = requests
        /\ answer' = answer /\ failed' = failed /\ beginLost' = beginLost /\ causes' = causes
    BY <1>7 DEF vars
  <2>2. Sane' /\ RequestOK'
    BY <1>1, <2>1 DEF Sane, DbOK, TransactionIsFlagged, RequestOK
  <2>3. KindFits' /\ OutsideIsIdle' /\ ActionIsCovered' /\ TransactionHolds'
    BY <1>1, <2>1 DEF RequestInv, KindFits, OutsideIsIdle, Outside, Believes,
       ActionIsCovered, TransactionHolds
  <2>4. SoundIsWhole' /\ SeatIsNew' /\ AnswersHold'
    BY <1>1, <2>1 DEF RequestInv, SoundIsWhole, Newest, Whole, SeatIsNew, AnswersHold,
       OkIsStoredOrFailed, RefusedIsNotSeated
  <2> QED BY <2>2, <2>3, <2>4 DEF RequestInv
<1> QED BY <1>2, <1>3, <1>4, <1>5, <1>6, <1>7 DEF Next, Done

THEOREM Invariant == Spec => []IInv
BY InitiallyHolds, Inductive, PTL DEF Spec

\* TypeOK: requests, statements and faults change typed states into typed ones.
THEOREM TypeCorrect == Spec => []TypeOK
<1>1. IInv => TypeOK
  BY DEF IInv
<1> QED BY <1>1, Invariant, PTL

\* NoTransactionLeaks: whatever was refused or broken in it, a request leaves no
\* transaction open.
THEOREM TransactionsEnd == Spec => []NoTransactionLeaks
<1>1. IInv => NoTransactionLeaks
  BY DEF IInv, TransactionIsFlagged, OutsideIsIdle, Outside, NoTransactionLeaks
<1> QED BY <1>1, Invariant, PTL

\* StuckFlagHasCause: in_transaction_ stays set after a request only when a BEGIN failed.
THEOREM FlagIsExplained == Spec => []StuckFlagHasCause
<1>1. IInv => StuckFlagHasCause
  BY DEF IInv, OutsideIsIdle, Outside, StuckFlagHasCause
<1> QED BY <1>1, Invariant, PTL

\* TornHasCause: a game is stored in part only by a save without a transaction or of a
\* session that was not loaded completely.
THEOREM TornGamesAreExplained == Spec => []TornHasCause
<1>1. IInv => TornHasCause
  BY DEF IInv, SoundIsWhole, TornHasCause
<1> QED BY <1>1, Invariant, PTL

\* RequestsEndClean: no request, failing in whatever way, leaves anything unexplained.
THEOREM RequestsStayClean == Spec => []RequestsEndClean
<1>1. NoTransactionLeaks /\ StuckFlagHasCause /\ TornHasCause => RequestsEndClean
  BY DEF RequestsEndClean
<1> QED BY <1>1, TransactionsEnd, FlagIsExplained, TornGamesAreExplained, PTL

\* OkIsStoredOrFailed: an action answered "ok" is stored unless a statement of it failed.
THEOREM OkIsStored == Spec => []OkIsStoredOrFailed
<1>1. IInv => OkIsStoredOrFailed
  BY DEF IInv, AnswersHold
<1> QED BY <1>1, Invariant, PTL

\* RefusedIsNotSeated: a refused selection has committed no seat.
THEOREM RefusedSelectionLeavesNoSeat == Spec => []RefusedIsNotSeated
<1>1. IInv => RefusedIsNotSeated
  BY DEF IInv, AnswersHold
<1> QED BY <1>1, Invariant, PTL

\* AnswersAreTrue: no answer is contradicted by the tables without a failure to blame.
THEOREM AnswersStayTrue == Spec => []AnswersAreTrue
<1>1. OkIsStoredOrFailed /\ RefusedIsNotSeated => AnswersAreTrue
  BY DEF AnswersAreTrue
<1> QED BY <1>1, OkIsStored, RefusedSelectionLeavesNoSeat, PTL

\* ActionClearsFlag: the end of an action request puts the flag down.
THEOREM ActionsClearTheFlag == Spec => ActionClearsFlag
<1>1. IInv /\ [Next]_vars => [pc # "idle" /\ kind = "action" /\ pc' = "idle" => ~flag']_vars
  <2> SUFFICES ASSUME IInv, [Next]_vars, pc # "idle", kind = "action", pc' = "idle", ~UNCHANGED vars
               PROVE  ~flag'
    OBVIOUS
  <2>1. Sane /\ KindFits
    BY Invariants DEF IInv
  <2>2. CASE Route
    BY <2>1, <2>2, RollingBack DEF Route
  <2>3. CASE ActionCommit
    BY <2>1, <2>3, Committing, CommittingFails DEF ActionCommit
  <2>4. CASE Restart
    BY <2>4 DEF Restart
  <2>5. CASE Save \/ SaveEnd \/ SaveRollback
    BY <2>5, AfterSaves DEF Save, SaveEnd, SaveRollback
  <2>6. CASE SaveStatement
    BY <2>6 DEF SaveStatement, NextStep
  <2>7. CASE Join \/ Seat \/ Unseat \/ Ready \/ SeatCommit
    BY <2>1, <2>7 DEF Join, Seat, Unseat, Ready, SeatCommit, KindFits
  <2>8. CASE HandlerBegin
    BY <2>8 DEF HandlerBegin
  <2>9. CASE NotFound \/ \E k \in Kinds, M \in SUBSET Parts : Load(k, M)
    BY <2>9 DEF NotFound, Load
  <2> QED BY <2>2, <2>3, <2>4, <2>5, <2>6, <2>7, <2>8, <2>9 DEF Next, Done
<1> QED BY <1>1, Invariant, PTL DEF Spec, ActionClearsFlag

-----------------------------------------------------------------------------
(* The refinement                                                          *)

Stored == IF Whole(rows) THEN rows["games"] ELSE None

\* A step that writes neither a part of the game nor a cause is one of the store.
LEMMA StoreSteps ==
    ASSUME IInv, [Next]_vars
    PROVE  [Abstract!Next]_<<Stored, rows["seat"], causes = {}>>
<1>1. Sane /\ RequestOK /\ RequestInv
  BY Invariants
<1>2. /\ rows["seat"] \in 0..requests
      /\ "games" \in Parts /\ requests \in Nat
  BY <1>1, RequestCounts DEF RequestInv, SeatIsNew, Parts
<1>3. ASSUME rows' = rows, causes' = causes
      PROVE  UNCHANGED <<Stored, rows["seat"], causes = {}>>
  BY <1>3 DEF Stored, Whole
<1>4. ASSUME rows'["seat"] = rows["seat"], causes' # {}
      PROVE  Abstract!Unsound
  BY <1>4 DEF Abstract!Unsound
<1>5. ASSUME causes' = causes, requests > rows["seat"], rows'["seat"] = requests,
             \A p \in Parts : rows'[p] = rows[p]
      PROVE  Abstract!StoreSeat
  BY <1>2, <1>5 DEF Abstract!StoreSeat, Whole
<1>6. ASSUME causes' = causes, tx = "open", rows' = work, pc \in {"statement", "commit"},
             pc = "statement" => step = 10
      PROVE  [Abstract!Next]_<<Stored, rows["seat"], causes = {}>>
  <2>1. rows'["seat"] = rows["seat"]
    BY <1>1, <1>6 DEF RequestInv, SeatIsNew
  <2>2. CASE causes # {}
    BY <1>4, <1>6, <2>1, <2>2 DEF Abstract!Next
  <2>3. CASE causes = {}
    <3>1. /\ Whole(rows) /\ rows["games"] \in 0..requests
          /\ \A p \in Parts : session[p] = Newest
          /\ kind # "ready" => rows["games"] < requests
      BY <1>1, <1>6, <2>3 DEF RequestInv, SoundIsWhole
    <3>2. Newest # Missing
      BY <1>2, <3>1 DEF Newest, Missing
    <3>3. \A p \in Parts : work[p] = Newest
      <4>1. \A p \in Parts : pc = "statement" => Place[p] < step
        BY <1>6, Places
      <4> QED BY <1>1, <1>6, <3>1, <3>2, <4>1 DEF RequestInv, TransactionHolds
    <3>4. CASE kind = "ready"
      <4>1. \A p \in Parts : rows'[p] = rows[p]
        BY <1>2, <1>6, <3>1, <3>3, <3>4 DEF Newest, Whole
      <4>2. (Whole(rows)' <=> Whole(rows)) /\ rows'["games"] = rows["games"]
        BY <1>2, <4>1 DEF Whole
      <4>3. UNCHANGED <<Stored, rows["seat"], causes = {}>>
        BY <1>6, <2>1, <4>2 DEF Stored
      <4> QED BY <4>3
    <3>5. CASE kind # "ready"
      <4>1. \A p \in Parts : rows'[p] = requests
        BY <1>6, <3>3, <3>5 DEF Newest
      <4>2. Whole(rows') /\ rows'["games"] = requests
        BY <1>2, <4>1 DEF Whole
      <4>3. Abstract!StoreSession
        BY <1>2, <1>6, <2>1, <2>3, <3>1, <3>5, <4>2 DEF Abstract!StoreSession
      <4> QED BY <4>3 DEF Abstract!Next
    <3> QED BY <3>4, <3>5
  <2> QED BY <2>2, <2>3
<1>7. CASE \E k \in Kinds, M \in SUBSET Parts : Load(k, M)
  <2>1. PICK k \in Kinds, M \in SUBSET Parts : Load(k, M)
    BY <1>7
  <2>2. rows' = rows /\ causes' = IF M = {} THEN causes ELSE causes \cup {"partial load"}
    BY <2>1 DEF Load
  <2>3. CASE M = {}
    BY <1>3, <2>2, <2>3
  <2>4. CASE M # {}
    BY <1>4, <2>2, <2>4 DEF Abstract!Next
  <2> QED BY <2>3, <2>4
<1>8. CASE NotFound \/ Join \/ Route \/ Unseat \/ Ready \/ HandlerBegin
  <2>1. CASE NotFound
    BY <1>3, <2>1 DEF NotFound, history
  <2>2. CASE Join
    <3>1. tx = "idle" /\ work = rows
      BY <1>1, <2>2 DEF Join, RequestInv, OutsideIsIdle, Outside, Sane, TransactionIsFlagged
    <3>2. rows' = rows
      BY <1>1, <2>2, <3>1, Failing DEF Join, Executes
    <3> QED BY <1>3, <2>2, <3>2 DEF Join, history
  <2>3. CASE Route
    <3>1. rows' = rows
      BY <2>3 DEF Route, RollsBack, db
    <3> QED BY <1>3, <2>3, <3>1 DEF Route, history
  <2>4. CASE Unseat
    BY <1>3, <2>4 DEF Unseat, RollsBack, history
  <2>5. CASE Ready
    <3>1. rows' = rows
      BY <1>1, <2>5, Failing DEF Ready, Executes, Sane, DbOK, TransactionIsFlagged
    <3> QED BY <1>3, <2>5, <3>1 DEF Ready, history
  <2>6. CASE HandlerBegin
    <3>1. rows' = rows
      BY <1>1, <2>6, Beginning, BeginningFails DEF HandlerBegin, RequestOK
    <3> QED BY <1>3, <2>6, <3>1 DEF HandlerBegin
  <2> QED BY <1>8, <2>1, <2>2, <2>3, <2>4, <2>5, <2>6
<1>9. CASE Seat
  <2>1. causes' = causes /\ UNCHANGED flag /\ rows["seat"] < requests
    BY <1>1, <1>9 DEF Seat, history, RequestInv, SeatIsNew
  <2>2. \A p \in Parts : work[p] = rows[p]
    BY <1>1, <1>9 DEF Seat, RequestInv, TransactionHolds
  <2>3. \/ rows' = rows
        \/ rows' = [work EXCEPT !["seat"] = requests]
    BY <1>1, <1>9, <2>1, Failing DEF Seat, Executes
  <2>4. LET new == [work EXCEPT !["seat"] = requests]
        IN  new["seat"] = requests /\ \A p \in Parts : new[p] = work[p]
    BY <1>1, SeatWrites, Types DEF Sane
  <2>5. CASE rows' = [work EXCEPT !["seat"] = requests]
    <3>1. rows'["seat"] = requests /\ \A p \in Parts : rows'[p] = rows[p]
      BY <2>2, <2>4, <2>5
    <3>2. requests > rows["seat"]
      BY <1>2, <2>1
    <3> QED BY <1>5, <2>1, <3>1, <3>2 DEF Abstract!Next
  <2> QED BY <1>3, <2>1, <2>3, <2>5
<1>10. CASE SeatCommit
  <2>1. causes' = causes /\ work["seat"] \in {rows["seat"], requests}
    BY <1>1, <1>10 DEF SeatCommit, history, RequestInv, SeatIsNew
  <2>2. \A p \in Parts : work[p] = rows[p]
    BY <1>1, <1>10 DEF SeatCommit, RequestInv, TransactionHolds
  <2>3. rows' = rows \/ rows' = work
    BY <1>1, <1>10, Committing, CommittingFails DEF SeatCommit
  <2>4. CASE rows' = work /\ work["seat"] # rows["seat"]
    <3>1. requests > rows["seat"]
      BY <1>2, <2>1, <2>4
    <3> QED BY <1>5, <2>1, <2>2, <2>4, <3>1 DEF Abstract!Next
  <2>5. CASE rows' = work /\ work["seat"] = rows["seat"]
    <3>1. (Whole(rows)' <=> Whole(rows)) /\ rows'["games"] = rows["games"]
      BY <1>2, <2>2, <2>5 DEF Whole
    <3>2. UNCHANGED <<Stored, rows["seat"], causes = {}>>
      BY <2>1, <2>5, <3>1 DEF Stored
    <3> QED BY <3>2
  <2> QED BY <1>3, <2>1, <2>3, <2>4, <2>5
<1>11. CASE Save \/ SaveRollback
  <2>1. CASE Save
    <3>1. rows' = rows
      BY <1>1, <2>1, Beginning, BeginningFails DEF Save, db, RequestOK
    <3> QED BY <1>3, <2>1, <3>1 DEF Save
  <2>2. CASE SaveRollback
    <3>1. rows' = rows
      BY <2>2 DEF SaveRollback, RollsBack, db
    <3> QED BY <1>3, <2>2, <3>1 DEF SaveRollback, history
  <2> QED BY <1>11, <2>1, <2>2
<1>12. CASE SaveStatement
  <2> DEFINE s == SaveStatements[step]
             new == Written(s.part)
  <2>1. work["seat"] = rows["seat"] /\ UNCHANGED flag
    BY <1>1, <1>12 DEF SaveStatement, RequestInv, SeatIsNew
  <2>2. new["seat"] = work["seat"]
    <3>1. step \in 1..10 /\ step <= 9
      BY <1>1, <1>12, Length DEF SaveStatement, RequestOK
    <3>2. step \in 1..9
      BY <3>1
    <3> QED BY <1>1, <3>2, StatementWrites, Types DEF Sane
  <2> HIDE DEF s, new
  <2>3. CASE /\ Executes(new)
             /\ causes' = IF tx = "idle" THEN causes \cup {"no transaction"} ELSE causes
    <3>1. CASE tx = "open"
      <4>1. rows' = rows /\ causes' = causes
        BY <2>3, <3>1 DEF Executes
      <4> QED BY <1>3, <4>1
    <3>2. CASE tx = "idle"
      <4>1. rows' = new /\ causes' # {}
        BY <2>3, <3>2 DEF Executes
      <4>2. rows'["seat"] = rows["seat"]
        BY <2>1, <2>2, <4>1
      <4> QED BY <1>4, <4>1, <4>2 DEF Abstract!Next
    <3> QED BY <1>1, <2>3, <3>1, <3>2 DEF Executes, Sane, DbOK
  <2>4. CASE Fails /\ UNCHANGED causes
    <3>1. rows' = rows
      BY <1>1, <2>1, <2>4, Failing
    <3> QED BY <1>3, <2>4, <3>1
  <2>5. CASE UNCHANGED db /\ UNCHANGED causes
    BY <1>3, <2>5 DEF db
  <2> QED BY <1>12, <2>3, <2>4, <2>5 DEF SaveStatement, s, new
<1>13. CASE SaveEnd \/ ActionCommit
  <2>1. causes' = causes /\ pc \in {"statement", "commit"}
    BY <1>13 DEF SaveEnd, ActionCommit, history
  <2>2. pc = "statement" => step = 10
    <3>1. ASSUME pc = "statement" PROVE step > 9
      BY <1>13, <3>1, Length DEF SaveEnd, ActionCommit
    <3>2. step \in 1..10
      BY <1>1 DEF RequestOK
    <3> QED BY <3>1, <3>2
  <2>3. rows' = rows \/ (tx = "open" /\ rows' = work)
    <3>1. CASE SaveEnd
      BY <1>1, <3>1, Committing, CommittingFails DEF SaveEnd, db
    <3>2. CASE ActionCommit
      BY <1>1, <3>2, Committing, CommittingFails DEF ActionCommit
    <3> QED BY <1>13, <3>1, <3>2
  <2> QED BY <1>3, <1>6, <2>1, <2>2, <2>3
<1>14. CASE Restart
  BY <1>3, <1>14 DEF Restart
<1>15. CASE UNCHANGED vars
  BY <1>3, <1>15 DEF vars
<1> QED BY <1>7, <1>8, <1>9, <1>10, <1>11, <1>12, <1>13, <1>14, <1>15 DEF Next, Done

\* IsAStore: until a save has run without its transaction or a load was refused a
\* SELECT, the repository implements Store, whatever else fails in between.
THEOREM Refinement == Spec => IsAStore
<1>1. Init => Abstract!Init
  <2> SUFFICES ASSUME Init PROVE Abstract!Init
    OBVIOUS
  <2>1. /\ rows = [t \in Tables |-> 0] /\ causes = {}
        /\ "seat" \in Tables /\ "games" \in Tables /\ \A p \in Parts : p \in Tables
    BY DEF Init, Tables, Parts
  <2>2. Whole(rows) /\ rows["games"] = 0 /\ rows["seat"] = 0
    BY <2>1 DEF Whole
  <2> QED BY <2>1, <2>2 DEF Abstract!Init
<1>2. IInv /\ [Next]_vars => [Abstract!Next]_(Abstract!storeVars)
  BY StoreSteps DEF Stored, Abstract!storeVars
<1> QED BY <1>1, <1>2, Invariant, PTL DEF Spec, IsAStore, Abstract!Spec
=============================================================================
