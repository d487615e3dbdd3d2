----------------------------- MODULE Repository -----------------------------
(***************************************************************************)
(* GameRepository: one connection to PostgreSQL, the flag that says a      *)
(* transaction is under way, and the statements of save, one step each,    *)
(* inside the requests that call it.  A value is the number of the request *)
(* that wrote it, so a game is whole when all its parts carry one number.  *)
(*                                                                         *)
(* Statements may be refused, the connection may break and the process may *)
(* die, at every step.  After a refused statement PostgreSQL refuses the   *)
(* rest of the transaction and answers its COMMIT with a rollback; the     *)
(* code takes that answer for success.                                     *)
(***************************************************************************)
EXTENDS Integers, Sequences, FiniteSets

CONSTANTS MaxRequests,   \* bound on requests
          MaxFaults      \* bound on faults

ASSUME BoundsAssumption == MaxRequests \in Nat /\ MaxFaults \in Nat

\* The parts of a session, by the table that holds them, and the seat of the
\* user, which belongs to no session.
Parts == {"games", "tribes", "techs", "tiles", "units", "cities",
          "buildings", "resources"}
Tables == Parts \cup {"seat"}

Requests == 1..MaxRequests
None == -1      \* no rows, or the defaults of the program: a turn of player 1
Missing == -2   \* what a session holds of a table whose SELECT was refused
Value == Requests \cup {0, None}

Kinds == {"ready", "action", "select"}

(***************************************************************************)
(* The statements of save in their order.  strict: a failure goes to the   *)
(* label rollback.  lookup: the statement is issued only for the id that a *)
(* SELECT before it found.                                                 *)
(***************************************************************************)
Statement(part, strict, lookup) ==
    [part |-> part, strict |-> strict, lookup |-> lookup]

SaveStatements ==
    << Statement("games", TRUE, FALSE),      Statement("tribes", FALSE, FALSE),
       Statement("techs", TRUE, FALSE),      Statement("tiles", FALSE, FALSE),
       Statement("delete units", FALSE, FALSE), Statement("units", FALSE, FALSE),
       Statement("cities", FALSE, TRUE),     Statement("buildings", FALSE, TRUE),
       Statement("resources", TRUE, TRUE) >>

VARIABLES
    rows,       \* committed rows: table -> request that wrote them
    work,       \* the rows as the open transaction sees them
    tx,         \* PostgreSQL's side: "idle", "open" or "aborted"
    flag,       \* in_transaction_
    conn,       \* isConnected()
    pc, kind,   \* the request being handled: its next step, its handler
    session,    \* the copy load made and the handler changed
    external,   \* save's external_tx
    step,       \* index of the next statement of save
    requests,   \* requests so far; also the number of the current one
    answer,     \* the last answer: "none" when the connection was closed
    failed,     \* history: a statement of this request failed
    beginLost,  \* history: a BEGIN failed in this life of the process
    causes,     \* history: why a game may be stored in part
    faults

db == <<rows, work, tx, conn, faults>>
request == <<kind, session, requests>>
history == <<beginLost, causes>>
vars == <<rows, work, tx, flag, conn, pc, kind, session, external, step,
          requests, answer, failed, beginLost, causes, faults>>

TypeOK ==
    /\ rows \in [Tables -> Value] /\ work \in [Tables -> Value]
    /\ tx \in {"idle", "open", "aborted"}
    /\ flag \in BOOLEAN /\ conn \in BOOLEAN /\ external \in BOOLEAN
    /\ pc \in {"idle", "join", "begin", "route", "seat", "ready", "unseat",
               "seatcommit", "save", "statement", "saverollback", "commit"}
    /\ kind \in Kinds
    /\ session \in [Parts -> Value \cup {Missing}]
    /\ step \in 1..Len(SaveStatements) + 1
    /\ requests \in 0..MaxRequests /\ faults \in 0..MaxFaults
    /\ answer \in {"none", "ok", "error"}
    /\ failed \in BOOLEAN /\ beginLost \in BOOLEAN
    /\ causes \subseteq {"no transaction", "partial load"}

Init ==
    /\ rows = [t \in Tables |-> 0] /\ work = rows
    /\ tx = "idle" /\ flag = FALSE /\ conn = TRUE
    /\ pc = "idle" /\ kind = "ready" /\ session = [p \in Parts |-> 0]
    /\ external = FALSE /\ step = 1
    /\ requests = 0 /\ answer = "none" /\ failed = FALSE
    /\ beginLost = FALSE /\ causes = {} /\ faults = 0
-----------------------------------------------------------------------------
(***************************************************************************)
(* The connection.                                                         *)
(***************************************************************************)
\* A statement that succeeds writes the open transaction, or, outside of
\* one, the rows themselves.
Executes(new) ==
    /\ conn /\ tx # "aborted"
    /\ work' = new
    /\ rows' = IF tx = "open" THEN rows ELSE new
    /\ UNCHANGED <<tx, conn, faults>>

Breaks == /\ conn /\ faults < MaxFaults
          /\ conn' = FALSE /\ tx' = "idle" /\ work' = rows
          /\ faults' = faults + 1
          /\ UNCHANGED rows

\* A statement that fails: there is no connection, the transaction is already
\* aborted, the server refuses this statement, or the connection breaks.
Fails ==
    \/ (~conn \/ tx = "aborted") /\ UNCHANGED db
    \/ /\ conn /\ tx # "aborted" /\ faults < MaxFaults
       /\ tx' = IF tx = "open" THEN "aborted" ELSE tx
       /\ faults' = faults + 1
       /\ UNCHANGED <<rows, work, conn>>
    \/ Breaks

\* beginTransaction: the flag is set before BEGIN is sent, and stays set.
BeginRuns == /\ ~flag /\ flag' = TRUE
             /\ conn /\ tx' = "open"
             /\ UNCHANGED <<rows, work, conn, faults, beginLost>>
BeginFails ==
    \/ flag /\ UNCHANGED <<db, flag, beginLost>>
    \/ /\ ~flag /\ flag' = TRUE /\ beginLost' = TRUE
       /\ \/ ~conn /\ UNCHANGED db
          \/ Breaks
          \/ /\ conn /\ faults < MaxFaults
             /\ faults' = faults + 1
             /\ UNCHANGED <<rows, work, tx, conn>>

\* commitTransaction: true also when PostgreSQL rolled back or had nothing
\* to commit.  When the connection breaks, the commit may have happened.
CommitRuns == /\ flag /\ flag' = FALSE /\ conn
              /\ rows' = IF tx = "open" THEN work ELSE rows
              /\ work' = rows' /\ tx' = "idle"
              /\ UNCHANGED <<conn, faults>>
\* Mutant: a failed COMMIT returns before the flag is put down.
CommitFailsKeepingFlag ==
    /\ flag /\ ~conn /\ UNCHANGED <<db, flag>>

CommitFails ==
    \/ ~flag /\ UNCHANGED <<db, flag>>
    \/ /\ flag /\ flag' = FALSE
       /\ \/ ~conn /\ UNCHANGED db
          \/ /\ conn /\ faults < MaxFaults
             /\ faults' = faults + 1 /\ tx' = "idle"
             /\ \/ conn' = FALSE /\ rows' \in {rows, IF tx = "open" THEN work ELSE rows}
                \/ conn' = TRUE /\ rows' = rows
             /\ work' = rows'

\* Mutant: the flag stays up.
RollsBackKeepingFlag == /\ tx' = IF flag THEN "idle" ELSE tx
                        /\ work' = IF flag THEN rows ELSE work
                        /\ UNCHANGED <<rows, conn, flag, faults>>

\* rollbackTransaction.
RollsBack == /\ flag' = FALSE
             /\ tx' = IF flag THEN "idle" ELSE tx
             /\ work' = IF flag THEN rows ELSE work
             /\ UNCHANGED <<rows, conn, faults>>
-----------------------------------------------------------------------------
(***************************************************************************)
(* A request: load, the handler's own statements, save.                    *)
(***************************************************************************)
\* What load lacks after refused SELECTs: technologies and units are looked
\* up tribe by tribe, resources, buildings and cities hang on squares.
Lacks(M) ==
    M \cup (IF "tribes" \in M THEN {"techs", "units"} ELSE {})
      \cup (IF "tiles" \in M THEN {"cities", "buildings", "resources"} ELSE {})

\* A unit on a square that was not loaded is a null dereference in load.
Survives(M) == "tiles" \in M => ("units" \in M \/ rows["units"] = None)

\* What the handler makes of the loaded copy: ready changes nothing that is
\* saved, the others may change all of it.
Changed(k, M, n) ==
    [p \in Parts |-> IF p \in M THEN Missing
                     ELSE IF k = "ready" THEN rows[p] ELSE n]

FirstStep == [ready |-> "save", action |-> "begin", select |-> "join"]

Load(k, M) ==
    /\ pc = "idle" /\ requests < MaxRequests /\ conn
    /\ Lacks(M) = M /\ Survives(M)
    /\ M # {} => faults < MaxFaults
    /\ faults' = IF M = {} THEN faults ELSE faults + 1
    /\ causes' = IF M = {} THEN causes ELSE causes \cup {"partial load"}
    /\ requests' = requests + 1
    /\ kind' = k /\ session' = Changed(k, M, requests + 1)
    /\ pc' = FirstStep[k] /\ answer' = "none" /\ failed' = FALSE
    /\ UNCHANGED <<rows, work, tx, flag, conn, external, step, beginLost>>

\* Without a connection load returns no session: not found.
NotFound ==
    /\ pc = "idle" /\ requests < MaxRequests /\ ~conn
    /\ requests' = requests + 1 /\ answer' = "error"
    /\ UNCHANGED <<rows, work, tx, flag, conn, pc, kind, session, external, step,
                   failed, history, faults>>

Answered(a) == pc' = "idle" /\ answer' = a

\* addPlayerToGame inserts the seat's row before any transaction.
Join == /\ pc = "join"
        /\ \/ Executes(work) /\ pc' = "begin" /\ UNCHANGED <<answer, failed>>
           \/ Fails /\ Answered("error") /\ failed' = TRUE
        /\ UNCHANGED <<flag, request, external, step, history>>

\* Mutant: tribe selection opens no transaction.
HandlerBeginOfActions ==
    /\ pc = "begin"
    /\ \/ /\ kind = "action" /\ pc' = "route"
          /\ \/ BeginRuns /\ UNCHANGED failed
             \/ BeginFails /\ failed' = TRUE
       \/ /\ kind = "select" /\ pc' = "seat"
          /\ UNCHANGED <<db, flag, beginLost, failed>>
    /\ UNCHANGED <<request, external, step, answer, causes>>

\* Neither handler looks at the result of beginTransaction.
HandlerBegin ==
    /\ pc = "begin"
    /\ pc' = IF kind = "action" THEN "route" ELSE "seat"
    /\ \/ BeginRuns /\ UNCHANGED failed
       \/ BeginFails /\ failed' = TRUE
    /\ UNCHANGED <<request, external, step, answer, causes>>

\* ActionRouter::Route works on the copy; an exception rolls back and leaves
\* the client without an answer.
Route == /\ pc = "route"
         /\ \/ pc' = "save" /\ UNCHANGED <<db, flag, answer>>
            \/ RollsBack /\ Answered("none")
         /\ UNCHANGED <<request, external, step, failed, history>>

\* setPlayerTribe is checked; setPlayerReady and updatePlayerLastActivity,
\* which write no part of the game, are not.
Seat == /\ pc = "seat"
        /\ \/ /\ Executes([work EXCEPT !["seat"] = requests])
              /\ pc' = "ready" /\ UNCHANGED failed
           \/ Fails /\ pc' = "unseat" /\ failed' = TRUE
        /\ UNCHANGED <<flag, request, external, step, answer, history>>

Unseat == /\ pc = "unseat" /\ RollsBack /\ Answered("error")
          /\ UNCHANGED <<request, external, step, failed, history>>

Ready == /\ pc = "ready" /\ pc' = "seatcommit"
         /\ \/ Executes(work) /\ UNCHANGED failed
            \/ Fails /\ failed' = TRUE
         /\ UNCHANGED <<flag, request, external, step, answer, history>>

SeatCommit == /\ pc = "seatcommit"
              /\ \/ CommitRuns /\ pc' = "save" /\ UNCHANGED <<answer, failed>>
                 \/ CommitFails /\ Answered("error") /\ failed' = TRUE
              /\ UNCHANGED <<request, external, step, history>>

\* storeSession returns nothing, so the handlers go on as if it had worked.
AfterSave == IF kind = "action" THEN pc' = "commit" /\ UNCHANGED answer
             ELSE Answered("ok")

\* save opens a transaction unless the flag says that its caller did.
Save ==
    /\ pc = "save"
    /\ step' = 1
    /\ \/ /\ ~conn /\ AfterSave /\ failed' = TRUE
          /\ UNCHANGED <<db, flag, external, beginLost>>
       \/ /\ conn /\ flag /\ external' = TRUE /\ pc' = "statement"
          /\ UNCHANGED <<db, flag, answer, failed, beginLost>>
       \/ /\ conn /\ ~flag /\ external' = FALSE
          /\ \/ BeginRuns /\ pc' = "statement" /\ UNCHANGED <<answer, failed>>
             \/ BeginFails /\ AfterSave /\ failed' = TRUE
    /\ UNCHANGED <<request, causes>>

\* What a statement leaves in its table.
Written(part) ==
    IF part = "delete units" THEN [work EXCEPT !["units"] = None]
    ELSE [work EXCEPT ![part] = IF session[part] = Missing THEN None
                                ELSE session[part]]

\* Mutant: save forgets a table.
IssuedWithoutBuildings(s) ==
    s.part \in {"games", "delete units"} \/ (s.part \in Parts \ {"buildings"})

\* A table that load did not bring is not written, except that the row of the
\* game always is, with the defaults, and that the units of every loaded tribe
\* are deleted before the loaded ones are inserted.
Issued(s) == \/ s.part = "games"
             \/ s.part = "delete units" /\ session["tribes"] # Missing
             \/ s.part \in Parts /\ session[s.part] # Missing

NextStep == step' = step + 1 /\ UNCHANGED pc

SaveStatement ==
    LET s == SaveStatements[step] IN
    /\ pc = "statement" /\ step <= Len(SaveStatements)
    /\ \/ /\ ~Issued(s) /\ NextStep
          /\ UNCHANGED <<db, failed, causes>>
       \/ /\ Issued(s) /\ Executes(Written(s.part)) /\ NextStep
          /\ causes' = IF tx = "idle" THEN causes \cup {"no transaction"} ELSE causes
          /\ UNCHANGED failed
       \/ /\ Issued(s) /\ Fails /\ failed' = TRUE
          /\ UNCHANGED causes
          /\ \/ (~s.strict \/ s.lookup) /\ NextStep
             \/ /\ s.strict /\ pc' = "saverollback" /\ UNCHANGED step
                /\ s.lookup => conn /\ tx # "aborted"
    /\ UNCHANGED <<flag, request, external, answer, beginLost>>

SaveEnd ==
    /\ pc = "statement" /\ step > Len(SaveStatements)
    /\ \/ external /\ AfterSave /\ UNCHANGED <<db, flag, failed>>
       \/ ~external /\ CommitRuns /\ AfterSave /\ UNCHANGED failed
       \/ /\ ~external /\ CommitFails /\ pc' = "saverollback" /\ failed' = TRUE
          /\ UNCHANGED answer
    /\ UNCHANGED <<request, external, step, history>>

\* The label rollback: only save's own transaction is rolled back.
SaveRollback ==
    /\ pc = "saverollback" /\ AfterSave
    /\ IF external THEN UNCHANGED <<db, flag>> ELSE RollsBack
    /\ UNCHANGED <<request, external, step, failed, history>>

\* The handler of an action does not look at the result of its commit.
ActionCommit ==
    /\ pc = "commit" /\ Answered("ok")
    /\ \/ CommitRuns /\ UNCHANGED failed
       \/ CommitFails /\ failed' = TRUE
    /\ UNCHANGED <<request, external, step, history>>

\* The process dies and is started again: PostgreSQL drops what was open.
Restart ==
    /\ ~conn \/ faults < MaxFaults
    /\ faults' = IF conn THEN faults + 1 ELSE faults
    /\ tx' = "idle" /\ work' = rows /\ conn' = TRUE
    /\ flag' = FALSE /\ beginLost' = FALSE
    /\ pc' = "idle" /\ answer' = "none"
    /\ UNCHANGED <<rows, request, external, step, failed, causes>>

Done == pc = "idle" /\ requests = MaxRequests /\ UNCHANGED vars

Next ==
    \/ \E k \in Kinds, M \in SUBSET Parts : Load(k, M)
    \/ NotFound \/ Join \/ HandlerBegin \/ Route
    \/ Seat \/ Unseat \/ Ready \/ SeatCommit
    \/ Save \/ SaveStatement \/ SaveEnd \/ SaveRollback \/ ActionCommit
    \/ Restart \/ Done

Spec == Init /\ [][Next]_vars
-----------------------------------------------------------------------------
(***************************************************************************)
(* Properties.                                                             *)
(***************************************************************************)
Whole(r) == \A p, q \in Parts : r[p] = r[q]

\* NoTransactionLeaks: between two requests PostgreSQL has no transaction
\* open, whatever failed in them; an open one would swallow the requests that
\* follow and lose them at the next restart.
NoTransactionLeaks == pc = "idle" => tx = "idle" /\ work = rows

\* StuckFlagHasCause: between two requests in_transaction_ is set only after a
\* BEGIN that failed; no other path through the handlers and save forgets it.
StuckFlagHasCause == pc = "idle" /\ flag => beginLost

\* TornHasCause: the tables of a game hold the sessions of different requests
\* only after a save without a transaction or after a load of which a SELECT
\* was refused.
TornHasCause == ~Whole(rows) => causes # {}

\* RequestsEndClean: what a request leaves behind is explained: no transaction, the
\* flag only after a lost BEGIN, a game in parts only after one of the two causes.
RequestsEndClean == NoTransactionLeaks /\ StuckFlagHasCause /\ TornHasCause

\* OkIsStoredOrFailed: when no statement of an action failed, its answer "ok"
\* means that the session it worked on is what the tables hold.
OkIsStoredOrFailed ==
    pc = "idle" /\ kind = "action" /\ answer = "ok" /\ ~failed
        => \A p \in Parts : session[p] # Missing => rows[p] = session[p]

\* ActionClearsFlag: an action request ends with the flag down, also when it
\* found it set: its commit or rollback is what ends a run of unprotected saves.
ActionClearsFlag ==
    [][pc # "idle" /\ kind = "action" /\ pc' = "idle" => ~flag']_vars

\* RefusedIsNotSeated: a selection answered with an error has committed no seat,
\* unless the connection broke under its commit or its BEGIN had been lost.
RefusedIsNotSeated ==
    pc = "idle" /\ kind = "select" /\ answer = "error" /\ conn /\ ~beginLost
        => rows["seat"] # requests

\* AnswersAreTrue: what the client is told is what the tables hold, up to the failures
\* that no handler looks at.
AnswersAreTrue == OkIsStoredOrFailed /\ RefusedIsNotSeated

\* IsAStore: until a save runs outside of a transaction or a load is refused a SELECT,
\* the repository is the store of module Store, whatever else fails: no step shows a
\* part of a session and none brings an older one back.
Abstract == INSTANCE Store WITH
    stored <- IF Whole(rows) THEN rows["games"] ELSE None,
    seated <- rows["seat"],
    sound <- causes = {}
IsAStore == Abstract!Spec
=============================================================================
