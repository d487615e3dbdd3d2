------------------------------- MODULE Store -------------------------------
(***************************************************************************)
(* What a handler may believe of the game repository: a game is one value  *)
(* that is replaced as a whole, by the session of a later request, and so  *)
(* is the seat of the user who selects a tribe.  Nothing is promised about *)
(* when, or whether, a request that was answered is stored; and nothing    *)
(* about the game once a save went without its transaction or its session. *)
(***************************************************************************)
EXTENDS Integers

VARIABLES stored,   \* the request whose session the next load returns
          seated,   \* the request whose seat the next load returns
          sound     \* has every save had its transaction and a whole session?

storeVars == <<stored, seated, sound>>

Init == stored = 0 /\ seated = 0 /\ sound = TRUE

\* The whole session of a later request takes the place of the stored one.
StoreSession == /\ sound = TRUE /\ sound' = TRUE
                /\ stored' \in Nat /\ stored' > stored
                /\ UNCHANGED seated

\* The seat alone: tribe selection commits it before the session.
StoreSeat == /\ sound' = sound
             /\ seated' \in Nat /\ seated' > seated
             /\ UNCHANGED stored

\* Afterwards the game may be anything, for good; the seat is still what it was.
Unsound == /\ sound' = FALSE
           /\ UNCHANGED seated

Next == StoreSession \/ StoreSeat \/ Unsound

Spec == Init /\ [][Next]_storeVars
=============================================================================
