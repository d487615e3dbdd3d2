----------------------------- MODULE TechStore -----------------------------
(***************************************************************************)
(* The technologies of one tribe between requests.  Nothing but rows lasts:*)
(* every request builds the tribe anew from its nation and its rows of     *)
(* tribe_technologies, and saves it technology by technology inside the    *)
(* request's transaction.                                                  *)
(***************************************************************************)
EXTENDS Techs, FiniteSets

CONSTANT MaxKnown   \* bound: technologies of the tribe

ASSUME MaxKnownAssumption == MaxKnown \in Nat

VARIABLES
    phase,    \* what the server is doing with the tribe
    nation,   \* tribes.nation_type
    known,    \* Tribe::knownTechs of the loaded game; repetitions do not matter
    pending,  \* technologies the save has still to write
    tx,       \* rows of tribe_technologies as the transaction sees them
    rows,     \* rows of tribe_technologies as committed
    earned    \* history: what the tribe was given or paid for, as committed

techVars == <<phase, nation, known, pending, tx, rows, earned>>

TechInit ==
    /\ phase = "none"
    /\ nation \in DOMAIN StartTech
    /\ known = {} /\ pending = {} /\ tx = {} /\ rows = {} /\ earned = {}

\* A new tribe: its constructor teaches it the technology of its nation.
HandleSelectTribe ==
    /\ phase = "none"
    /\ phase' = "loaded"
    /\ known' = {StartTech[nation]}
    /\ earned' = {StartTech[nation]}
    /\ UNCHANGED <<nation, pending, tx, rows>>

\* load: the constructor again, then one learnTech for each row.
Load ==
    /\ phase = "idle"
    /\ phase' = "loaded"
    /\ known' = {StartTech[nation]} \cup {LoadedFrom(i) : i \in rows}
    /\ tx' = rows
    /\ UNCHANGED <<nation, pending, rows, earned>>

\* TribeRevealAction with the client's indices; the price is in Economy.
Reveal(x, y) ==
    /\ phase = "loaded"
    /\ Cardinality(known) < MaxKnown
    /\ phase' = "acted"
    /\ known' = known \cup {TechAt[x][y]}
    /\ UNCHANGED <<nation, pending, tx, rows, earned>>

SaveBegin ==
    /\ phase \in {"loaded", "acted"}
    /\ phase' = "saving"
    /\ pending' = known
    /\ UNCHANGED <<nation, known, tx, rows, earned>>

\* saveTribeTechnology is an upsert of the id that LIMIT 1 picks.
SaveTech(t) ==
    /\ phase = "saving"
    /\ t \in pending
    /\ \E id \in SavedAs(t) : tx' = tx \cup {id}
    /\ pending' = pending \ {t}
    /\ UNCHANGED <<phase, nation, known, rows, earned>>

Commit ==
    /\ phase = "saving"
    /\ pending = {}
    /\ rows' = tx
    /\ earned' = known
    /\ phase' = "idle"
    /\ known' = {}
    /\ UNCHANGED <<nation, pending, tx>>

\* The request throws, its commit is refused, or the process dies.
Fail ==
    /\ phase \in {"loaded", "acted", "saving"}
    /\ phase' = IF rows = {} THEN "none" ELSE "idle"
    /\ known' = {} /\ pending' = {} /\ tx' = rows
    /\ UNCHANGED <<nation, rows, earned>>

TechNext ==
    \/ HandleSelectTribe
    \/ Load
    \/ \E x \in DOMAIN TechAt : \E y \in DOMAIN TechAt[x] : Reveal(x, y)
    \/ SaveBegin
    \/ \E t \in TechNames : SaveTech(t)
    \/ Commit
    \/ Fail

TechSpec == TechInit /\ [][TechNext]_techVars
-----------------------------------------------------------------------------
\* Every field holds a value of its kind; an id is one of the table's.
TechTypeOK ==
    /\ phase \in {"none", "loaded", "acted", "saving", "idle"}
    /\ nation \in DOMAIN StartTech
    /\ known \in SUBSET TechNames
    /\ pending \in SUBSET known
    /\ tx \in SUBSET Ids
    /\ rows \in SUBSET Ids
    /\ earned \in SUBSET TechNames

\* A loaded tribe knows exactly what it was given and paid for, although a
\* technology is found in the table by what it gives and recognised, when it is
\* read back, by its unit, resource, ability and first building only: no
\* technology is lost, replaced by a similar one, or gained with its nation.
KnownAfterReload == phase = "loaded" => known = earned
=============================================================================
