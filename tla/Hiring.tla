------------------------------- MODULE Hiring -------------------------------
(***************************************************************************)
(* From the client's menu of units to the unit that is hired, on top of    *)
(* TechStore: the state answer lists what the technologies of the loaded   *)
(* tribe allow, the dialog turns a name into an index, the server turns    *)
(* the index into a kind.  Money, the square and the city are in Board and *)
(* Economy; a hire they refuse fails as any request may.  The tribe is the *)
(* user's in the game that the client is in, or was in last.               *)
(***************************************************************************)
EXTENDS TechStore

CONSTANTS
    MaxUnderWay,   \* bound: state answers under way
    ReadsFail      \* may the database refuse what a state answer reads for its list?

ASSUME HiringAssumption == MaxUnderWay \in Nat \ {0} /\ ReadsFail \in BOOLEAN

VARIABLES
    menu,       \* GameClient::m_availableUnits
    tiles,      \* whose tiles are shown, from the state parsed last: "none", those of
                \* the tribe's game ("own"), or of a game left for it ("foreign")
    underWay,   \* the available units of state answers not yet read, and whether the
                \* game they are of was left for another
    hire        \* the hire that the server is working on: what was confirmed and what
                \* is hired

clientSide == <<menu, tiles, underWay, hire>>
hiringVars == <<techVars, clientSide>>

\* IndexDisposer::getUnitTypeByIndex counts from 1.
KindAt == <<"Warrior", "Rider", "Archer", "Knight",
            "Defender", "Swordsman", "Priest", "Catapult">>

Cost == [Warrior |-> 2, Rider |-> 3, Archer |-> 3, Knight |-> 8, Defender |-> 3,
         Swordsman |-> 5, Priest |-> 5, Catapult |-> 8]

\* The units a state answer names if a technology gives them: not the ships.
Named == {"Archer", "Rider", "Knight", "Defender", "Swordsman", "Priest",
          "Catapult", "Giant"}

\* Tribe::availableUnits
Available(techs) == {"Warrior"} \cup {Tech[t].unit : t \in techs}

\* Mutant of Offered: every unit that a technology gives is named.
OfferedWithShips(techs) == Available(techs) \ {"None"}

\* "available_units" of a state answer
Offered(techs) == {"Warrior"} \cup {u \in Named : \E t \in techs : Tech[t].unit = u}

\* The lists that an answer may hold: getPlayerTribe refused gives none,
\* loadTribeTechnologies refused gives that of a tribe without technologies.
Answers(techs) ==
    {Offered(techs)} \cup (IF ReadsFail THEN {Offered({}), {}} ELSE {})

\* An empty list is taken for these two.
Menu == IF menu = {} THEN {"Warrior", "Archer"} ELSE menu

\* The dialog: the index and the price for a name; a name it does not know is the
\* first unit.
Indexed == {"Warrior", "Archer", "Swordsman", "Knight"}
UnitTypeIndex(name) ==
    IF name \in Indexed
    THEN [Warrior |-> 0, Archer |-> 1, Swordsman |-> 2, Knight |-> 3][name] ELSE 0
Price(name) ==
    IF name \in Indexed
    THEN [Warrior |-> 2, Archer |-> 3, Swordsman |-> 4, Knight |-> 5][name] ELSE 2

-----------------------------------------------------------------------------
\* Nothing is shown and nothing offered until the first state has been read.
HiringInit ==
    /\ TechInit
    /\ menu = {} /\ tiles = "none"
    /\ underWay = {}
    /\ hire = << >>

\* handle_game_state answers from the loaded game and saves nothing; the client does
\* not wait for one answer before the next request.
GameState ==
    /\ phase = "loaded" /\ rows # {}
    /\ Cardinality(underWay) < MaxUnderWay
    /\ \E list \in Answers(known) :
         underWay' = underWay \cup {[list |-> list, foreign |-> FALSE]}
    /\ phase' = "idle" /\ known' = {}
    /\ UNCHANGED <<nation, pending, tx, rows, earned, menu, tiles, hire>>

\* parseState, in whatever order the answers come and of whatever game they are.
ParseState(m) ==
    /\ menu' = m.list
    /\ tiles' = IF m.foreign THEN "foreign" ELSE "own"
    /\ underWay' = underWay \ {m}
    /\ UNCHANGED <<techVars, hire>>

\* recruitUnit of the client, CityRecruitAction and recruitUnit of the server: the
\* request goes on as any action does.  The menu opens on a tile, so a state has been
\* parsed since the client last left a game.
RecruitUnit(name) ==
    LET kind == KindAt[UnitTypeIndex(name) + 1]
    IN  /\ tiles # "none"
        /\ phase = "loaded" /\ rows # {}
        /\ kind \in Available(known)
        /\ phase' = "acted"
        /\ hire' = <<name, kind>>
        /\ UNCHANGED <<nation, known, pending, tx, rows, earned, menu, tiles, underWay>>

\* leaveGame: resetGameState clears the list and the tiles; requests under way are not
\* aborted, and their answers will be read.  (A state of the left game that is served
\* only now might as well have been served before.)
ResetGameState == menu' = {} /\ tiles' = "none"

\* The user joins the same game again.
Rejoin == ResetGameState /\ UNCHANGED <<techVars, underWay, hire>>

\* The user goes to another game, where it has another tribe; to come back later is
\* to go on to yet another.
JoinAnother ==
    /\ ResetGameState
    /\ phase' = "none"
    /\ nation' \in DOMAIN StartTech
    /\ known' = {} /\ pending' = {} /\ tx' = {} /\ rows' = {} /\ earned' = {}
    /\ underWay' = {[m EXCEPT !.foreign = TRUE] : m \in underWay}
    /\ hire' = << >>

HiringNext ==
    \/ TechNext /\ hire' = << >> /\ UNCHANGED <<menu, tiles, underWay>>
    \/ GameState
    \/ \E m \in underWay : ParseState(m)
    \/ \E name \in Menu : RecruitUnit(name)
    \/ Rejoin
    \/ JoinAnother

HiringSpec == HiringInit /\ [][HiringNext]_hiringVars
-----------------------------------------------------------------------------
(* Properties                                                              *)

\* What the next request will know: the technologies as they are read back.
Reloaded == {StartTech[nation]} \cup {LoadedFrom(i) : i \in rows}

\* However late a state is read, and whatever was saved, rolled back or lost in the
\* meantime, the menu names only units that the server can make, and those of a state of
\* the tribe's own game may all be hired by the tribe as the next request loads it.  Two
\* menus may promise more: that of a state of a game left since, which is read like any
\* other, and the Archer of the menu that stands for an empty list.
OfferIsWithinReach ==
    \A name \in Menu :
        /\ \E i \in DOMAIN KindAt : KindAt[i] = name
        /\ \/ name \in Available(Reloaded)
           \/ tiles = "foreign"
           \/ menu = {} /\ name = "Archer"

\* main.qml:198: "Recruit " + modelData + " for " + cost + " gold?"
HiresWhatItOffers ==
    hire # << >> => hire[2] = hire[1] /\ Cost[hire[2]] = Price(hire[1])
=============================================================================
