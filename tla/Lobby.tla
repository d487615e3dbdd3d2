------------------------------- MODULE Lobby -------------------------------
(***************************************************************************)
(* Games, seats, capitals and turns, as the server keeps them: rows of the *)
(* games, tribes, cities and game_players tables, changed by the handlers  *)
(* of http_server.cpp.  One io_context thread runs the handlers, so a      *)
(* handler is one step unless it commits more than once; tribe selection   *)
(* commits three times and is three steps.  Every handler loads the whole  *)
(* game, works on that copy and saves it back.                             *)
(***************************************************************************)
EXTENDS Integers, Sequences, FiniteSets, FiniteSetsExt, Functions

CONSTANTS
    Users,       \* registered users
    Cities,      \* map squares that can be the main tile of a city
    NoCity,      \* the NULL capital_city_id
    MaxGame,     \* bound: game ids are 1..MaxGame
    MaxCreates,  \* bound: games created in a behaviour
    MaxFaults,   \* bound: crashes, refused commits and refused reads in a behaviour
    StableScan   \* TRUE: SELECT .. FROM tribes returns rows in the order they
                 \* were inserted; FALSE: any order, as SQL allows (no ORDER BY)

ASSUME LobbyAssumption ==
    /\ MaxGame \in Nat \ {0}
    /\ MaxCreates \in Nat
    /\ MaxFaults \in Nat
    /\ StableScan \in BOOLEAN
    /\ NoCity \notin Cities

Neutral == -1    \* the tribe that owns every free city
Nobody  == 0     \* "owner" of a square that has no city row; no tribe has id 0
NoSeat  == -1    \* no game_players row
NoTribe == 0     \* a game_players row whose tribe_id is NULL

GameIds  == 1 .. MaxGame
TribeId  == {Neutral} \cup (Nat \ {0})
TribeRow == [tribe : TribeId, capital : Cities \cup {NoCity}]

VARIABLES
    games,     \* ids that have a games row
    current,   \* games.current_player: an index into the loaded tribes
    finished,  \* games.is_finished
    rows,      \* tribes rows of a game, in insertion order
    owner,     \* cities.tribe_id, Nobody when there is no row
    seat,      \* game_players.tribe_id
    lastId,    \* GameRepository::last_game_id_, in memory
    handler,   \* the tribe selection in flight
    lost,      \* history: <<game, user>> seated although the store was lost
    creates,   \* history: games created so far
    faults     \* history: faults so far

db   == <<games, current, finished, rows, owner>>
vars == <<games, current, finished, rows, owner, seat, lastId, handler, lost,
          creates, faults>>

-----------------------------------------------------------------------------
(* What load() makes of the rows, and what save() makes of a session.      *)

Scans(g) ==
    IF StableScan THEN {rows[g]}
    ELSE LET I == DOMAIN rows[g]
         IN  {[i \in I |-> rows[g][p[i]]] : p \in Bijection(I, I)}

\* Mutant of LoadedTribes: a capital is attached whoever owns the city.
LoadedTribesUnchecked(g) == Scans(g)

\* A capital is attached only to the tribe that owns the city.
LoadedTribes(g) ==
    {[i \in DOMAIN s |->
        [tribe   |-> s[i].tribe,
         capital |-> IF s[i].capital # NoCity /\ owner[g][s[i].capital] = s[i].tribe
                     THEN s[i].capital ELSE NoCity]] : s \in Scans(g)}

\* Tribes whose list of cities is not empty in the session.
Alive(tribes, own) ==
    {t \in {tribes[i].tribe : i \in DOMAIN tribes} : \E c \in Cities : own[c] = t}

\* saveTribe for each tribe of a session: an upsert by tribe id.  At most the last
\* tribe of a session has no row yet.
RowOf(tribes, t) ==
    tribes[CHOOSE i \in DOMAIN tribes : tribes[i].tribe = t]
HasRow(table, t) == \E i \in DOMAIN table : table[i].tribe = t
Updated(old, tribes) ==
    [i \in DOMAIN old |->
        IF HasRow(tribes, old[i].tribe) THEN RowOf(tribes, old[i].tribe) ELSE old[i]]

\* Mutant of SaveTribes: an UPDATE that never inserts once the table has rows.
SaveTribesUpdateOnly(old, tribes) ==
    IF old = << >> THEN tribes ELSE Updated(old, tribes)

SaveTribes(old, tribes) ==
    LET last == tribes[Len(tribes)]
    IN  IF HasRow(old, last.tribe) THEN Updated(old, tribes)
        ELSE Append(Updated(old, tribes), last)

\* Mutant of IsFinished: nobody alive is a finished game too.
IsFinishedAtMostOne(alive) == Cardinality(alive) <= 1

IsFinished(alive) == Cardinality(alive) = 1

\* Mutants of NextTribeId: the number of tribes; a scan that stops one short.
NextTribeIdByCount(tribes) == Len(tribes) + 1
NextTribeIdOneShort(tribes) ==
    Max({0} \cup {tribes[i].tribe : i \in 1 .. Len(tribes) - 1}) + 1

\* One more than the largest id, and 1 when only the neutral tribe is there.
NextTribeId(tribes) == Max({0} \cup {tribes[i].tribe : i \in DOMAIN tribes}) + 1

\* Mutant of NextTurn: the last tribe keeps the turn.
NextTurnStops(cur, n) == IF cur + 1 < n THEN cur + 1 ELSE cur

\* Rotation over the indices of the tribes, stepping over index 1.
NextTurn(cur, n) ==
    LET next == (cur + 1) % n
    IN  IF next = 1 THEN 2 ELSE next

\* Mutant of HasTribe: tribe 1 does not count.
HasTribeAboveOne(g, u) == seat[g][u] > 1

\* What the seat says: the selection of a user seen to have a tribe is answered
\* "already_in_game".
HasTribe(g, u) == seat[g][u] > 0

LastGame(G) == Max({0} \cup G)

Idle == [step |-> "idle"]
Handler == [step : {"added", "seated"}, game : GameIds, user : Users,
            blind : BOOLEAN,  \* getPlayerTribe's SELECT was refused
            tribes : Seq(TribeRow), city : Cities \cup {NoCity}]

-----------------------------------------------------------------------------
Init ==
    /\ games = {}
    /\ current = [g \in GameIds |-> 0]
    /\ finished = [g \in GameIds |-> FALSE]
    /\ rows = [g \in GameIds |-> << >>]
    /\ owner = [g \in GameIds |-> [c \in Cities |-> Nobody]]
    /\ seat = [g \in GameIds |-> [u \in Users |-> NoSeat]]
    /\ lastId = 0
    /\ handler = Idle
    /\ lost = {}
    /\ creates = 0
    /\ faults = 0

\* POST /games/create.  The id is last_game_id_ + 1 and nothing advances
\* last_game_id_, so a second create upserts over the same game.  C: the cities
\* of the generated map.
Create(C) ==
    LET id == lastId + 1 IN
    /\ handler = Idle
    /\ id \in GameIds
    /\ creates < MaxCreates
    /\ games' = games \cup {id}
    /\ current' = [current EXCEPT ![id] = 1]
    /\ finished' = [finished EXCEPT ![id] = FALSE]
    /\ rows' = [rows EXCEPT ![id] =
                  SaveTribes(@, <<[tribe |-> Neutral, capital |-> NoCity]>>)]
    /\ owner' = [owner EXCEPT ![id] = [c \in Cities |-> IF c \in C THEN Neutral ELSE @[c]]]
    /\ creates' = creates + 1
    /\ UNCHANGED <<seat, lastId, handler, lost, faults>>

\* POST /games/ready, /games/start, or an action that concerns no lobby state:
\* the game is loaded and saved.
Resave(g) ==
    /\ handler = Idle
    /\ g \in games
    /\ \E s \in LoadedTribes(g) : rows' = [rows EXCEPT ![g] = SaveTribes(@, s)]
    /\ finished' = [finished EXCEPT ![g] = IsFinished(Alive(rows[g], owner[g]))]
    /\ UNCHANGED <<games, current, owner, seat, lastId, handler, lost, creates, faults>>

\* An EndTurn action; the server does not ask whose it is.
EndTurn(g) ==
    /\ handler = Idle
    /\ g \in games
    /\ current[g] < Len(rows[g])
    /\ current' = [current EXCEPT ![g] = NextTurn(@, Len(rows[g]))]
    /\ \E s \in LoadedTribes(g) : rows' = [rows EXCEPT ![g] = SaveTribes(@, s)]
    /\ finished' = [finished EXCEPT ![g] = IsFinished(Alive(rows[g], owner[g]))]
    /\ UNCHANGED <<games, owner, seat, lastId, handler, lost, creates, faults>>

\* tribes[current_player] past the end of the vector, and UnitCapture (a loaded
\* city has no map) and Concede (no player list): the process dies before the
\* commit and is started again.
FatalAction(g) ==
    /\ handler = Idle
    /\ g \in games
    /\ lastId' = LastGame(games)
    /\ UNCHANGED <<db, seat, handler, lost, creates, faults>>

\* POST /games/tribe, first commit: the user gets a game_players row, or keeps the
\* one it has.  The new tribe and its capital exist only in the loaded copy.
AddPlayer(g, u, blind) ==
    /\ handler = Idle
    /\ g \in games
    /\ seat' = [seat EXCEPT ![g][u] = IF @ = NoSeat THEN NoTribe ELSE @]
    /\ \E s \in LoadedTribes(g),
          c \in {x \in Cities : owner[g][x] = Neutral} \cup {NoCity} :
         handler' = [step |-> "added", game |-> g, user |-> u, blind |-> blind, city |-> c,
                     tribes |-> Append(s, [tribe |-> NextTribeId(s), capital |-> c])]
    /\ UNCHANGED <<db, lastId, lost, creates>>

SelectBegin(g, u) ==
    /\ ~ HasTribe(g, u)
    /\ AddPlayer(g, u, FALSE)
    /\ UNCHANGED faults

\* getPlayerTribe returns -1 when its SELECT is refused, which the handler takes for
\* "no tribe yet": a seated user is seated again.
SelectBlind(g, u) ==
    /\ HasTribe(g, u)
    /\ faults < MaxFaults
    /\ faults' = faults + 1
    /\ AddPlayer(g, u, TRUE)

\* Second commit: the row names the tribe.
SelectSeat ==
    /\ handler.step = "added"
    /\ seat' = [seat EXCEPT ![handler.game][handler.user] =
                  handler.tribes[Len(handler.tribes)].tribe]
    /\ handler' = [handler EXCEPT !.step = "seated"]
    /\ UNCHANGED <<db, lastId, lost, creates, faults>>

\* Third commit: storeSession.  The neutral tribe's list still holds the city it
\* gave away, so it counts as alive in this save.
SelectStore ==
    /\ handler.step = "seated"
    /\ LET g  == handler.game
           ts == handler.tribes
           me == ts[Len(ts)].tribe
           mine == IF handler.city = NoCity THEN {} ELSE {me}
       IN  /\ rows' = [rows EXCEPT ![g] = SaveTribes(@, ts)]
           /\ owner' = [owner EXCEPT ![g] =
                          [c \in Cities |-> IF c = handler.city THEN me ELSE @[c]]]
           /\ finished' = [finished EXCEPT ![g] =
                             IsFinished(Alive(ts, owner[g]) \cup mine)]
    /\ handler' = Idle
    /\ UNCHANGED <<games, current, seat, lastId, lost, creates, faults>>

\* The user of a selection whose second commit is done and whose third will not be.
Unstored ==
    IF handler.step = "seated" THEN {<<handler.game, handler.user>>} ELSE {}

\* The database refuses the next commit of a selection.  save() reports nothing,
\* so after the second commit the user is still told "tribe_selected".
SelectRefused ==
    /\ handler # Idle
    /\ faults < MaxFaults
    /\ faults' = faults + 1
    /\ lost' = lost \cup Unstored
    /\ handler' = Idle
    /\ UNCHANGED <<db, seat, lastId, creates>>

\* The process dies and is started again; connect() reads MAX(id).
Crash ==
    /\ faults < MaxFaults
    /\ faults' = faults + 1
    /\ lost' = lost \cup Unstored
    /\ handler' = Idle
    /\ lastId' = LastGame(games)
    /\ UNCHANGED <<db, seat, creates>>

Next ==
    \/ \E C \in SUBSET Cities : Create(C)
    \/ \E g \in GameIds : Resave(g) \/ EndTurn(g) \/ FatalAction(g)
    \/ \E g \in GameIds, u \in Users : SelectBegin(g, u) \/ SelectBlind(g, u)
    \/ SelectSeat
    \/ SelectStore
    \/ SelectRefused
    \/ Crash

Spec == Init /\ [][Next]_vars

\* The event loop finishes a handler it has begun; players keep ending turns.
FairSpec ==
    /\ Spec
    /\ WF_vars(SelectSeat) /\ WF_vars(SelectStore)
    /\ \A g \in GameIds : WF_vars(EndTurn(g))
-----------------------------------------------------------------------------
(* Properties                                                              *)

\* Every column and field holds a value of its kind.
TypeOK ==
    /\ games \in SUBSET GameIds
    /\ current \in [GameIds -> Nat]
    /\ finished \in [GameIds -> BOOLEAN]
    /\ rows \in [GameIds -> Seq(TribeRow)]
    /\ owner \in [GameIds -> [Cities -> TribeId \cup {Nobody}]]
    /\ seat \in [GameIds -> [Users -> Nat \cup {NoSeat}]]
    /\ lastId \in 0 .. MaxGame
    /\ handler \in {Idle} \cup Handler
    /\ lost \in SUBSET (GameIds \X Users)
    /\ creates \in 0 .. MaxCreates
    /\ faults \in 0 .. MaxFaults

\* current_player indexes the tribes that load() returns, except in the two
\* states rotation itself walks into: a game nobody has joined (index 1 of 1)
\* and a game with one player after two turns (index 2 of 2).  Game::getTribe
\* does not check the index, so an action in any other such state is a bug.
TurnInRange ==
    \A g \in games :
        \/ current[g] < Len(rows[g])
        \/ current[g] = Len(rows[g]) /\ Len(rows[g]) \in {1, 2}

\* The row inserted at place i, counted from 0, is that of tribe i, and the neutral
\* tribe is at 0, in whatever order rows were read before the ids were given: when
\* rows come back in insertion order, an index is an id.  The client compares
\* current_player, an index, with its tribe id, and Game::getTribe is called with ids:
\* both rely on this.
IndexIsTribe ==
    \A g \in GameIds : \A i \in DOMAIN rows[g] :
        rows[g][i].tribe = IF i = 1 THEN Neutral ELSE i - 1

\* The turn names the tribe that is to move: the index is within the list, and the
\* row at an index is the tribe of that number.
TurnNamesItsTribe == TurnInRange /\ IndexIsTribe

\* Two users of a game play the same tribe only if the selection of one of them
\* was seated and never stored: its id was handed out again.
SharedTribeNeedsALostStore ==
    \A g \in GameIds : \A u, v \in Users :
        u # v /\ seat[g][u] > 0 /\ seat[g][u] = seat[g][v]
            => {<<g, u>>, <<g, v>>} \cap lost # {}

\* A seated user's tribe has a row, unless its selection is still running or
\* its store was lost.
SeatHasTribe ==
    \A g \in GameIds, u \in Users :
        seat[g][u] > 0 =>
            \/ \E i \in DOMAIN rows[g] : rows[g][i].tribe = seat[g][u]
            \/ <<g, u>> \in lost
            \/ handler.step = "seated" /\ handler.game = g /\ handler.user = u

\* No city is the capital of two tribes, and a capital belongs to its tribe or,
\* after a second create has taken it back, to the neutral tribe; never to a
\* rival.
CapitalsApart ==
    \A g \in GameIds : \A i, j \in DOMAIN rows[g] :
        rows[g][i].capital # NoCity =>
            /\ owner[g][rows[g][i].capital] \in {rows[g][i].tribe, Neutral}
            /\ rows[g][i].capital = rows[g][j].capital => i = j

\* A finished game has one owner left on the map; games_list hides such games.
\* (The owner may be the neutral tribe: a game readied before anyone selected a
\* tribe is finished.)
FinishedMeansOneOwner ==
    \A g \in games :
        finished[g] => Cardinality({owner[g][c] : c \in Cities} \ {Nobody}) = 1

\* A user keeps the tribe it was given, through crashes, retries of the selection and
\* a second create of the same game.  Only one thing takes it away: a selection whose
\* own read of the seat was refused, when its second commit seats the user again; the
\* tribe it then gets has no row yet, so it is nobody's stored tribe.
TribeIsKept ==
    [][\A g \in GameIds, u \in Users : seat[g][u] > 0 =>
          \/ seat'[g][u] = seat[g][u]
          \/ /\ handler.step = "added" /\ handler.blind
             /\ handler.game = g /\ handler.user = u
             /\ ~ HasRow(rows[g], seat'[g][u])]_vars

\* Index 1, the first player to select a tribe, gets the turn back only when the
\* newest game is created a second time.
FirstPlayerWaitsForReset ==
    [][\A g \in games : current[g] # 1 /\ current'[g] = 1
            => g = LastGame(games) /\ creates' = creates + 1]_vars

\* While players end turns, every tribe but the first to join gets the turn again
\* and again in a game of two or more tribes.  (A user seated again adds a tribe.)
TurnComesRound ==
    \A g \in GameIds : \A i \in 2 .. Cardinality(Users) + MaxFaults :
        Len(rows[g]) > i /\ Len(rows[g]) > 2 ~> current[g] = i

\* The turn goes round the tribes for ever, and passes over the first player.
TurnsGoRound == TurnComesRound /\ FirstPlayerWaitsForReset
=============================================================================
