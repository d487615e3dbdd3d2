------------------------------- MODULE Client -------------------------------
(* One Qt client (GameClient and the handlers of main.qml), logged in, between *)
(* its user, the server and the network.                                       *)
(*                                                                             *)
(* QNetworkAccessManager sends on several connections and reports answers as   *)
(* they come, so `net' is a bag: requests the server has not handled, answers  *)
(* the client has not handled, and single-shot timers.  Anything but a timer   *)
(* may get lost.  An error status, an action that throws (the server then      *)
(* sends nothing) and a dead connection leave the client as it is.             *)
(*                                                                             *)
(* The server is reduced to what answers depend on: which games exist, which   *)
(* tribe this user has in each and whose turn it is.  The other clients end    *)
(* any turn, this user's too: the server does not ask whose it is.  Its reads  *)
(* of the user's tribe succeed; what a refused one does is in Lobby.           *)
EXTENDS Integers, Bags

CONSTANTS
    MaxGame,    \* games are numbered from 1, game 1 exists from the start
    MaxTribe,   \* tribes of players in a game, next to the neutral tribe 0
    Nations,    \* indices offered by NationSelectionDialog
    MaxNet      \* bound: messages and timers under way

ASSUME ClientConstants ==
    /\ MaxGame \in Nat \ {0} /\ MaxTribe \in Nat \ {0, 1} /\ MaxNet \in Nat \ {0}
    /\ Nations \subseteq Nat

VARIABLES
    client,   \* fields of GameClient; shown is the game the tiles are of
    window,   \* which parts of main.qml are open
    net,      \* messages and timers under way
    games,    \* server: existing games
    tribe,    \* server: the user's tribe in each game, 0 before the selection
    turn,     \* server: current_player of each game
    stale,    \* history: a message of a game since left was handled
    spent     \* history: this user's turn ended after the shown state was served

vars == <<client, window, net, games, tribe, turn, stale, spent>>
server == <<games, tribe, turn>>

Games == 1 .. MaxGame
NoGame == -1

Request == {"create", "join", "select", "state", "action"}
Answer == {"entered", "selected", "stated", "acted"}
Timer == {"later"}

\* late and spent are history, too: sent before the client left a game; a state
\* from, or an action for, a turn of this user's that somebody has ended since.
Message == [op : Request \cup Answer \cup Timer, game : Games \cup {NoGame},
            tribe : 0 .. MaxTribe, turn : 0 .. MaxTribe,
            late : BOOLEAN, spent : BOOLEAN]

Msg(op, g) == [op |-> op, game |-> g, tribe |-> 0, turn |-> 0,
               late |-> FALSE, spent |-> FALSE]

\* What the program keeps of a game, and the parts of its window.
Fields == [gameId : Games \cup {NoGame}, hasJoined : BOOLEAN,
           myTribe : Nations \cup 0 .. MaxTribe, confirmed : BOOLEAN,
           currentPlayer : 0 .. MaxTribe, shown : Games \cup {NoGame},
           polling : BOOLEAN]
Parts == [selection : BOOLEAN, nation : BOOLEAN, content : BOOLEAN]

\* The state in which a client starts and to which it returns from a game.
Out == [client |-> [gameId |-> NoGame, hasJoined |-> FALSE, myTribe |-> 0,
                    confirmed |-> FALSE, currentPlayer |-> 1, shown |-> NoGame,
                    polling |-> FALSE],
        window |-> [selection |-> TRUE, nation |-> FALSE, content |-> FALSE]]
-----------------------------------------------------------------------------
Plus(b, m) == b (+) SetToBag({m})
Less(b, m) == b (-) SetToBag({m})
UnderWay == BagToSet(net)

\* Room for one more request.
Room == BagCardinality(net) < MaxNet

\* Mutant of IsMyTurn: the default turn of a client without a tribe.
IsMyTurnByTribe(c) == c.myTribe > 0

IsMyTurn(c) == c.currentPlayer = c.myTribe /\ c.myTribe > 0

Fetch(c, b) == IF c.gameId > 0 THEN Plus(b, Msg("state", c.gameId)) ELSE b

\* Nothing happens if the timer runs; else it is started and fetches at once.
StartPolling(c, b) ==
    IF c.polling THEN /\ client' = c
                      /\ net' = b
                 ELSE /\ client' = [c EXCEPT !.polling = TRUE]
                      /\ net' = Fetch(c, b)

\* A tribe_id in an answer is believed; the first one shows the game and polls.
Confirm(c, t, b) ==
    LET known == [c EXCEPT !.myTribe = t, !.confirmed = TRUE]
    IN  IF c.confirmed
        THEN /\ client' = known
             /\ net' = b
             /\ UNCHANGED window
        ELSE /\ StartPolling(known, b)
             /\ window' = [window EXCEPT !.content = TRUE]

\* What the user can reach: a modal dialog keeps clicks from the game below it.
Reachable(part) ==
    /\ window[part]
    /\ part = "content" => ~window.selection /\ ~window.nation

\* Mutant of NextTurn: without wrap.
NextTurnUnwrapped(cur) == cur + 1

\* Rotation over the indices of the tribes, stepping over index 1.
NextTurn(cur) ==
    LET next == (cur + 1) % (MaxTribe + 1)
    IN  IF next = 1 THEN 2 ELSE next
-----------------------------------------------------------------------------
(* The user *)

JoinGame(g) ==
    /\ Reachable("selection") /\ Room
    /\ ~client.hasJoined
    /\ client' = [client EXCEPT !.gameId = g]
    /\ net' = Plus(net, Msg("join", g))
    /\ UNCHANGED <<window, server, stale, spent>>

CreateGame ==
    /\ Reachable("selection") /\ Room
    /\ ~client.hasJoined
    /\ net' = Plus(net, Msg("create", NoGame))
    /\ UNCHANGED <<client, window, server, stale, spent>>

\* The index of the nation is taken for the tribe until the server answers.
SelectTribe(nation) ==
    /\ Reachable("nation") /\ Room
    /\ window' = [window EXCEPT !.nation = FALSE]
    /\ IF client.gameId > 0
       THEN /\ client' = [client EXCEPT !.myTribe = nation]
            /\ net' = Plus(net, Msg("select", client.gameId))
       ELSE UNCHANGED <<client, net>>
    /\ UNCHANGED <<server, stale, spent>>

\* Moving, hiring, ending the turn...: the buttons and the map ask for a confirmed
\* tribe as well as for the turn.
SendAction ==
    /\ Reachable("content") /\ Room
    /\ client.confirmed /\ IsMyTurn(client)
    /\ net' = Plus(net, [Msg("action", client.gameId) EXCEPT
                           !.spent = spent \/ stale \/ client.shown # client.gameId])
    /\ UNCHANGED <<client, window, server, stale, spent>>

\* Offered for three seconds after any error.
Reconnect ==
    /\ Reachable("content") /\ Room
    /\ net' = Fetch(client, net)
    /\ UNCHANGED <<client, window, server, stale, spent>>

\* Escape or a click beside a dialog closes it (Qt's default); nothing reopens it.
Dismiss ==
    /\ window.selection \/ window.nation
    /\ window' = [window EXCEPT !.selection = FALSE, !.nation = FALSE]
    /\ UNCHANGED <<client, net, server, stale, spent>>

\* Mutant of Reset: the tiles stay.
ResetWithoutTiles(c) == [Out.client EXCEPT !.shown = c.shown]

\* stopPolling and resetGameState.
Reset(c) == Out.client

\* Requests under way are not aborted.
LeaveGame ==
    /\ Reachable("content")
    /\ client' = Reset(client)
    /\ window' = [window EXCEPT !.content = FALSE, !.selection = TRUE]
    /\ net' = LET Left(m) == [m EXCEPT !.late = TRUE] IN BagOfAll(Left, net)
    /\ stale' = FALSE
    /\ spent' = FALSE
    /\ UNCHANGED server

PollState ==
    /\ client.polling /\ Room
    /\ net' = Fetch(client, net)
    /\ UNCHANGED <<client, window, server, stale, spent>>
-----------------------------------------------------------------------------
(* onReplyFinished, by the URL of the request, and the single-shot timer *)

Handled(m) ==
    /\ stale' = (stale \/ m.late)
    /\ UNCHANGED server

\* Mutant of MayEnter: any answer to a create or a join moves the client.
MayEnterAgain(c) == TRUE

\* Of several creates and joins under way the first answer decides.
MayEnter(c) == ~c.hasJoined

\* Answers to create and join are handled alike.
Entered(m) ==
    /\ m.op = "entered"
    /\ Handled(m)
    /\ IF MayEnter(client)
       THEN LET c == [client EXCEPT !.gameId = m.game, !.hasJoined = TRUE]
            IN  /\ window' = [window EXCEPT !.selection = FALSE,
                                            !.nation = @ \/ c.myTribe <= 0]
                /\ IF c.myTribe > 0 THEN StartPolling(c, Less(net, m))
                                    ELSE /\ client' = c
                                         /\ net' = Less(net, m)
       ELSE /\ net' = Less(net, m)
            /\ UNCHANGED <<client, window>>
    /\ UNCHANGED spent

Selected(m) ==
    /\ m.op = "selected"
    /\ Handled(m)
    /\ Confirm(client, m.tribe, Less(net, m))
    /\ UNCHANGED spent

\* Mutant of Parsed: a first state (tiles were empty) is taken, later ones not.
ParsedOnce(c, m) ==
    IF c.shown = NoGame THEN [c EXCEPT !.currentPlayer = m.turn, !.shown = m.game] ELSE c

\* parseState looks at neither the game nor the age of what it is given.
Parsed(c, m) == [c EXCEPT !.currentPlayer = m.turn, !.shown = m.game]

Stated(m) ==
    /\ m.op = "stated"
    /\ Handled(m)
    /\ Confirm(Parsed(client, m), m.tribe, Less(net, m))
    /\ spent' = m.spent

\* The state is fetched 100 ms later.
Acted(m) ==
    /\ m.op = "acted"
    /\ Handled(m)
    /\ net' = Plus(Less(net, m), [m EXCEPT !.op = "later"])
    /\ UNCHANGED <<client, window, spent>>

FetchLater(m) ==
    /\ m.op = "later"
    /\ Handled(m)
    /\ net' = Fetch(client, Less(net, m))
    /\ UNCHANGED <<client, window, spent>>

Receive(m) == Entered(m) \/ Selected(m) \/ Stated(m) \/ Acted(m) \/ FetchLater(m)
-----------------------------------------------------------------------------
(* The server and the network *)

\* An answer takes its request's place and its age.  Requests about games that
\* do not exist are answered with an error, so only Lose applies to them.
Answered(m, answer) == net' = Plus(Less(net, m), [answer EXCEPT !.late = m.late])

ServeCreate(m) ==
    /\ m.op = "create"
    /\ \E g \in Games :
         /\ games = 1 .. g - 1
         /\ games' = games \cup {g}
         /\ Answered(m, Msg("entered", g))
    /\ UNCHANGED <<client, window, tribe, turn, stale, spent>>

ServeJoin(m) ==
    /\ m.op = "join"
    /\ m.game \in games
    /\ Answered(m, Msg("entered", m.game))
    /\ UNCHANGED <<client, window, server, stale, spent>>

\* The first selection gives a tribe, which later ones are answered with (a selection
\* whose read of the seat is refused gives another one: SelectBlind in Lobby).
ServeSelect(m) ==
    /\ m.op = "select"
    /\ m.game \in games
    /\ \E t \in 1 .. MaxTribe :
         /\ tribe[m.game] \in {0, t}
         /\ tribe' = [tribe EXCEPT ![m.game] = t]
         /\ Answered(m, [Msg("selected", m.game) EXCEPT !.tribe = t])
    /\ UNCHANGED <<client, window, games, turn, stale, spent>>

\* Only to a member of the game.  (A member that a failed selection left without a
\* tribe, and a state without a tribe because its read was refused, are not modelled.)
ServeState(m) ==
    /\ m.op = "state"
    /\ tribe[m.game] > 0
    /\ Answered(m, [Msg("stated", m.game) EXCEPT !.tribe = tribe[m.game],
                                                !.turn = turn[m.game]])
    /\ UNCHANGED <<client, window, server, stale, spent>>

ServeAction(m) ==
    /\ m.op = "action"
    /\ m.game \in games
    /\ Answered(m, Msg("acted", m.game))
    /\ UNCHANGED <<client, window, server, stale, spent>>

\* The turn of a game ends, whoever asked for it.  If it was this user's, views and
\* actions that take it to be so are spent.
TurnEnds(g) ==
    /\ turn' = [turn EXCEPT ![g] = NextTurn(@)]
    /\ spent' = (spent \/ (client.shown = g /\ turn[g] = tribe[g]))
    /\ UNCHANGED <<client, window, games, tribe, stale>>

Spend(x, g) ==
    [x EXCEPT !.spent = @ \/ /\ x.op \in {"stated", "action"}
                             /\ x.game = g /\ turn[g] = tribe[g]]
Spending(b, g) == LET SpendInG(x) == Spend(x, g) IN BagOfAll(SpendInG, b)

\* An action that ends the turn.
ServeEndTurn(m) ==
    /\ m.op = "action"
    /\ m.game \in games
    /\ TurnEnds(m.game)
    /\ net' = Plus(Spending(Less(net, m), m.game),
                   [Msg("acted", m.game) EXCEPT !.late = m.late])

Serve(m) ==
    \/ ServeCreate(m) \/ ServeJoin(m) \/ ServeSelect(m)
    \/ ServeState(m) \/ ServeAction(m) \/ ServeEndTurn(m)

Lose(m) ==
    /\ m.op \notin Timer
    /\ net' = Less(net, m)
    /\ UNCHANGED <<client, window, server, stale, spent>>

\* Another client ends a turn, its own or not.
OthersEndTurn(g) ==
    /\ g \in games
    /\ TurnEnds(g)
    /\ net' = Spending(net, g)
-----------------------------------------------------------------------------
Init ==
    /\ client = Out.client /\ window = Out.window
    /\ net = EmptyBag
    /\ games = {1}
    /\ tribe = [g \in Games |-> 0]
    /\ turn = [g \in Games |-> 1]
    /\ stale = FALSE /\ spent = FALSE

Next ==
    \/ \E g \in Games : JoinGame(g) \/ OthersEndTurn(g)
    \/ CreateGame \/ SendAction \/ Reconnect \/ Dismiss \/ LeaveGame \/ PollState
    \/ \E nation \in Nations : SelectTribe(nation)
    \/ \E m \in UnderWay : Receive(m) \/ Serve(m) \/ Lose(m)

Spec == Init /\ [][Next]_vars

\* A state that the server would still answer reaches the client.
ReceiveCurrent ==
    \E m \in UnderWay : /\ m.op = "stated" /\ ~m.late
                        /\ m.turn = turn[m.game]
                        /\ Stated(m)

\* The timer fires, nothing stays under way for ever, and of polls that are
\* repeated for ever not all get lost.
FairSpec ==
    /\ Spec
    /\ WF_vars(PollState)
    /\ SF_vars(\E m \in UnderWay : ServeState(m))
    /\ SF_vars(ReceiveCurrent)
    /\ WF_vars(\E m \in UnderWay : Receive(m) \/ Serve(m) \/ Lose(m))
-----------------------------------------------------------------------------
\* Types of the variables, those of the messages under way apart.
Typed ==
    /\ client \in Fields /\ window \in Parts
    /\ games \subseteq Games
    /\ tribe \in [Games -> 0 .. MaxTribe] /\ turn \in [Games -> 0 .. MaxTribe]
    /\ stale \in BOOLEAN /\ spent \in BOOLEAN

\* The state is typed, whatever messages were lost, late or crossed.
TypeOK == Typed /\ UnderWay \subseteq Message

\* Until an answer overtakes the departure from its game (onReplyFinished has no
\* check), the tiles shown are of the game the client is in, its tribe is the one
\* the server gave it there, and it polls exactly while it shows a game.
ShowsItsGame ==
    stale \/ /\ client.shown \in {NoGame, client.gameId}
             /\ client.confirmed => /\ client.hasJoined
                                    /\ client.myTribe = tribe[client.gameId]
             /\ client.polling = client.confirmed
             /\ window.content = client.confirmed

\* The turn the client shows as its own is its own unless that turn was ended, by this
\* client or by another, after the state was served, and every action under way will be
\* taken in a turn of its own, unless such an end overtakes it or it was sent from such
\* a view.  The server checks no turn, so a second click, the second click of another
\* player, a view of another game or the default view (turn 1) acts in the turn of
\* somebody else; but a view of this game's turn is never wrong for another reason.
ActsInItsTurn ==
    /\ (/\ client.confirmed /\ IsMyTurn(client)
        /\ client.shown = client.gameId /\ ~stale /\ ~spent)
          => turn[client.gameId] = client.myTribe
    /\ \A m \in UnderWay :
         m.op = "action" /\ ~m.spent => turn[m.game] = tribe[m.game]

\* No answer, however late or repeated, moves a client from one game to another.
StaysInItsGame ==
    [][client.hasJoined /\ client'.hasJoined => client'.gameId = client.gameId]_vars

\* The turn has come to a client that shows its game.
OnTurn == /\ client.confirmed /\ client.gameId \in games
          /\ turn[client.gameId] = tribe[client.gameId]

\* It learns so, lost and outdated answers notwithstanding, unless it leaves or an
\* end of its turn was under way: whoever is confirmed polls, and states are parsed.
TurnIsSeen == (OnTurn /\ ~stale) ~> (IsMyTurn(client) \/ ~OnTurn)
=============================================================================
