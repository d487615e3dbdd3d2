---------------------------- MODULE ClientProofs ----------------------------
(***************************************************************************)
(* What a client shows is its game and its turn (Client), and what its     *)
(* menu offers the server can make of what a tribe learned (Hiring), for   *)
(* any number of games, messages, technologies and states under way.  The  *)
(* two modules share no variable; the proofs of each stand on their own.   *)
(***************************************************************************)
EXTENDS Client, Hiring, TLAPS

-----------------------------------------------------------------------------
(* Bags of messages                                                        *)

LEMMA OneMore == ASSUME NEW b, NEW m PROVE BagToSet(Plus(b, m)) = BagToSet(b) \cup {m}
BY DEF Plus, BagToSet, (+), SetToBag

LEMMA OneLess == ASSUME NEW b, NEW m PROVE BagToSet(Less(b, m)) \subseteq BagToSet(b)
BY DEF Less, BagToSet, (-), SetToBag

\* The state that a client asks for.
Wanted(c) == {m \in {Msg("state", c.gameId)} : c.gameId > 0}

LEMMA Fetched ==
    ASSUME NEW c, NEW b
    PROVE  BagToSet(Fetch(c, b)) = BagToSet(b) \cup Wanted(c)
BY OneMore DEF Fetch, Wanted

\* A polling timer that starts fetches at once; one that runs goes on.
LEMMA Started ==
    ASSUME NEW c, NEW b, StartPolling(c, b)
    PROVE  /\ UnderWay' \subseteq BagToSet(b) \cup Wanted(c)
           /\ client' \in {c, [c EXCEPT !.polling = TRUE]}
           /\ c.polling => client' = c
           /\ ~c.polling => client' = [c EXCEPT !.polling = TRUE]
BY Fetched DEF StartPolling, UnderWay

LEMMA MsgFacts ==
    ASSUME NEW op \in Request \cup Answer, NEW g \in Games \cup {NoGame}
    PROVE  /\ Msg(op, g) \in Message
           /\ Msg(op, g).op = op /\ Msg(op, g).game = g
           /\ Msg(op, g).tribe = 0 /\ Msg(op, g).turn = 0
           /\ ~Msg(op, g).late /\ ~Msg(op, g).spent
BY ClientConstants DEF Msg, Message

LEMMA GameNumbers == \A g \in Games : g > 0 /\ g # NoGame
BY ClientConstants DEF Games, NoGame

LEMMA NextTurnIsTurn == \A cur \in 0 .. MaxTribe : NextTurn(cur) \in 0 .. MaxTribe
<1> SUFFICES ASSUME NEW cur \in 0 .. MaxTribe
             PROVE  NextTurn(cur) \in 0 .. MaxTribe
  OBVIOUS
<1> DEFINE next == (cur + 1) % (MaxTribe + 1)
<1>1. next \in 0 .. MaxTribe
  BY ClientConstants
<1>2. 2 \in 0 .. MaxTribe
  BY ClientConstants
<1> QED BY <1>1, <1>2 DEF NextTurn

-----------------------------------------------------------------------------
(* The inductive invariant                                                 *)

\* What a client sends and gets once it has joined a game.
Playing == {"select", "selected", "state", "stated", "action", "acted", "later"}

\* An answer names the tribe the user still has; a state that calls it to its turn,
\* and an action it has sent, are of a turn that has not ended or are marked as spent.
TellsTruth(m) ==
    /\ m.op \notin {"create", "action"} => m.game \in Games
    /\ m.op \in {"selected", "stated"} => m.tribe = tribe[m.game] /\ m.tribe > 0
    /\ m.op = "stated" /\ ~m.spent /\ m.turn = m.tribe => turn[m.game] = m.tribe
    /\ m.op = "action" /\ ~m.spent => /\ m.game \in Games
                                      /\ tribe[m.game] > 0
                                      /\ turn[m.game] = tribe[m.game]

\* What was sent since the client last left a game is about the game it has joined,
\* and about none before it has.
OfThisGame(m) == ~m.late /\ m.op \in Playing =>
                    client.hasJoined /\ ~window.nation /\ m.game = client.gameId

Believable(m) == m \in Message /\ TellsTruth(m) /\ (~stale => OfThisGame(m))

\* The same for the state that was parsed last.
ViewIsCurrent ==
    client.shown \in Games =>
        /\ tribe[client.shown] > 0
        /\ ~spent /\ client.currentPlayer = tribe[client.shown]
             => turn[client.shown] = tribe[client.shown]

\* Before the client has joined a game it knows nothing of one.
Outside ==
    ~client.hasJoined => /\ client.myTribe = 0 /\ ~client.confirmed
                         /\ client.shown = NoGame /\ ~window.nation

\* Afterwards tribe, tiles, timer and window belong together.  A client that chooses a
\* nation has no playing message under way (OfThisGame), so nothing confirms it before.
Inside ==
    /\ client.hasJoined => client.gameId \in Games
    /\ client.confirmed => /\ client.hasJoined /\ ~window.nation
                           /\ client.myTribe = tribe[client.gameId]
                           /\ client.myTribe > 0
    /\ client.shown \in {NoGame, client.gameId}
    /\ client.polling = client.confirmed
    /\ window.content = client.confirmed

\* All this until a message from before the last departure is handled.
AtHome == ~stale => Outside /\ Inside

ClientInv == /\ Typed /\ ViewIsCurrent /\ AtHome
             /\ \A m \in UnderWay : Believable(m)

\* What a client starts with, and comes back to when it leaves a game.
LEMMA OutIsTyped ==
    /\ Out.client \in Fields
    /\ Out.window \in Parts
<1>1. 0 \in 0 .. MaxTribe /\ 1 \in 0 .. MaxTribe
  BY ClientConstants
<1> QED BY <1>1 DEF Out, Fields, Parts

-----------------------------------------------------------------------------
(* The user                                                                *)

\* Nothing a message is judged by has changed, but perhaps for the worse.
SameView == /\ UNCHANGED <<tribe, turn>>
            /\ stale => stale'
            /\ client'.hasJoined = client.hasJoined
            /\ client'.gameId = client.gameId
            /\ window'.nation = window.nation

\* Messages under way stay believable, so only new ones need a look.
LEMMA OnlyAdds ==
    ASSUME ClientInv, SameView, NEW new, UnderWay' \subseteq UnderWay \cup new,
           \A m \in new : Believable(m) \/ Believable(m)'
    PROVE  (\A m \in UnderWay : Believable(m))'
<1> SUFFICES ASSUME NEW m \in UnderWay' PROVE Believable(m)'
  OBVIOUS
<1>1. Believable(m) \/ Believable(m)'
  BY DEF ClientInv
<1> QED BY <1>1 DEF Believable, TellsTruth, OfThisGame, SameView

\* A client asks for the state of its own game.
LEMMA WantedIsBelievable ==
    ASSUME ClientInv, client'.gameId = client.gameId,
           ~stale' => client'.hasJoined /\ ~window'.nation
    PROVE  \A m \in Wanted(client) : Believable(m)'
<1> SUFFICES ASSUME client.gameId > 0 PROVE Believable(Msg("state", client.gameId))'
  BY DEF Wanted
<1>1. client.gameId \in Games
  BY DEF ClientInv, Typed, NoGame, Fields, Parts
<1> QED BY <1>1, MsgFacts DEF Believable, TellsTruth, OfThisGame, Request

LEMMA ClientStarts == Init => ClientInv
<1> SUFFICES ASSUME Init PROVE ClientInv
  OBVIOUS
<1>1. UnderWay = {}
  BY DEF Init, UnderWay, EmptyBag, BagToSet, SetToBag
<1>2. Typed
  <2>1. 0 \in 0 .. MaxTribe /\ 1 \in 0 .. MaxTribe /\ {1} \subseteq Games
    BY ClientConstants DEF Games
  <2> QED BY <2>1, OutIsTyped DEF Init, Typed
<1>3. ViewIsCurrent /\ AtHome
  BY GameNumbers DEF Init, Out, ViewIsCurrent, AtHome, Outside, Inside
<1> QED BY <1>1, <1>2, <1>3 DEF ClientInv

LEMMA JoinGameIInv == ASSUME ClientInv, NEW g \in Games, JoinGame(g) PROVE ClientInv'
<1>1. UnderWay' = UnderWay \cup {Msg("join", g)}
  BY OneMore DEF JoinGame, UnderWay
<1>2. Typed'
  BY DEF ClientInv, Typed, JoinGame, server, Fields, Parts
<1>3. ViewIsCurrent' /\ AtHome'
  BY DEF ClientInv, Typed, ViewIsCurrent, AtHome, Outside, Inside, JoinGame, server
<1>4. ASSUME NEW m \in UnderWay' PROVE Believable(m)'
  <2>1. CASE m \in UnderWay
    BY <2>1 DEF ClientInv, Typed, Believable, TellsTruth, OfThisGame, JoinGame, server
  <2>2. CASE m = Msg("join", g)
    BY <2>2, MsgFacts DEF Believable, TellsTruth, OfThisGame, Playing, JoinGame, server,
                          Request, Answer
  <2> QED BY <1>1, <2>1, <2>2
<1> QED BY <1>2, <1>3, <1>4 DEF ClientInv

LEMMA CreateGameIInv == ASSUME ClientInv, CreateGame PROVE ClientInv'
<1>1. UnderWay' = UnderWay \cup {Msg("create", NoGame)}
  BY OneMore DEF CreateGame, UnderWay
<1>2. Typed' /\ ViewIsCurrent' /\ AtHome'
  BY DEF ClientInv, Typed, ViewIsCurrent, AtHome, Outside, Inside, CreateGame, server
<1>3. Believable(Msg("create", NoGame))
  BY MsgFacts DEF Believable, TellsTruth, OfThisGame, Playing, Request, Answer
<1>4. SameView
  BY DEF SameView, CreateGame, server
<1> QED BY <1>1, <1>2, <1>3, <1>4, OnlyAdds DEF ClientInv

LEMMA SelectTribeIInv ==
    ASSUME ClientInv, NEW n \in Nations, SelectTribe(n)
    PROVE  ClientInv'
<1>1. UnderWay' \subseteq UnderWay \cup {Msg("select", client.gameId)}
  BY OneMore DEF SelectTribe, UnderWay
<1>2. client.gameId \notin Games => UnderWay' = UnderWay
  BY GameNumbers DEF ClientInv, Typed, SelectTribe, UnderWay, NoGame, Fields, Parts
<1>3. Typed'
  BY DEF ClientInv, Typed, SelectTribe, server, Fields, Parts
<1>4. ViewIsCurrent' /\ AtHome'
  BY GameNumbers DEF ClientInv, Typed, ViewIsCurrent, AtHome, Outside, Inside, SelectTribe,
     server, Reachable, Fields, Parts
<1>5. ASSUME NEW m \in UnderWay' PROVE Believable(m)'
  <2>1. CASE m \in UnderWay
    BY <2>1 DEF ClientInv, Typed, Believable, TellsTruth, OfThisGame, SelectTribe, server,
       Fields, Parts
  <2>2. CASE m = Msg("select", client.gameId) /\ client.gameId \in Games
    <3>1. /\ m \in Message /\ m.op = "select" /\ m.game = client.gameId
          /\ client.gameId > 0
      BY <2>2, MsgFacts, GameNumbers DEF Request
    <3>2. ~stale => client.hasJoined
      BY DEF ClientInv, AtHome, Outside, SelectTribe, Reachable
    <3>3. /\ stale' = stale /\ ~window'.nation
          /\ client'.hasJoined = client.hasJoined /\ client'.gameId = client.gameId
      BY DEF ClientInv, Typed, SelectTribe, Fields, Parts
    <3> QED BY <2>2, <3>1, <3>2, <3>3 DEF Believable, TellsTruth, OfThisGame
  <2> QED BY <1>1, <1>2, <2>1, <2>2
<1> QED BY <1>3, <1>4, <1>5 DEF ClientInv

LEMMA SendActionIInv == ASSUME ClientInv, SendAction PROVE ClientInv'
<1> DEFINE doubtful == spent \/ stale \/ client.shown # client.gameId
           act == [Msg("action", client.gameId) EXCEPT !.spent = doubtful]
<1>1. UnderWay' = UnderWay \cup {act}
  BY OneMore DEF SendAction, UnderWay
<1>2. Typed' /\ ViewIsCurrent' /\ AtHome'
  BY DEF ClientInv, Typed, ViewIsCurrent, AtHome, Outside, Inside, SendAction, server
<1>3. /\ act \in Message /\ act.op = "action" /\ act.game = client.gameId
      /\ act.spent = doubtful
  <2>1. client.gameId \in Games \cup {NoGame}
    BY DEF ClientInv, Typed, Fields, Parts
  <2>2. Msg("action", client.gameId) \in Message
    BY <2>1, MsgFacts DEF Request
  <2>3. doubtful \in BOOLEAN
    OBVIOUS
  <2> HIDE DEF doubtful
  <2>4. Msg("action", client.gameId).op = "action"
        /\ Msg("action", client.gameId).game = client.gameId
    BY <2>1, MsgFacts DEF Request
  <2> QED BY <2>2, <2>3, <2>4 DEF Message
<1> HIDE DEF act, doubtful
<1>4. Believable(act)
  <2>1. ASSUME ~act.spent
        PROVE  /\ act.game \in Games /\ tribe[act.game] > 0
               /\ turn[act.game] = tribe[act.game]
    <3>1. ~spent /\ ~stale /\ client.shown = client.gameId
      BY <1>3, <2>1 DEF doubtful
    <3>2. client.gameId \in Games /\ client.myTribe = tribe[client.gameId]
      BY <3>1 DEF ClientInv, AtHome, Inside, SendAction
    <3> QED BY <1>3, <3>1, <3>2 DEF ClientInv, ViewIsCurrent, SendAction, IsMyTurn
  <2>2. ~stale => OfThisGame(act)
    BY <1>3 DEF OfThisGame, ClientInv, AtHome, Inside, SendAction
  <2> QED BY <1>3, <2>1, <2>2 DEF Believable, TellsTruth
<1>5. SameView
  BY DEF SameView, SendAction, server
<1> QED BY <1>1, <1>2, <1>4, <1>5, OnlyAdds DEF ClientInv

LEMMA PollIInv == ASSUME ClientInv, Reconnect \/ PollState PROVE ClientInv'
<1>1. UnderWay' = UnderWay \cup Wanted(client)
  BY Fetched DEF Reconnect, PollState, UnderWay
<1>2. Typed' /\ ViewIsCurrent' /\ AtHome'
  BY DEF ClientInv, Typed, ViewIsCurrent, AtHome, Outside, Inside, Reconnect, PollState, server
<1>3. ~stale => client.confirmed
  BY DEF ClientInv, Typed, AtHome, Inside, Reconnect, PollState, Reachable
<1>4. SameView /\ UNCHANGED <<client, window, stale>>
  BY DEF SameView, Reconnect, PollState, server
<1>5. \A m \in Wanted(client) : Believable(m)'
  BY <1>3, <1>4, WantedIsBelievable DEF ClientInv, AtHome, Inside
<1> QED BY <1>1, <1>2, <1>4, <1>5, OnlyAdds DEF ClientInv

LEMMA DismissIInv == ASSUME ClientInv, Dismiss PROVE ClientInv'
<1>1. Typed' /\ ViewIsCurrent' /\ AtHome'
  BY DEF ClientInv, Typed, ViewIsCurrent, AtHome, Outside, Inside, Dismiss, server,
     Fields, Parts
<1>2. ASSUME NEW m \in UnderWay' PROVE Believable(m)'
  BY <1>2 DEF ClientInv, Typed, Believable, TellsTruth, OfThisGame, Dismiss, server, UnderWay
<1> QED BY <1>1, <1>2 DEF ClientInv

LEMMA LeaveGameIInv == ASSUME ClientInv, LeaveGame PROVE ClientInv'
<1> DEFINE Left(m) == [m EXCEPT !.late = TRUE]
<1>1. UnderWay' = {Left(m) : m \in UnderWay}
  BY DEF LeaveGame, UnderWay, BagOfAll, BagToSet
<1>2. client' = Out.client /\ stale' = FALSE /\ UNCHANGED server
  BY DEF LeaveGame, Reset
<1>3. ~window'.nation /\ ~window'.content
  BY DEF ClientInv, Typed, LeaveGame, Reachable
<1>4. Typed'
  BY <1>2, OutIsTyped DEF ClientInv, Typed, LeaveGame, server, Fields, Parts
<1>5. ViewIsCurrent' /\ AtHome'
  <2>1. /\ client'.shown = NoGame /\ client'.myTribe = 0
        /\ ~client'.hasJoined /\ ~client'.confirmed /\ ~client'.polling
    BY <1>2 DEF Out
  <2>2. client'.polling = client'.confirmed /\ window'.content = client'.confirmed
    <3>1. client'.polling = FALSE /\ client'.confirmed = FALSE /\ window'.content = FALSE
      BY <1>2 DEF ClientInv, Typed, LeaveGame, Out
    <3> QED BY <3>1
  <2> QED BY <1>3, <2>1, <2>2, GameNumbers DEF ViewIsCurrent, AtHome, Outside, Inside
<1>6. ASSUME NEW m \in UnderWay PROVE Believable(Left(m))'
  <2>1. m \in Message /\ TellsTruth(m)
    BY DEF ClientInv, Believable
  <2>2. /\ Left(m) \in Message /\ Left(m).late
        /\ Left(m).op = m.op /\ Left(m).game = m.game /\ Left(m).tribe = m.tribe
        /\ Left(m).turn = m.turn /\ Left(m).spent = m.spent
    BY <2>1 DEF Message
  <2> QED BY <1>2, <2>1, <2>2 DEF Believable, TellsTruth, OfThisGame, server
<1> QED BY <1>1, <1>4, <1>5, <1>6 DEF ClientInv

-----------------------------------------------------------------------------
(* Answers                                                                 *)

\* What is known of a message that a client which is not confused handles.
LEMMA FreshIsOfThisGame ==
    ASSUME ClientInv, NEW m \in UnderWay, Handled(m), ~stale'
    PROVE  ~stale /\ ~m.late /\ OfThisGame(m) /\ Outside /\ Inside
BY DEF ClientInv, Believable, Handled, AtHome, Typed

LEMMA EnteredIInv == ASSUME ClientInv, NEW m \in UnderWay, Entered(m) PROVE ClientInv'
<1> DEFINE c == [client EXCEPT !.gameId = m.game, !.hasJoined = TRUE]
<1>1. /\ m.game \in Games /\ m \in Message
      /\ stale' = (stale \/ m.late) /\ UNCHANGED <<server, spent>>
  BY DEF ClientInv, Believable, TellsTruth, Entered, Handled
<1>2. ~stale' => ~stale /\ Outside /\ Inside
  BY FreshIsOfThisGame DEF Entered
<1>3. CASE ~MayEnter(client)
  <2>1. UnderWay' \subseteq UnderWay /\ UNCHANGED <<client, window>>
    BY <1>3, OneLess DEF Entered, UnderWay
  <2>2. Typed' /\ ViewIsCurrent' /\ AtHome'
    BY <1>1, <1>2, <2>1 DEF ClientInv, Typed, ViewIsCurrent, AtHome, Outside, Inside, server,
                            Message
  <2>3. SameView
    BY <1>1, <2>1 DEF SameView, server
  <2> QED BY <2>1, <2>2, <2>3, OnlyAdds DEF ClientInv
<1>4. CASE MayEnter(client)
  <2>1. ~client.hasJoined /\ (~stale' => client.myTribe = 0)
    BY <1>2, <1>4 DEF MayEnter, Outside
  <2>2. /\ c \in Fields
        /\ c.gameId = m.game /\ c.hasJoined /\ c.myTribe = client.myTribe
        /\ c.confirmed = client.confirmed /\ c.currentPlayer = client.currentPlayer
        /\ c.shown = client.shown /\ c.polling = client.polling
    BY <1>1 DEF ClientInv, Typed, Fields, Parts
  <2>3. /\ window' = [window EXCEPT !.selection = FALSE, !.nation = @ \/ c.myTribe <= 0]
        /\ IF c.myTribe > 0 THEN StartPolling(c, Less(net, m))
                            ELSE client' = c /\ net' = Less(net, m)
    BY <1>4 DEF Entered
  <2> HIDE DEF c
  <2>4. /\ client' \in {c, [c EXCEPT !.polling = TRUE]}
        /\ UnderWay' \subseteq UnderWay \cup Wanted(c)
        /\ ~stale' => client' = c /\ UnderWay' \subseteq UnderWay
    BY <2>1, <2>2, <2>3, Started, OneLess DEF UnderWay
  <2>5. /\ client'.gameId = m.game /\ client'.hasJoined
        /\ client'.shown = client.shown /\ client'.currentPlayer = client.currentPlayer
    BY <2>2, <2>4 DEF Fields, Parts
  <2>6. /\ window' \in Parts
        /\ window'.content = window.content
    BY <2>3 DEF ClientInv, Typed, Fields, Parts
  <2>7. Typed'
    BY <1>1, <2>2, <2>4, <2>6 DEF ClientInv, Typed, server, Message, Fields, Parts
  <2>8. ViewIsCurrent'
    BY <1>1, <2>5 DEF ClientInv, ViewIsCurrent, server
  <2>9. AtHome'
    BY <1>1, <1>2, <2>1, <2>2, <2>4, <2>5, <2>6
       DEF AtHome, Outside, Inside, server
  <2>10. ASSUME NEW x \in UnderWay' PROVE Believable(x)'
    <3>1. CASE x \in UnderWay
      <4>1. Believable(x)
        BY <3>1 DEF ClientInv
      <4>2. ~stale' => ~OfThisGame(x) \/ x.late \/ x.op \notin Playing
        BY <1>2, <2>1 DEF OfThisGame
      <4> QED BY <1>1, <1>2, <4>1, <4>2 DEF Believable, TellsTruth, OfThisGame, server
    <3>2. CASE stale' /\ x = Msg("state", c.gameId)
      BY <1>1, <2>2, <3>2, MsgFacts DEF Believable, TellsTruth, Request
    <3> QED BY <2>4, <3>1, <3>2, <1>1 DEF Wanted, ClientInv, Typed, Message
  <2> QED BY <2>7, <2>8, <2>9, <2>10 DEF ClientInv
<1> QED BY <1>3, <1>4

\* What confirming a tribe does to a client that may have parsed a state before.
LEMMA ConfirmIInv ==
    ASSUME ClientInv, NEW m \in UnderWay, m.op \in {"selected", "stated"}, Handled(m),
           NEW c \in Fields,
           c.gameId = client.gameId, c.hasJoined = client.hasJoined,
           c.confirmed = client.confirmed, c.polling = client.polling,
           c.shown \in {client.shown, m.game},
           Confirm(c, m.tribe, Less(net, m)), spent' \in BOOLEAN,
           c.shown \in Games =>
               /\ tribe[c.shown] > 0
               /\ ~spent' /\ c.currentPlayer = tribe[c.shown]
                    => turn[c.shown] = tribe[c.shown]
    PROVE  ClientInv'
<1> DEFINE sure == [c EXCEPT !.myTribe = m.tribe, !.confirmed = TRUE]
<1>1. /\ m \in Message /\ m.game \in Games /\ m.op \in Playing
      /\ m.tribe = tribe[m.game] /\ m.tribe > 0
      /\ stale' = (stale \/ m.late) /\ UNCHANGED server
  BY DEF ClientInv, Believable, TellsTruth, Handled, Playing
<1>2. /\ sure \in Fields
      /\ sure.gameId = client.gameId /\ sure.hasJoined = client.hasJoined
      /\ sure.myTribe = m.tribe /\ sure.confirmed = TRUE
      /\ sure.currentPlayer = c.currentPlayer /\ sure.shown = c.shown
      /\ sure.polling = client.polling
  BY <1>1 DEF Message, Fields, Parts
<1>3. /\ client.confirmed => client' = sure /\ net' = Less(net, m) /\ window' = window
      /\ ~client.confirmed => /\ StartPolling(sure, Less(net, m))
                             /\ window' = [window EXCEPT !.content = TRUE]
  BY DEF Confirm
<1> HIDE DEF sure
<1>4. /\ client' \in {sure, [sure EXCEPT !.polling = TRUE]}
      /\ UnderWay' \subseteq UnderWay \cup Wanted(client)
      /\ client.polling = client.confirmed => client'.polling = TRUE
  <2>1. Wanted(sure) = Wanted(client)
    BY <1>2 DEF Wanted
  <2> QED BY <1>2, <1>3, <2>1, Started, OneLess DEF UnderWay, Fields, Parts
<1>5. /\ client'.gameId = client.gameId /\ client'.hasJoined = client.hasJoined
      /\ client'.myTribe = m.tribe /\ client'.confirmed = TRUE
      /\ client'.currentPlayer = c.currentPlayer /\ client'.shown = c.shown
  BY <1>2, <1>4 DEF Fields, Parts
<1>6. /\ window' \in Parts
      /\ window'.nation = window.nation
      /\ window.content = client.confirmed => window'.content = TRUE
  BY <1>3 DEF ClientInv, Typed, Fields, Parts
<1>7. ~stale' => /\ client.hasJoined /\ ~window.nation /\ m.game = client.gameId
                /\ Inside
  BY <1>1, FreshIsOfThisGame DEF OfThisGame
<1>8. Typed'
  BY <1>1, <1>2, <1>4, <1>6 DEF ClientInv, Typed, server, Message, Fields, Parts
<1>9. ViewIsCurrent'
  BY <1>1, <1>5 DEF ViewIsCurrent, server
<1>10. AtHome'
  BY <1>1, <1>4, <1>5, <1>6, <1>7 DEF AtHome, Outside, Inside, server
<1>11. SameView
  BY <1>1, <1>5, <1>6 DEF SameView, server
<1>12. \A x \in Wanted(client) : Believable(x)'
  BY <1>5, <1>6, <1>7, WantedIsBelievable
<1> QED BY <1>4, <1>8, <1>9, <1>10, <1>11, <1>12, OnlyAdds DEF ClientInv

LEMMA SelectedIInv == ASSUME ClientInv, NEW m \in UnderWay, Selected(m) PROVE ClientInv'
BY ConfirmIInv DEF Selected, ClientInv, Typed, ViewIsCurrent

LEMMA StatedIInv == ASSUME ClientInv, NEW m \in UnderWay, Stated(m) PROVE ClientInv'
<1> DEFINE c == Parsed(client, m)
<1>1. m \in Message /\ TellsTruth(m) /\ m.op = "stated" /\ m.game \in Games
  BY DEF ClientInv, Believable, TellsTruth, Stated
<1>2. /\ c \in Fields
      /\ c.gameId = client.gameId /\ c.hasJoined = client.hasJoined
      /\ c.confirmed = client.confirmed /\ c.polling = client.polling
      /\ c.shown = m.game /\ c.currentPlayer = m.turn
  BY <1>1 DEF ClientInv, Typed, Parsed, Message, Fields, Parts
<1>3. Handled(m) /\ Confirm(c, m.tribe, Less(net, m)) /\ spent' = m.spent
  BY DEF Stated
<1> HIDE DEF c
<1>4. m.spent \in BOOLEAN
  BY <1>1 DEF Message
<1> QED BY <1>1, <1>2, <1>3, <1>4, ConfirmIInv DEF TellsTruth

LEMMA ActedIInv == ASSUME ClientInv, NEW m \in UnderWay, Acted(m) PROVE ClientInv'
<1> DEFINE later == [m EXCEPT !.op = "later"]
<1>1. /\ Believable(m) /\ m.op = "acted" /\ Handled(m)
      /\ UnderWay' \subseteq UnderWay \cup {later}
      /\ UNCHANGED <<client, window, spent, server>>
  BY OneMore, OneLess DEF ClientInv, Acted, Handled, UnderWay
<1>2. /\ later \in Message /\ later.op = "later" /\ later.game = m.game
      /\ later.late = m.late
  BY <1>1 DEF Believable, Message, Timer
<1> HIDE DEF later
<1>3. Typed' /\ ViewIsCurrent' /\ AtHome'
  BY <1>1, FreshIsOfThisGame
     DEF ClientInv, Typed, ViewIsCurrent, AtHome, Outside, Inside, server, Handled, Believable,
         Message
<1>4. Believable(later)
  BY <1>1, <1>2 DEF Believable, TellsTruth, OfThisGame, Playing
<1>5. SameView
  BY <1>1 DEF SameView, server, Handled
<1> QED BY <1>1, <1>3, <1>4, <1>5, OnlyAdds DEF ClientInv

LEMMA FetchLaterIInv ==
    ASSUME ClientInv, NEW m \in UnderWay, FetchLater(m)
    PROVE  ClientInv'
<1>1. /\ Believable(m) /\ m.op = "later" /\ Handled(m)
      /\ UnderWay' \subseteq UnderWay \cup Wanted(client)
      /\ UNCHANGED <<client, window, spent, server>>
  BY Fetched, OneLess DEF ClientInv, FetchLater, Handled, UnderWay
<1>2. Typed' /\ ViewIsCurrent' /\ AtHome'
  BY <1>1, FreshIsOfThisGame
     DEF ClientInv, Typed, ViewIsCurrent, AtHome, Outside, Inside, server, Handled, Believable,
         Message
<1>3. \A x \in Wanted(client) : Believable(x)'
  BY <1>1, FreshIsOfThisGame, WantedIsBelievable DEF OfThisGame, Playing
<1>4. SameView
  BY <1>1 DEF SameView, server, Handled
<1> QED BY <1>1, <1>2, <1>3, <1>4, OnlyAdds DEF ClientInv

-----------------------------------------------------------------------------
(* The server, the network and the other players                           *)

\* Whatever the server answers is told as truly as it was asked.
LEMMA AnswerIInv ==
    ASSUME ClientInv, NEW m \in UnderWay, NEW a \in Message, Answered(m, a),
           UNCHANGED <<client, window, tribe, turn, stale, spent>>,
           games' \subseteq Games, TellsTruth(a), a.op \notin {"create", "action"},
           a.op \in Playing => m.op \in Playing /\ a.game = m.game
    PROVE  ClientInv'
<1> DEFINE answer == [a EXCEPT !.late = m.late]
<1>1. UnderWay' \subseteq UnderWay \cup {answer}
  BY OneMore, OneLess DEF Answered, UnderWay
<1>2. Believable(m)
  BY DEF ClientInv
<1>3. /\ answer \in Message /\ answer.op = a.op /\ answer.game = a.game
      /\ answer.tribe = a.tribe /\ answer.turn = a.turn /\ answer.spent = a.spent
      /\ answer.late = m.late
  BY <1>2 DEF Believable, Message
<1> HIDE DEF answer
<1>4. Believable(answer)
  BY <1>2, <1>3 DEF Believable, TellsTruth, OfThisGame
<1>5. Typed' /\ ViewIsCurrent' /\ AtHome'
  BY DEF ClientInv, Typed, ViewIsCurrent, AtHome, Outside, Inside
<1>6. SameView
  BY DEF SameView
<1> QED BY <1>1, <1>4, <1>5, <1>6, OnlyAdds DEF ClientInv

LEMMA ServeCreateIInv ==
    ASSUME ClientInv, NEW m \in UnderWay, ServeCreate(m)
    PROVE  ClientInv'
<1> PICK g \in Games : games' = games \cup {g} /\ Answered(m, Msg("entered", g))
  BY DEF ServeCreate
<1>1. games' \subseteq Games
  BY DEF ClientInv, Typed
<1>2. /\ Msg("entered", g) \in Message /\ Msg("entered", g).op = "entered"
      /\ TellsTruth(Msg("entered", g))
  BY MsgFacts DEF TellsTruth, Answer
<1> QED BY <1>1, <1>2, AnswerIInv DEF ServeCreate, Playing

LEMMA ServeJoinIInv ==
    ASSUME ClientInv, NEW m \in UnderWay, ServeJoin(m)
    PROVE  ClientInv'
<1>1. m.game \in Games
  BY DEF ClientInv, Typed, ServeJoin
<1>2. /\ Msg("entered", m.game) \in Message /\ Msg("entered", m.game).op = "entered"
      /\ TellsTruth(Msg("entered", m.game))
  BY <1>1, MsgFacts DEF TellsTruth, Answer
<1> QED BY <1>2, AnswerIInv DEF ServeJoin, server, ClientInv, Typed, Playing

LEMMA ServeStateIInv ==
    ASSUME ClientInv, NEW m \in UnderWay, ServeState(m)
    PROVE  ClientInv'
<1> DEFINE a == [Msg("stated", m.game) EXCEPT !.tribe = tribe[m.game],
                                              !.turn = turn[m.game]]
<1>1. m.game \in Games
  BY DEF ClientInv, Believable, TellsTruth, ServeState
<1>2. /\ a \in Message /\ a.op = "stated" /\ a.game = m.game
      /\ a.tribe = tribe[m.game] /\ a.turn = turn[m.game]
  <2> DEFINE r == Msg("stated", m.game)
  <2>1. r \in Message /\ r.op = "stated" /\ r.game = m.game
    BY <1>1, MsgFacts DEF Answer
  <2>2. tribe[m.game] \in 0 .. MaxTribe /\ turn[m.game] \in 0 .. MaxTribe
    BY <1>1 DEF ClientInv, Typed
  <2>3. a = [r EXCEPT !.tribe = tribe[m.game], !.turn = turn[m.game]]
    OBVIOUS
  <2> HIDE DEF r, a
  <2> QED BY <2>1, <2>2, <2>3 DEF Message
<1>3. Answered(m, a)
  BY DEF ServeState
<1> HIDE DEF a
<1>4. TellsTruth(a)
  BY <1>1, <1>2 DEF TellsTruth, ServeState
<1> QED BY <1>2, <1>3, <1>4, AnswerIInv DEF ServeState, server, ClientInv, Typed, Playing

LEMMA ServeActionIInv ==
    ASSUME ClientInv, NEW m \in UnderWay, ServeAction(m)
    PROVE  ClientInv'
<1>1. m.game \in Games
  BY DEF ClientInv, Typed, ServeAction
<1>2. /\ Msg("acted", m.game) \in Message /\ Msg("acted", m.game).op = "acted"
      /\ Msg("acted", m.game).game = m.game /\ TellsTruth(Msg("acted", m.game))
  BY <1>1, MsgFacts DEF TellsTruth, Answer
<1> QED BY <1>2, AnswerIInv DEF ServeAction, server, ClientInv, Typed, Playing

LEMMA ServeSelectIInv ==
    ASSUME ClientInv, NEW m \in UnderWay, ServeSelect(m)
    PROVE  ClientInv'
<1> PICK t \in 1 .. MaxTribe :
        /\ tribe[m.game] \in {0, t}
        /\ tribe' = [tribe EXCEPT ![m.game] = t]
        /\ Answered(m, [Msg("selected", m.game) EXCEPT !.tribe = t])
  BY DEF ServeSelect
<1> DEFINE a == [Msg("selected", m.game) EXCEPT !.tribe = t]
           answer == [a EXCEPT !.late = m.late]
<1>1. /\ m.game \in Games /\ Believable(m) /\ m.op = "select"
      /\ UNCHANGED <<client, window, games, turn, stale, spent>>
  BY DEF ClientInv, Typed, ServeSelect
<1>2. UnderWay' \subseteq UnderWay \cup {answer}
  BY OneMore, OneLess DEF Answered, UnderWay
<1>3. t \in 0 .. MaxTribe /\ t > 0
  BY ClientConstants
<1>4. a \in Message /\ a.op = "selected" /\ a.game = m.game /\ a.tribe = t
  BY <1>1, <1>3, MsgFacts DEF Message, Answer
<1> HIDE DEF a
<1>5. /\ answer \in Message /\ answer.op = "selected" /\ answer.game = m.game
      /\ answer.tribe = t /\ answer.late = m.late
  BY <1>1, <1>4 DEF Believable, Message
<1> HIDE DEF answer
<1>6. /\ tribe' \in [Games -> 0 .. MaxTribe] /\ tribe'[m.game] = t
      /\ \A g \in Games : tribe[g] > 0 => tribe'[g] = tribe[g]
  BY <1>1, <1>3 DEF ClientInv, Typed
<1>7. Typed' /\ ViewIsCurrent'
  BY <1>1, <1>6 DEF ClientInv, Typed, ViewIsCurrent
<1>8. AtHome'
  BY <1>1, <1>6 DEF ClientInv, AtHome, Outside, Inside
<1>9. ASSUME NEW x \in UnderWay PROVE Believable(x)'
  BY <1>1, <1>6 DEF ClientInv, Believable, TellsTruth, OfThisGame
<1>10. Believable(answer)'
  BY <1>1, <1>3, <1>5, <1>6 DEF Believable, TellsTruth, OfThisGame, Playing
<1> QED BY <1>2, <1>7, <1>8, <1>9, <1>10 DEF ClientInv

\* A turn that ends makes a view or a message untrue only if it is marked so.
LEMMA EndedTurn ==
    ASSUME ClientInv, NEW g \in Games, TurnEnds(g)
    PROVE  /\ Typed' /\ ViewIsCurrent' /\ AtHome'
           /\ \A x \in UnderWay : \A y : y = Spend(x, g) => Believable(y)'
<1>1. /\ turn' = [turn EXCEPT ![g] = NextTurn(@)]
      /\ spent' = (spent \/ (client.shown = g /\ turn[g] = tribe[g]))
      /\ UNCHANGED <<client, window, games, tribe, stale>>
  BY DEF TurnEnds
<1>2. /\ turn' \in [Games -> 0 .. MaxTribe]
      /\ \A h \in Games \ {g} : turn'[h] = turn[h]
  BY <1>1, NextTurnIsTurn DEF ClientInv, Typed
<1>3. Typed' /\ AtHome'
  BY <1>1, <1>2 DEF ClientInv, Typed, AtHome, Outside, Inside
<1>4. ViewIsCurrent'
  <2> SUFFICES ASSUME client.shown \in Games
               PROVE  /\ tribe[client.shown] > 0
                      /\ ~spent' /\ client.currentPlayer = tribe[client.shown]
                           => turn'[client.shown] = tribe[client.shown]
    BY <1>1 DEF ViewIsCurrent
  <2>1. /\ tribe[client.shown] > 0
        /\ ~spent /\ client.currentPlayer = tribe[client.shown]
             => turn[client.shown] = tribe[client.shown]
    BY DEF ClientInv, ViewIsCurrent
  <2> QED BY <1>1, <1>2, <2>1
<1>5. ASSUME NEW x \in UnderWay, NEW y, y = Spend(x, g) PROVE Believable(y)'
  <2> DEFINE s == x.spent \/ /\ x.op \in {"stated", "action"}
                             /\ x.game = g /\ turn[g] = tribe[g]
  <2>1. Believable(x) /\ x \in Message
    BY DEF ClientInv, Believable
  <2>2. s \in BOOLEAN
    BY <2>1 DEF Message
  <2>3. y = [x EXCEPT !.spent = s]
    BY <1>5 DEF Spend
  <2>4. ~s => /\ ~x.spent
              /\ x.op \in {"stated", "action"} => x.game # g \/ turn[g] # tribe[g]
    OBVIOUS
  <2> HIDE DEF s
  <2>5. /\ y \in Message /\ y.op = x.op /\ y.game = x.game /\ y.tribe = x.tribe
        /\ y.turn = x.turn /\ y.late = x.late /\ y.spent = s
    BY <2>1, <2>2, <2>3 DEF Message
  <2>6. TellsTruth(y)'
    BY <1>1, <1>2, <2>1, <2>4, <2>5 DEF Believable, TellsTruth
  <2> QED BY <1>1, <2>1, <2>5, <2>6 DEF Believable, OfThisGame
<1> QED BY <1>3, <1>4, <1>5

LEMMA Spends ==
    ASSUME NEW b, NEW g
    PROVE  BagToSet(Spending(b, g)) = {Spend(x, g) : x \in BagToSet(b)}
BY DEF Spending, BagOfAll, BagToSet

LEMMA ServeEndTurnIInv ==
    ASSUME ClientInv, NEW m \in UnderWay, ServeEndTurn(m)
    PROVE  ClientInv'
<1> DEFINE answer == [Msg("acted", m.game) EXCEPT !.late = m.late]
<1>1. m.game \in Games /\ Believable(m) /\ m.op = "action" /\ TurnEnds(m.game)
  BY DEF ClientInv, Typed, ServeEndTurn
<1>2. UnderWay' \subseteq {Spend(x, m.game) : x \in UnderWay} \cup {answer}
  <2>1. net' = Plus(Spending(Less(net, m), m.game), answer)
    BY DEF ServeEndTurn
  <2> HIDE DEF answer
  <2>2. UnderWay' = {Spend(x, m.game) : x \in BagToSet(Less(net, m))} \cup {answer}
    BY <2>1, OneMore, Spends DEF UnderWay
  <2> QED BY <2>2, OneLess DEF UnderWay
<1>3. Believable(answer)'
  <2>1. /\ answer \in Message /\ answer.op = "acted" /\ answer.game = m.game
        /\ answer.late = m.late
    BY <1>1, MsgFacts DEF Believable, Message, Answer
  <2> HIDE DEF answer
  <2> QED BY <1>1, <2>1 DEF Believable, TellsTruth, OfThisGame, Playing, TurnEnds
<1> HIDE DEF answer
<1> QED BY <1>1, <1>2, <1>3, EndedTurn DEF ClientInv

LEMMA LoseIInv == ASSUME ClientInv, NEW m \in UnderWay, Lose(m) PROVE ClientInv'
<1>1. UnderWay' \subseteq UnderWay
  BY OneLess DEF Lose, UnderWay
<1>2. SameView /\ Typed' /\ ViewIsCurrent' /\ AtHome'
  BY DEF ClientInv, Typed, ViewIsCurrent, AtHome, Outside, Inside, SameView, Lose, server
<1> QED BY <1>1, <1>2, OnlyAdds DEF ClientInv

LEMMA OthersEndTurnIInv ==
    ASSUME ClientInv, NEW g \in Games, OthersEndTurn(g)
    PROVE  ClientInv'
<1>1. TurnEnds(g)
  BY DEF OthersEndTurn
<1>2. UnderWay' = {Spend(x, g) : x \in UnderWay}
  BY Spends DEF OthersEndTurn, UnderWay
<1> QED BY <1>1, <1>2, EndedTurn DEF ClientInv

LEMMA ClientStep == ASSUME ClientInv, [Next]_vars PROVE ClientInv'
<1>1. CASE UNCHANGED vars
  BY <1>1 DEF vars, ClientInv, Typed, ViewIsCurrent, AtHome, Outside, Inside, UnderWay,
              Believable, TellsTruth, OfThisGame
<1>2. CASE \E g \in Games : JoinGame(g) \/ OthersEndTurn(g)
  BY <1>2, JoinGameIInv, OthersEndTurnIInv
<1>3. CASE CreateGame \/ SendAction \/ Reconnect \/ Dismiss \/ LeaveGame \/ PollState
  BY <1>3, CreateGameIInv, SendActionIInv, PollIInv, DismissIInv, LeaveGameIInv
<1>4. CASE \E n \in Nations : SelectTribe(n)
  BY <1>4, SelectTribeIInv
<1>5. CASE \E m \in UnderWay : Receive(m)
  BY <1>5, EnteredIInv, SelectedIInv, StatedIInv, ActedIInv, FetchLaterIInv DEF Receive
<1>6. CASE \E m \in UnderWay : Serve(m)
  BY <1>6, ServeCreateIInv, ServeJoinIInv, ServeSelectIInv, ServeStateIInv,
     ServeActionIInv, ServeEndTurnIInv DEF Serve
<1>7. CASE \E m \in UnderWay : Lose(m)
  BY <1>7, LoseIInv
<1> QED BY <1>1, <1>2, <1>3, <1>4, <1>5, <1>6, <1>7 DEF Next

LEMMA ClientIsInductive == Spec => []ClientInv
BY ClientStarts, ClientStep, PTL DEF Spec

-----------------------------------------------------------------------------
(* What the user is shown                                                  *)

\* TypeOK: every field of the client, and every message under way, has its type, for any
\* number of games, tribes, nations and messages.
THEOREM TypeCorrect == Spec => []TypeOK
<1>1. ClientInv => TypeOK
  BY DEF ClientInv, Typed, TypeOK, Believable
<1> QED BY <1>1, ClientIsInductive, PTL

\* ShowsItsGame: the tiles, the tribe and the polling are of the game the client is in,
\* for any number of games and of messages, until one from before the departure is
\* handled.
THEOREM OwnGameIsShown == Spec => []ShowsItsGame
<1>1. ClientInv => ShowsItsGame
  BY DEF ClientInv, Typed, AtHome, Inside, ShowsItsGame
<1> QED BY <1>1, ClientIsInductive, PTL

\* ActsInItsTurn: what looks like the client's turn is its turn, and its actions are
\* taken in it, until somebody ends that turn, though the server lets anybody do so.
THEOREM ActsOnTurn == Spec => []ActsInItsTurn
<1>1. ClientInv => ActsInItsTurn
  BY DEF ClientInv, Typed, ViewIsCurrent, AtHome, Inside, Believable, TellsTruth, IsMyTurn,
         ActsInItsTurn
<1> QED BY <1>1, ClientIsInductive, PTL

\* StaysInItsGame: no step takes a client from one game to another.  Only JoinGame and
\* the answer to a create or a join set the game, and neither does so once it has joined.
THEOREM StaysPut == Spec => StaysInItsGame
<1>1. ASSUME Typed, [Next]_vars, client.hasJoined, client'.hasJoined
      PROVE  client'.gameId = client.gameId
  <2>1. ASSUME client' \in {client, [client EXCEPT !.polling = TRUE]}
        PROVE  client'.gameId = client.gameId
    BY <1>1, <2>1 DEF Typed, Fields, Parts
  <2>2. ASSUME NEW m \in UnderWay, Receive(m)
        PROVE  client'.gameId = client.gameId
    <3>1. CASE Selected(m)
      <4> DEFINE sure == [client EXCEPT !.myTribe = m.tribe, !.confirmed = TRUE]
      <4>1. client' \in {sure, [sure EXCEPT !.polling = TRUE]}
        BY <3>1, Started DEF Selected, Confirm
      <4> QED BY <4>1, <1>1 DEF Typed, Fields, Parts
    <3>2. CASE Stated(m)
      <4> DEFINE seen == Parsed(client, m)
                 sure == [seen EXCEPT !.myTribe = m.tribe, !.confirmed = TRUE]
      <4>1. client' \in {sure, [sure EXCEPT !.polling = TRUE]}
        BY <3>2, Started DEF Stated, Confirm
      <4> QED BY <4>1, <1>1 DEF Typed, Parsed, Fields, Parts
    <3> QED BY <1>1, <2>2, <3>1, <3>2 DEF Receive, Entered, MayEnter, Acted, FetchLater
  <2>3. ASSUME NEW m \in UnderWay, Serve(m) \/ Lose(m)
        PROVE  client' = client
    BY <2>3 DEF Serve, ServeCreate, ServeJoin, ServeSelect, ServeState, ServeAction,
                ServeEndTurn, TurnEnds, Lose
  <2>4. ASSUME NEW n \in Nations, SelectTribe(n)
        PROVE  client'.gameId = client.gameId
    BY <1>1, <2>4 DEF SelectTribe, Typed, Fields, Parts
  <2>5. ~LeaveGame
    BY <1>1 DEF LeaveGame, Reset, Out
  <2> QED BY <1>1, <2>1, <2>2, <2>3, <2>4, <2>5
          DEF Next, vars, JoinGame, OthersEndTurn, TurnEnds, CreateGame, SendAction,
              Reconnect, Dismiss, PollState
<1>2. ClientInv => Typed
  BY DEF ClientInv
<1> QED BY <1>1, <1>2, ClientIsInductive, PTL DEF Spec, StaysInItsGame

-----------------------------------------------------------------------------
(* The table of technologies                                               *)

LEMMA Tiers ==
    /\ \A t \in DOMAIN FirstTier : Tech[t] = FirstTier[t]
    /\ \A t \in DOMAIN SecondTier : Tech[t] = SecondTier[t]
    /\ \A t \in DOMAIN ThirdTier : Tech[t] = ThirdTier[t]
<1>1. /\ DOMAIN FirstTier \cap DOMAIN SecondTier = {}
      /\ DOMAIN FirstTier \cap DOMAIN ThirdTier = {}
      /\ DOMAIN SecondTier \cap DOMAIN ThirdTier = {}
  BY DEF FirstTier, SecondTier, ThirdTier
<1> QED BY <1>1 DEF Tech, TechNames

LEMMA FirstTierIsRecognised ==
    \A t \in DOMAIN FirstTier : Tech[t].unit # "Giant" /\ Estimate(Coded(t)) = t
<1>1. \A t \in DOMAIN FirstTier : FirstTier[t].unit # "Giant"
  BY DEF FirstTier, Gives
<1>2. ASSUME NEW t \in DOMAIN FirstTier PROVE Estimate(Coded(t)) = t
  <2>1. Tech[t] = FirstTier[t]
    BY Tiers
  <2>2. t \in {"Organization", "Climbing", "Fishing", "Hunting", "Riding"}
    BY DEF FirstTier
  <2> QED BY <2>1, <2>2 DEF FirstTier, Gives, Coded, Estimate, ByUnit, ByResource,
                            ByAbility, ByBuilding
<1> QED BY <1>1, <1>2, Tiers

LEMMA SecondTierIsRecognised ==
    \A t \in DOMAIN SecondTier : Tech[t].unit # "Giant" /\ Estimate(Coded(t)) = t
<1>1. \A t \in DOMAIN SecondTier : SecondTier[t].unit # "Giant"
  BY DEF SecondTier, Gives
<1>2. ASSUME NEW t \in DOMAIN SecondTier PROVE Estimate(Coded(t)) = t
  <2>1. Tech[t] = SecondTier[t]
    BY Tiers
  <2>2. t \in {"Farming", "Strategy", "Mining", "Meditation", "Scouting", "Ramming",
              "Archery", "Forestry", "Roads", "FreeSpirit"}
    BY DEF SecondTier
  <2> QED BY <2>1, <2>2 DEF SecondTier, Gives, Coded, Estimate, ByUnit, ByResource,
                            ByAbility, ByBuilding
<1> QED BY <1>1, <1>2, Tiers

LEMMA ThirdTierIsRecognised ==
    \A t \in DOMAIN ThirdTier : Tech[t].unit # "Giant" /\ Estimate(Coded(t)) = t
<1>1. \A t \in DOMAIN ThirdTier : ThirdTier[t].unit # "Giant"
  BY DEF ThirdTier, Gives
<1>2. ASSUME NEW t \in DOMAIN ThirdTier PROVE Estimate(Coded(t)) = t
  <2>1. Tech[t] = ThirdTier[t]
    BY Tiers
  <2>2. t \in {"Construction", "Diplomacy", "Smithery", "Philosophy", "Navigation",
              "Aquatism", "Spiritualism", "Mathematics", "Trade", "Chivalry"}
    BY DEF ThirdTier
  <2> QED BY <2>1, <2>2 DEF ThirdTier, Gives, Coded, Estimate, ByUnit, ByResource,
                            ByAbility, ByBuilding
<1> QED BY <1>1, <1>2, Tiers

\* A technology is read back as itself, whichever of the rows that fit it was written.
LEMMA SavedIsLoaded ==
    ASSUME NEW t \in TechNames, NEW i \in SavedAs(t) PROVE LoadedFrom(i) = t
<1>1. Coded(Implaced[i]) = Coded(t)
  BY DEF SavedAs
<1>2. Estimate(Coded(t)) = t
  BY FirstTierIsRecognised, SecondTierIsRecognised, ThirdTierIsRecognised DEF TechNames
<1> QED BY <1>1, <1>2 DEF LoadedFrom

LEMMA NoGiants == \A t \in TechNames : Tech[t].unit # "Giant"
BY FirstTierIsRecognised, SecondTierIsRecognised, ThirdTierIsRecognised DEF TechNames

LEMMA StartIsTech == ASSUME NEW n \in DOMAIN StartTech PROVE StartTech[n] \in TechNames
<1>1. /\ DOMAIN FirstTier = {"Organization", "Climbing", "Fishing", "Hunting", "Riding"}
      /\ {"Farming", "Archery", "Roads"} \subseteq DOMAIN SecondTier
      /\ {"Smithery", "Philosophy", "Diplomacy"} \subseteq DOMAIN ThirdTier
  BY DEF FirstTier, SecondTier, ThirdTier
<1>2. \A m \in DOMAIN StartTech : StartTech[m] \in
          {"Organization", "Climbing", "Fishing", "Hunting", "Riding", "Farming", "Archery",
           "Roads", "Smithery", "Philosophy", "Diplomacy"}
  BY DEF StartTech
<1> QED BY <1>1, <1>2 DEF TechNames

\* Every index of the client's names a technology.
LEMMA IndexedIsTech ==
    ASSUME NEW x \in DOMAIN TechAt, NEW y \in DOMAIN TechAt[x]
    PROVE  TechAt[x][y] \in TechNames
<1>1. x \in {1, 2, 3}
  BY DEF TechAt
<1>2. CASE x = 1
  <2>1. TechAt[1] = <<"Organization", "Climbing", "Fishing", "Hunting", "Riding">>
    BY DEF TechAt
  <2>2. TechAt[1][y] \in DOMAIN FirstTier
    BY <1>2, <2>1 DEF FirstTier
  <2> QED BY <1>2, <2>2 DEF TechNames
<1>3. CASE x = 2
  <2>1. TechAt[2] =
          <<"Farming", "Strategy", "Mining", "Meditation", "Scouting", "Ramming",
            "Archery", "Forestry", "Roads", "FreeSpirit">>
    BY DEF TechAt
  <2>2. TechAt[2][y] \in DOMAIN SecondTier
    BY <1>3, <2>1 DEF SecondTier
  <2> QED BY <1>3, <2>2 DEF TechNames
<1>4. CASE x = 3
  <2>1. TechAt[3] =
          <<"Construction", "Diplomacy", "Smithery", "Philosophy", "Navigation",
            "Aquatism", "Spiritualism", "Mathematics", "Trade", "Chivalry">>
    BY DEF TechAt
  <2>2. TechAt[3][y] \in DOMAIN ThirdTier
    BY <1>4, <2>1 DEF ThirdTier
  <2> QED BY <1>4, <2>2 DEF TechNames
<1> QED BY <1>1, <1>2, <1>3, <1>4

-----------------------------------------------------------------------------
(* The invariant                                                           *)

\* What a set of rows is read back as.
Decoded(S) == {LoadedFrom(i) : i \in S}

\* The rows hold what was earned.
RowsAreEarned ==
    /\ phase = "none" => rows = {}
    /\ phase = "idle" => rows # {}
    /\ rows # {} => Decoded(rows) = earned /\ StartTech[nation] \in earned

\* The session under way holds what was earned and perhaps one technology more; the
\* transaction adds it to the rows.
SessionIsEarned ==
    /\ phase \in {"loaded", "acted", "saving"} => rows \subseteq tx
    /\ phase = "none" => tx = {}
    /\ phase # "saving" => pending = {}
    /\ phase \in {"loaded", "acted"} => Decoded(tx) \subseteq known
    /\ phase = "saving" => Decoded(tx) \cup pending = known
    /\ phase \in {"loaded", "acted", "saving"} => StartTech[nation] \in known
    /\ phase = "loaded" => known = earned

StoreInv == TechTypeOK /\ RowsAreEarned /\ SessionIsEarned

\* The server can make what a list names, whichever tribe it was made for.  A list under
\* way, or the menu made of one, was true of rows that are still there, unless the game
\* it is of was left for another.
Makeable == (Named \ {"Giant"}) \cup {"Warrior"}
InReach(list) == list \subseteq Available(Decoded(rows))
ListsAreInReach ==
    /\ underWay \subseteq [list : SUBSET Makeable, foreign : BOOLEAN]
    /\ menu \subseteq Makeable
    /\ \A m \in underWay : m.foreign \/ InReach(m.list)
    /\ tiles = "foreign" \/ InReach(menu)

HiringInv == StoreInv /\ ListsAreInReach

LEMMA RowsNeverGo == StoreInv /\ [TechNext]_techVars => rows \subseteq rows'
BY DEF TechNext, techVars, StoreInv, SessionIsEarned, HandleSelectTribe, Load, Reveal,
       SaveBegin, SaveTech, Commit, Fail

LEMMA StoreStep == ASSUME StoreInv, [TechNext]_techVars PROVE StoreInv'
<1>0. TechTypeOK /\ RowsAreEarned /\ SessionIsEarned
  BY DEF StoreInv
<1>1. CASE HandleSelectTribe
  <2>1. StartTech[nation] \in TechNames
    BY StartIsTech, <1>0 DEF TechTypeOK
  <2>0. pending = {} /\ pending' = {}
    BY <1>0, <1>1 DEF HandleSelectTribe, SessionIsEarned
  <2>2. TechTypeOK'
    BY <1>0, <1>1, <2>1, <2>0 DEF HandleSelectTribe, TechTypeOK
  <2>3. rows = {} /\ tx = {} /\ rows' = rows /\ tx' = tx /\ phase' = "loaded"
        /\ nation' = nation /\ known' = {StartTech[nation]} /\ earned' = known'
    BY <1>0, <1>1 DEF HandleSelectTribe, RowsAreEarned, SessionIsEarned
  <2>4. Decoded(tx') \subseteq known'
    BY <2>3 DEF Decoded
  <2> QED BY <2>2, <2>3, <2>4, <2>0 DEF StoreInv, RowsAreEarned, SessionIsEarned
<1>2. CASE Load
  <2>1. known' = earned
    BY <1>0, <1>2 DEF Load, RowsAreEarned, Decoded
  <2>0. pending = {} /\ pending' = {}
    BY <1>0, <1>2 DEF Load, SessionIsEarned
  <2>2. TechTypeOK'
    BY <1>0, <1>2, <2>1, <2>0 DEF Load, TechTypeOK
  <2>3. /\ phase' = "loaded" /\ rows' = rows /\ tx' = rows /\ earned' = earned
        /\ nation' = nation
    BY <1>2 DEF Load
  <2>4. rows # {} /\ Decoded(rows) = earned /\ StartTech[nation] \in earned
    BY <1>0, <1>2 DEF Load, RowsAreEarned
  <2>5. RowsAreEarned'
    BY <2>3, <2>4 DEF RowsAreEarned, Decoded
  <2>6. SessionIsEarned'
    BY <2>1, <2>3, <2>4, <2>0 DEF SessionIsEarned, Decoded
  <2> QED BY <2>2, <2>5, <2>6 DEF StoreInv
<1>3. ASSUME NEW x \in DOMAIN TechAt, NEW y \in DOMAIN TechAt[x], Reveal(x, y) PROVE StoreInv'
  <2>1. TechAt[x][y] \in TechNames
    BY IndexedIsTech
  <2>2. TechTypeOK'
    BY <1>0, <1>3, <2>1 DEF Reveal, TechTypeOK
  <2> QED BY <1>0, <1>3, <2>2 DEF Reveal, StoreInv, RowsAreEarned, SessionIsEarned, Decoded
<1>4. CASE SaveBegin
  <2>1. TechTypeOK'
    BY <1>0, <1>4 DEF SaveBegin, TechTypeOK
  <2> QED BY <1>0, <1>4, <2>1 DEF SaveBegin, StoreInv, RowsAreEarned, SessionIsEarned, Decoded
<1>5. ASSUME NEW t \in TechNames, SaveTech(t) PROVE StoreInv'
  <2>1. PICK id \in SavedAs(t) : tx' = tx \cup {id}
    BY <1>5 DEF SaveTech
  <2>2. LoadedFrom(id) = t /\ id \in Ids
    BY SavedIsLoaded DEF SavedAs
  <2>3. Decoded(tx') = Decoded(tx) \cup {t}
    BY <2>1, <2>2 DEF Decoded
  <2>4. TechTypeOK'
    BY <1>0, <1>5, <2>1, <2>2 DEF SaveTech, TechTypeOK
  <2>5. Decoded(tx') \cup pending' = known'
    BY <1>0, <1>5, <2>3 DEF SaveTech, SessionIsEarned
  <2> QED BY <1>0, <1>5, <2>1, <2>4, <2>5 DEF SaveTech, StoreInv,
                                           RowsAreEarned, SessionIsEarned, Decoded
<1>6. CASE Commit
  <2>1. TechTypeOK'
    BY <1>0, <1>6 DEF Commit, TechTypeOK
  <2>2. Decoded(tx) = known /\ StartTech[nation] \in known
    BY <1>0, <1>6 DEF Commit, SessionIsEarned
  <2>3. tx # {}
    BY <2>2 DEF Decoded
  <2> QED BY <1>0, <1>6, <2>1, <2>2, <2>3 DEF Commit, StoreInv,
                                           RowsAreEarned, SessionIsEarned
<1>7. CASE Fail
  <2>1. TechTypeOK'
    BY <1>0, <1>7 DEF Fail, TechTypeOK
  <2> QED BY <1>0, <1>7, <2>1 DEF Fail, StoreInv, RowsAreEarned, SessionIsEarned, Decoded
<1>8. CASE UNCHANGED techVars
  BY <1>0, <1>8 DEF techVars, TechTypeOK, StoreInv, RowsAreEarned, SessionIsEarned, Decoded
<1> QED BY <1>1, <1>2, <1>3, <1>4, <1>5, <1>6, <1>7, <1>8 DEF TechNext

\* What is in reach stays there: rows are only added.
LEMMA StaysInReach ==
    ASSUME rows \subseteq rows', NEW list, InReach(list)
    PROVE  list \subseteq Available(Decoded(rows'))
BY DEF InReach, Available, Decoded

\* A step after which the rows are as many or more keeps the lists that it keeps.
LEMMA SameLists ==
    ASSUME ListsAreInReach, rows \subseteq rows', underWay' = underWay, menu' = menu,
           tiles' = tiles
    PROVE  ListsAreInReach'
<1>1. ASSUME NEW m \in underWay PROVE m.foreign \/ m.list \subseteq Available(Decoded(rows'))
  BY StaysInReach DEF ListsAreInReach
<1>2. tiles = "foreign" \/ menu \subseteq Available(Decoded(rows'))
  BY StaysInReach DEF ListsAreInReach
<1>3. \A list : list \subseteq Available(Decoded(rows')) => InReach(list)'
  BY DEF InReach, Available, Decoded
<1>4. /\ underWay' \subseteq [list : SUBSET Makeable, foreign : BOOLEAN]
      /\ menu' \subseteq Makeable
  BY DEF ListsAreInReach
<1>5. \A m \in underWay' : m.foreign \/ InReach(m.list)'
  BY <1>1, <1>3
<1>6. tiles' = "foreign" \/ InReach(menu)'
  BY <1>2, <1>3 DEF InReach, Available, Decoded
<1> QED BY <1>4, <1>5, <1>6 DEF ListsAreInReach, InReach

\* The request that answers a state knows what the rows hold.
LEMMA AnswersAreInReach ==
    ASSUME StoreInv, phase = "loaded", rows # {}, NEW list \in Answers(known)
    PROVE  list \in SUBSET Makeable /\ InReach(list)
<1>1. known = Decoded(rows) /\ known \subseteq TechNames
  BY DEF StoreInv, TechTypeOK, RowsAreEarned, SessionIsEarned
<1>2. ASSUME NEW T \in SUBSET TechNames
      PROVE  Offered(T) \subseteq Makeable /\ Offered(T) \subseteq Available(T)
  BY NoGiants DEF Offered, Makeable, Available
<1>3. Offered({}) \subseteq Makeable /\ Offered({}) \subseteq Available(known)
  BY DEF Offered, Makeable, Available
<1> QED BY <1>1, <1>2, <1>3 DEF Answers, InReach

LEMMA HiringStep == ASSUME HiringInv, [HiringNext]_hiringVars PROVE HiringInv'
<1>0. StoreInv /\ ListsAreInReach
  BY DEF HiringInv
<1>1. CASE [TechNext]_techVars /\ UNCHANGED <<menu, tiles, underWay>>
  BY <1>0, <1>1, StoreStep, RowsNeverGo, SameLists DEF HiringInv
<1>2. CASE GameState
  <2>1. StoreInv'
    <3>1. TechTypeOK'
      BY <1>0, <1>2 DEF GameState, StoreInv, TechTypeOK, SessionIsEarned
    <3>2. RowsAreEarned' /\ SessionIsEarned'
      BY <1>0, <1>2 DEF GameState, StoreInv, RowsAreEarned, SessionIsEarned, Decoded
    <3> QED BY <3>1, <3>2 DEF StoreInv
  <2>2. PICK list \in Answers(known) :
          underWay' = underWay \cup {[list |-> list, foreign |-> FALSE]}
    BY <1>2 DEF GameState
  <2> DEFINE new == [list |-> list, foreign |-> FALSE]
  <2>3. list \in SUBSET Makeable /\ InReach(list)
    BY <1>0, <1>2, AnswersAreInReach DEF GameState
  <2>4. new \in [list : SUBSET Makeable, foreign : BOOLEAN] /\ new.list = list
    BY <2>3
  <2>5. underWay' = underWay \cup {new}
    BY <2>2
  <2>6. rows' = rows /\ menu' = menu /\ tiles' = tiles
    BY <1>2 DEF GameState
  <2> HIDE DEF new
  <2>7. ListsAreInReach'
    BY <1>0, <2>3, <2>4, <2>5, <2>6 DEF ListsAreInReach, InReach
  <2> QED BY <2>1, <2>7 DEF HiringInv
<1>3. ASSUME NEW m \in underWay, ParseState(m) PROVE HiringInv'
  <2>1. StoreInv'
    BY <1>0, <1>3 DEF ParseState, techVars, StoreInv, TechTypeOK, RowsAreEarned,
                      SessionIsEarned
  <2>2. /\ menu' = m.list /\ underWay' \subseteq underWay /\ rows' = rows
        /\ m.foreign => tiles' = "foreign"
    BY <1>3 DEF ParseState, techVars
  <2>3. m.list \subseteq Makeable /\ (m.foreign \/ InReach(m.list))
    BY <1>0 DEF ListsAreInReach
  <2>4. ListsAreInReach'
    BY <1>0, <2>2, <2>3 DEF ListsAreInReach, InReach
  <2> QED BY <2>1, <2>4 DEF HiringInv
<1>4. ASSUME NEW name \in Menu, RecruitUnit(name) PROVE HiringInv'
  <2>1. StoreInv'
    BY <1>0, <1>4 DEF RecruitUnit, StoreInv, TechTypeOK, RowsAreEarned, SessionIsEarned
  <2>2. rows' = rows /\ UNCHANGED <<menu, tiles, underWay>>
    BY <1>4 DEF RecruitUnit
  <2> QED BY <1>0, <2>1, <2>2, SameLists DEF HiringInv
<1>5. CASE Rejoin
  <2>1. StoreInv'
    BY <1>0, <1>5 DEF Rejoin, techVars, StoreInv, TechTypeOK, RowsAreEarned, SessionIsEarned
  <2>2. menu' = {} /\ underWay' = underWay /\ rows' = rows
    BY <1>5 DEF Rejoin, ResetGameState, techVars
  <2> QED BY <1>0, <2>1, <2>2 DEF HiringInv, ListsAreInReach, InReach
<1>6. CASE JoinAnother
  <2>1. /\ phase' = "none" /\ nation' \in DOMAIN StartTech
        /\ known' = {} /\ pending' = {} /\ tx' = {} /\ rows' = {} /\ earned' = {}
    BY <1>6 DEF JoinAnother
  <2>2. StoreInv'
    BY <2>1 DEF StoreInv, TechTypeOK, RowsAreEarned, SessionIsEarned, Decoded
  <2>3. menu' = {} /\ underWay' = {[m EXCEPT !.foreign = TRUE] : m \in underWay}
    BY <1>6 DEF JoinAnother, ResetGameState
  <2>4. ASSUME NEW m \in underWay
        PROVE  /\ [m EXCEPT !.foreign = TRUE] \in [list : SUBSET Makeable, foreign : BOOLEAN]
               /\ [m EXCEPT !.foreign = TRUE].foreign
    BY <1>0 DEF ListsAreInReach
  <2>5. \A n \in underWay' : /\ n \in [list : SUBSET Makeable, foreign : BOOLEAN]
                            /\ n.foreign
    BY <2>3, <2>4
  <2> QED BY <2>2, <2>3, <2>5 DEF HiringInv, ListsAreInReach, InReach
<1>7. CASE UNCHANGED hiringVars
  BY <1>1, <1>7 DEF hiringVars, clientSide
<1> QED BY <1>1, <1>2, <1>3, <1>4, <1>5, <1>6, <1>7 DEF HiringNext

LEMMA HiringIsInductive == HiringSpec => []HiringInv
<1>1. HiringInit => HiringInv
  BY DEF HiringInit, TechInit, HiringInv, StoreInv, TechTypeOK, RowsAreEarned, SessionIsEarned,
         ListsAreInReach, InReach
<1>2. HiringInv /\ [HiringNext]_hiringVars => HiringInv'
  BY HiringStep
<1> QED BY <1>1, <1>2, PTL DEF HiringSpec

-----------------------------------------------------------------------------
(* The properties                                                          *)

\* TechTypeOK: every reachable state of a tribe's technologies is typed; what a client can
\* index and what a row can be read back as is a technology.
THEOREM TechnologiesAreTyped == HiringSpec => []TechTypeOK
<1>1. HiringInv => TechTypeOK
  BY DEF HiringInv, StoreInv
<1> QED BY <1>1, HiringIsInductive, PTL

\* KnownAfterReload: after any saves, aborts and loads a tribe knows what it was given
\* and paid for.
THEOREM KnowledgeSurvives == HiringSpec => []KnownAfterReload
<1>1. HiringInv => KnownAfterReload
  BY DEF HiringInv, StoreInv, SessionIsEarned, KnownAfterReload
<1> QED BY <1>1, HiringIsInductive, PTL

\* OfferIsWithinReach: a menu, however late it is read, names what the server can make
\* and, unless it is of a game left for another, what the tribe may hire.
THEOREM OffersAreWithinReach == HiringSpec => []OfferIsWithinReach
<1>1. \A name \in Makeable \cup {"Archer"} : \E i \in DOMAIN KindAt : KindAt[i] = name
  <2> SUFFICES ASSUME NEW name \in Makeable \cup {"Archer"}
               PROVE  \E i \in 1 .. 8 : KindAt[i] = name
    BY DEF KindAt
  <2> QED BY DEF KindAt, Makeable, Named
<1>2. HiringInv => OfferIsWithinReach
  <2> SUFFICES ASSUME HiringInv, NEW name \in Menu
               PROVE  /\ \E i \in DOMAIN KindAt : KindAt[i] = name
                      /\ \/ name \in Available(Reloaded)
                         \/ tiles = "foreign"
                         \/ menu = {} /\ name = "Archer"
    BY DEF OfferIsWithinReach
  <2>1. CASE menu = {}
    <3>1. name \in {"Warrior", "Archer"}
      BY <2>1 DEF Menu
    <3>2. "Warrior" \in Makeable /\ "Warrior" \in Available(Reloaded)
      BY DEF Makeable, Available
    <3> QED BY <1>1, <2>1, <3>1, <3>2
  <2>2. CASE menu # {}
    <3>1. name \in menu
      BY <2>2 DEF Menu
    <3>2. name \in Makeable
      BY <3>1 DEF HiringInv, ListsAreInReach
    <3>3. tiles = "foreign" \/ name \in Available(Decoded(rows))
      BY <3>1 DEF HiringInv, ListsAreInReach, InReach
    <3>4. tiles = "foreign" \/ name \in Available(Reloaded)
      BY <3>3 DEF Available, Reloaded, Decoded
    <3> QED BY <1>1, <3>2, <3>4
  <2> QED BY <2>1, <2>2
<1> QED BY <1>2, HiringIsInductive, PTL
=============================================================================
