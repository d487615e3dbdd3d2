------------------------------ MODULE Accounts ------------------------------
(***************************************************************************)
(* Registration, login and logout: the login dialog of the client, the     *)
(* three handlers of the server, the rows of users and sessions.  Requests *)
(* and answers get lost and overtake one another.  A user id stands for    *)
(* its nick: both are unique.                                              *)
(***************************************************************************)
EXTENDS Naturals, FiniteSets

CONSTANTS
    Nicks,
    Devices,       \* clients of the server
    MaxMessages,   \* bound: requests and answers under way
    MaxTokens      \* bound: tokens given out

ASSUME AccountsAssumption == MaxMessages \in Nat \ {0} /\ MaxTokens \in Nat

Passwords == {"four", "six", "seven"}   \* by their length
NoAccount == "no account"
NoToken   == <<"no token">>

VARIABLES
    accounts,   \* users: the password of each nick
    sessions,   \* user_sessions: token, user, is_active, not expired yet
    issued,     \* tokens given out so far: the clock in generateTokenString
    token,      \* GameClient::m_token of each device
    screen,     \* whether the login dialog of a device is open
    requests,
    answers,
    refused,    \* history: tokens whose session was not stored
    out         \* history: tokens that were logged out

vars == <<accounts, sessions, issued, token, screen, requests, answers, refused, out>>

Tokens == Nicks \X (1 .. MaxTokens)

Session == [token : Tokens, user : Nicks, active : BOOLEAN, fresh : BOOLEAN]
Request == [device : Devices, what : {"register", "login"}, nick : Nicks,
            password : Passwords]
Answer  == [device : Devices, token : Tokens \cup {NoToken}, error : STRING,
            what : {"register", "login"}]

\* validateUserToken
Valid(t) == \E s \in sessions : s.token = t /\ s.active /\ s.fresh

\* createNew: at least six characters.
Acceptable(password) == password # "four"

\* Mutant of Token: made from the user alone.
TokenOfUser(n) == <<n, 1>>

\* generateTokenString: of the user and the time, in nanoseconds.
Token(n) == <<n, issued + 1>>

\* saveUserSession: a token that is there is revived.
SaveUserSession(t, n) ==
    sessions' = {s \in sessions : s.token # t} \cup
                {[token |-> t, active |-> TRUE, fresh |-> TRUE,
                  user |-> IF \E s \in sessions : s.token = t
                           THEN (CHOOSE s \in sessions : s.token = t).user ELSE n]}

-----------------------------------------------------------------------------
Init ==
    /\ accounts = [n \in Nicks |-> NoAccount]
    /\ sessions = {}
    /\ issued = 0
    /\ token = [d \in Devices |-> NoToken]
    /\ screen = [d \in Devices |-> "login"]
    /\ requests = {} /\ answers = {}
    /\ refused = {} /\ out = {}

(* The client                                                              *)

\* The buttons of the dialog; they stay enabled while a request is under way.
Ask(d, what, n, password) ==
    /\ screen[d] = "login"
    /\ Cardinality(requests) + Cardinality(answers) < MaxMessages
    /\ requests' = requests \cup
           {[device |-> d, what |-> what, nick |-> n, password |-> password]}
    /\ UNCHANGED <<accounts, sessions, issued, token, screen, answers, refused, out>>

\* Mutant of ReadAnswer: the token of an answer is read without asking whether it is
\* there.
ReadAnyAnswer(a) ==
    /\ answers' = answers \ {a}
    /\ token' = [token EXCEPT ![a.device] = IF a.token = NoToken THEN << >> ELSE a.token]
    /\ screen' = [screen EXCEPT ![a.device] = "lobby"]
    /\ UNCHANGED <<accounts, sessions, issued, requests, refused, out>>

\* onReplyFinished: any answer with a token is taken, also by a dialog that is closed.
\* An error has a status of its own and is dropped before its text is looked at.
ReadAnswer(a) ==
    /\ answers' = answers \ {a}
    /\ IF a.token = NoToken THEN UNCHANGED <<token, screen>>
       ELSE /\ token' = [token EXCEPT ![a.device] = a.token]
            /\ screen' = [screen EXCEPT ![a.device] = "lobby"]
    /\ UNCHANGED <<accounts, sessions, issued, requests, refused, out>>

Lose ==
    /\ \/ \E r \in requests : requests' = requests \ {r} /\ UNCHANGED answers
       \/ \E a \in answers : answers' = answers \ {a} /\ UNCHANGED requests
    /\ UNCHANGED <<accounts, sessions, issued, token, screen, refused, out>>

(* The server                                                              *)

Answered(r, t, error) ==
    /\ requests' = requests \ {r}
    /\ answers' = answers \cup
           {[device |-> r.device, token |-> t, error |-> error, what |-> r.what]}

Refused(r, error) ==
    /\ Answered(r, NoToken, error)
    /\ UNCHANGED <<accounts, sessions, issued, token, screen, refused, out>>

\* The result of saveUserSession is not looked at: the token is given out even if
\* its session was not stored.
Granted(r) ==
    /\ issued < MaxTokens
    /\ issued' = issued + 1
    /\ \/ SaveUserSession(Token(r.nick), r.nick) /\ UNCHANGED refused
       \/ refused' = refused \cup {Token(r.nick)} /\ UNCHANGED sessions
    /\ Answered(r, Token(r.nick), "")
    /\ UNCHANGED <<token, screen, out>>

\* Mutant of SavePlayer: an upsert, as everywhere else in the repository.
SavePlayerAnyway(r) == accounts' = [accounts EXCEPT ![r.nick] = r.password]

\* savePlayer: a plain insert, which the unique nick may refuse.
SavePlayer(r) ==
    /\ accounts[r.nick] = NoAccount
    /\ accounts' = [accounts EXCEPT ![r.nick] = r.password]

\* handle_auth_register.  Any failure to insert is taken for a nick that is taken;
\* a crash between the two inserts leaves a user without a session.
HandleAuthRegister(r) ==
    /\ r.what = "register"
    /\ \/ ~ Acceptable(r.password) /\ Refused(r, "invalid_credentials")
       \/ /\ Acceptable(r.password)
          /\ \/ SavePlayer(r) /\ Granted(r)
             \/ /\ SavePlayer(r)
                /\ requests' = requests \ {r}
                /\ UNCHANGED <<sessions, issued, token, screen, answers, refused, out>>
             \/ Refused(r, "nick_taken")

\* handle_auth_login; a row that cannot be read is a row that is not there.
HandleAuthLogin(r) ==
    /\ r.what = "login"
    /\ \/ accounts[r.nick] = r.password /\ Granted(r) /\ UNCHANGED accounts
       \/ Refused(r, "invalid_credentials")

\* handle_auth_logout, which the Qt client has no button for: the client that asks
\* for it forgets its token.
HandleAuthLogout(d) ==
    /\ Valid(token[d])
    /\ sessions' = {IF s.token = token[d] THEN [s EXCEPT !.active = FALSE] ELSE s :
                        s \in sessions}
    /\ out' = out \cup {token[d]}
    /\ token' = [token EXCEPT ![d] = NoToken]
    /\ screen' = [screen EXCEPT ![d] = "login"]
    /\ UNCHANGED <<accounts, issued, requests, answers, refused>>

\* A day has passed since the session was stored.
Expire(s) ==
    /\ s.fresh
    /\ sessions' = (sessions \ {s}) \cup {[s EXCEPT !.fresh = FALSE]}
    /\ UNCHANGED <<accounts, issued, token, screen, requests, answers, refused, out>>

Next ==
    \/ \E r \in Request : Ask(r.device, r.what, r.nick, r.password)
    \/ \E a \in answers : ReadAnswer(a)
    \/ Lose
    \/ \E r \in requests : HandleAuthRegister(r) \/ HandleAuthLogin(r)
    \/ \E d \in Devices : HandleAuthLogout(d)
    \/ \E s \in sessions : Expire(s)

Spec == Init /\ [][Next]_vars
-----------------------------------------------------------------------------
(* Properties                                                              *)

\* Every variable holds a value of its kind, and a session is of its token's user.
TypeOK ==
    /\ accounts \in [Nicks -> Passwords \cup {NoAccount}]
    /\ sessions \subseteq Session /\ \A s \in sessions : s.token[1] = s.user
    /\ issued \in 0 .. MaxTokens
    /\ token \in [Devices -> Tokens \cup {NoToken}]
    /\ screen \in [Devices -> {"login", "lobby"}]
    /\ requests \subseteq Request

\* A device whose dialog has closed is logged in until its token expires or the
\* device itself logs out, whatever the user does on other devices; unless the
\* session of the token was never stored.
StaysLoggedIn ==
    \A d \in Devices : screen[d] = "lobby" =>
        \/ token[d] \in refused
        \/ \E s \in sessions : s.token = token[d] /\ (s.active \/ ~ s.fresh)

\* A token that was logged out is never good again, although storing a session
\* revives the row of its token.
LoggedOutStaysOut == \A t \in out : ~ Valid(t)

\* A login lasts and a logout too, although a token is all that ties a device to its
\* session and any device may store or end one.
LoginsAreHonoured == StaysLoggedIn /\ LoggedOutStaysOut

\* What was registered stays as it is: a registration that is repeated, because its
\* answer was lost or because the process died half-way, changes no account.
AccountsAreKept ==
    [][\A n \in Nicks : accounts[n] # NoAccount => accounts'[n] = accounts[n]]_vars
=============================================================================
