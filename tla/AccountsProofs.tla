--------------------------- MODULE AccountsProofs ---------------------------
(***************************************************************************)
(* Logins and logouts are honoured and accounts are kept, for any number   *)
(* of users, devices, messages and tokens.                                 *)
(***************************************************************************)
EXTENDS Accounts, TLAPS

-----------------------------------------------------------------------------
(* The invariant                                                           *)

\* Every token in the system has been given out.
Given == Nicks \X (1 .. issued)
AllGiven ==
    /\ \A s \in sessions : s.token \in Given
    /\ \A d \in Devices : token[d] \in Given \cup {NoToken}
    /\ \A a \in answers : a.token \in Given \cup {NoToken}
    /\ out \subseteq Given

\* A token is in one place: an answer under way, or one device.
HeldOnce ==
    /\ \A d, e \in Devices : token[d] = token[e] /\ token[d] # NoToken => d = e
    /\ \A a \in answers, d \in Devices : a.token = token[d] => a.token = NoToken
    /\ \A a, b \in answers : a.token = b.token /\ a.token # NoToken => a = b

\* The session of t was not stored, or lasts, or ran out.
Honoured(S, R, t) == t \in R \/ \E s \in S : s.token = t /\ (s.active \/ ~ s.fresh)

AllHonoured ==
    /\ \A d \in Devices : screen[d] = "lobby" =>
          token[d] # NoToken /\ Honoured(sessions, refused, token[d])
    /\ \A a \in answers : a.token # NoToken => Honoured(sessions, refused, a.token)
    /\ \A a \in answers : a.device \in Devices

IInv == TypeOK /\ AllGiven /\ HeldOnce /\ AllHonoured /\ LoggedOutStaysOut

-----------------------------------------------------------------------------
LEMMA NoTokenIsNone == ASSUME NEW n, NEW k PROVE <<n, k>> # NoToken
BY DEF NoToken

\* The next token is new.
LEMMA TokenIsNew ==
    ASSUME TypeOK, NEW n \in Nicks, issued < MaxTokens
    PROVE  /\ Token(n) \in Tokens /\ Token(n) \notin Given /\ Token(n) # NoToken
           /\ Token(n)[1] = n
           /\ Token(n) \in Nicks \X (1 .. issued + 1)
           /\ Given \subseteq Nicks \X (1 .. issued + 1)
           /\ issued + 1 \in 0 .. MaxTokens
<1>1. issued \in Nat /\ MaxTokens \in Nat
  BY AccountsAssumption DEF TypeOK
<1>2. issued + 1 \in 1 .. MaxTokens /\ issued + 1 \notin 1 .. issued
      /\ issued + 1 \in 1 .. issued + 1 /\ issued + 1 \in 0 .. MaxTokens
      /\ 1 .. issued \subseteq 1 .. issued + 1
  BY <1>1
<1>3. Token(n) # NoToken
  BY NoTokenIsNone DEF Token
<1> QED BY <1>2, <1>3 DEF Token, Tokens, Given

\* A step that answers one request without a token, or not at all.
LEMMA RefusedStep ==
    ASSUME IInv, NEW r \in requests,
           requests' \subseteq requests,
           UNCHANGED <<sessions, issued, token, screen, refused, out>>,
           \A a \in answers' : a \in answers \/ (a.token = NoToken /\ a.device = r.device),
           accounts' \in [Nicks -> Passwords \cup {NoAccount}]
    PROVE  IInv'
<1>1. /\ sessions' = sessions /\ issued' = issued /\ token' = token /\ screen' = screen
      /\ refused' = refused /\ out' = out /\ requests' \subseteq requests
  OBVIOUS
<1>2. \A a \in answers' : a \in answers \/ (a.token = NoToken /\ a.device = r.device)
  OBVIOUS
<1>3. r.device \in Devices
  BY DEF IInv, TypeOK, Request
<1>4. TypeOK'
  BY <1>1 DEF IInv, TypeOK
<1>5. AllGiven'
  BY <1>1, <1>2 DEF IInv, AllGiven, Given
<1>6. HeldOnce'
  BY <1>1, <1>2 DEF IInv, HeldOnce
<1>7. AllHonoured'
  BY <1>1, <1>2, <1>3 DEF IInv, AllHonoured, Honoured
<1>8. LoggedOutStaysOut'
  BY <1>1 DEF IInv, LoggedOutStaysOut, Valid
<1> QED BY <1>4, <1>5, <1>6, <1>7, <1>8 DEF IInv

\* A step that answers one request with a new token.
LEMMA GrantedStep ==
    ASSUME IInv, NEW r \in requests, Granted(r),
           accounts' \in [Nicks -> Passwords \cup {NoAccount}]
    PROVE  IInv'
<1> DEFINE n == r.nick
           t == Token(n)
<1>1. n \in Nicks /\ r.device \in Devices /\ TypeOK
  BY DEF IInv, TypeOK, Request
<1>2. issued < MaxTokens /\ issued' = issued + 1 /\ token' = token /\ screen' = screen
      /\ out' = out /\ requests' \subseteq requests
  BY DEF Granted, Answered
<1>3. /\ t \in Tokens /\ t \notin Given /\ t # NoToken /\ t[1] = n /\ t \in Given'
      /\ Given \subseteq Given' /\ issued' \in 0 .. MaxTokens
  BY <1>1, <1>2, TokenIsNew DEF Given
<1>4. \A s \in sessions : s.token # t
  BY <1>3 DEF IInv, AllGiven
<1> DEFINE new == [token |-> t, active |-> TRUE, fresh |-> TRUE, user |-> n]
<1>5. \/ sessions' = sessions \cup {new} /\ refused' = refused
      \/ sessions' = sessions /\ refused' = refused \cup {t}
  BY <1>4 DEF Granted, SaveUserSession
<1>6. new \in Session /\ new.token[1] = new.user /\ new.token = t /\ new.active
  BY <1>1, <1>3 DEF Session
<1>7. PICK b : b.token = t /\ b.device = r.device /\ answers' = answers \cup {b}
  BY DEF Granted, Answered
<1> HIDE DEF t, new, n
<1>8. TypeOK'
  BY <1>2, <1>3, <1>5, <1>6 DEF IInv, TypeOK
<1>9. AllGiven'
  <2>1. \A s \in sessions' : s.token \in Given'
    BY <1>3, <1>5, <1>6 DEF IInv, AllGiven
  <2>2. \A a \in answers' : a.token \in Given' \cup {NoToken}
    BY <1>3, <1>7 DEF IInv, AllGiven
  <2>3. \A d \in Devices : token'[d] \in Given' \cup {NoToken}
    BY <1>2, <1>3 DEF IInv, AllGiven
  <2>4. out' \subseteq Given'
    BY <1>2, <1>3 DEF IInv, AllGiven
  <2> QED BY <2>1, <2>2, <2>3, <2>4 DEF AllGiven
<1>10. /\ \A a \in answers : a.token # t
       /\ \A d \in Devices : token[d] # t
       /\ t \notin out
  BY <1>3 DEF IInv, AllGiven
<1>11. HeldOnce'
  BY <1>2, <1>7, <1>10 DEF IInv, HeldOnce
<1>12. \A u : Honoured(sessions, refused, u) => Honoured(sessions', refused', u)
  BY <1>5 DEF Honoured
<1>13. Honoured(sessions', refused', t)
  <2>1. CASE sessions' = sessions \cup {new}
    BY <1>6, <2>1 DEF Honoured
  <2>2. CASE refused' = refused \cup {t}
    BY <2>2 DEF Honoured
  <2> QED BY <1>5, <2>1, <2>2
<1>14. AllHonoured'
  BY <1>1, <1>2, <1>7, <1>12, <1>13 DEF IInv, AllHonoured
<1>15. LoggedOutStaysOut'
  BY <1>2, <1>5, <1>6, <1>10 DEF IInv, LoggedOutStaysOut, Valid
<1> QED BY <1>8, <1>9, <1>11, <1>14, <1>15 DEF IInv

LEMMA Inductive == IInv /\ [Next]_vars => IInv'
<1> SUFFICES ASSUME IInv, [Next]_vars PROVE IInv'
  OBVIOUS
<1>1. ASSUME NEW r \in Request, Ask(r.device, r.what, r.nick, r.password) PROVE IInv'
  <2>1. requests' \subseteq requests \cup {r}
    <3>1. r = [device |-> r.device, what |-> r.what, nick |-> r.nick, password |-> r.password]
      BY DEF Request
    <3> QED BY <1>1, <3>1 DEF Ask
  <2>2. UNCHANGED <<accounts, sessions, issued, token, screen, answers, refused, out>>
    BY <1>1 DEF Ask
  <2> QED BY <2>1, <2>2 DEF IInv, TypeOK, AllGiven, Given, HeldOnce, AllHonoured, Honoured,
                            LoggedOutStaysOut, Valid
<1>2. ASSUME NEW a \in answers, ReadAnswer(a) PROVE IInv'
  <2>1. /\ answers' = answers \ {a}
        /\ UNCHANGED <<accounts, sessions, issued, requests, refused, out>>
    BY <1>2 DEF ReadAnswer
  <2>2. CASE a.token = NoToken
    <3>1. UNCHANGED <<token, screen>>
      BY <1>2, <2>2 DEF ReadAnswer
    <3> QED BY <2>1, <3>1 DEF IInv, TypeOK, AllGiven, Given, HeldOnce, AllHonoured, Honoured,
                              LoggedOutStaysOut, Valid
  <2>3. CASE a.token # NoToken
    <3>1. /\ token' = [token EXCEPT ![a.device] = a.token]
          /\ screen' = [screen EXCEPT ![a.device] = "lobby"]
      BY <1>2, <2>3 DEF ReadAnswer
    <3>2. a.device \in Devices /\ a.token \in Given /\ Honoured(sessions, refused, a.token)
      BY <2>3 DEF IInv, AllHonoured, AllGiven
    <3>3. Given \subseteq Tokens
      BY AccountsAssumption DEF IInv, TypeOK, Given, Tokens
    <3>4. TypeOK'
      BY <2>1, <3>1, <3>2, <3>3 DEF IInv, TypeOK
    <3>5. /\ \A d \in Devices : token'[d] = IF d = a.device THEN a.token ELSE token[d]
          /\ \A d \in Devices : screen'[d] = IF d = a.device THEN "lobby" ELSE screen[d]
      BY <3>1 DEF IInv, TypeOK
    <3>6. AllGiven'
      BY <2>1, <3>2, <3>5 DEF IInv, AllGiven, Given
    <3>7. HeldOnce'
      BY <2>1, <2>3, <3>5 DEF IInv, HeldOnce
    <3>8. AllHonoured'
      BY <2>1, <2>3, <3>2, <3>5 DEF IInv, AllHonoured, Honoured
    <3>9. LoggedOutStaysOut'
      BY <2>1 DEF IInv, LoggedOutStaysOut, Valid
    <3> QED BY <3>4, <3>6, <3>7, <3>8, <3>9 DEF IInv
  <2> QED BY <2>2, <2>3
<1>3. CASE Lose
  <2>1. answers' \subseteq answers /\ requests' \subseteq requests
        /\ UNCHANGED <<accounts, sessions, issued, token, screen, refused, out>>
    BY <1>3 DEF Lose
  <2> QED BY <2>1 DEF IInv, TypeOK, AllGiven, Given, HeldOnce, AllHonoured, Honoured,
                      LoggedOutStaysOut, Valid
<1>4. ASSUME NEW r \in requests, HandleAuthRegister(r) \/ HandleAuthLogin(r) PROVE IInv'
  <2>1. accounts' \in [Nicks -> Passwords \cup {NoAccount}]
    <3>1. r.password \in Passwords /\ accounts \in [Nicks -> Passwords \cup {NoAccount}]
      BY DEF IInv, TypeOK, Request
    <3>2. CASE accounts' = [accounts EXCEPT ![r.nick] = r.password]
      BY <3>1, <3>2
    <3>3. CASE accounts' = accounts
      BY <3>1, <3>3
    <3> QED BY <1>4, <3>2, <3>3
            DEF HandleAuthRegister, HandleAuthLogin, Refused, Granted, SavePlayer
  <2>2. CASE Granted(r)
    BY <2>1, <2>2, GrantedStep
  <2>3. ASSUME NEW error, Refused(r, error) PROVE IInv'
    <3>1. /\ requests' \subseteq requests
          /\ UNCHANGED <<sessions, issued, token, screen, refused, out>>
          /\ \A a \in answers' : a \in answers \/ (a.token = NoToken /\ a.device = r.device)
      BY <2>3 DEF Refused, Answered
    <3> QED BY <2>1, <3>1, RefusedStep
  <2>4. CASE /\ requests' = requests \ {r} /\ answers' = answers
             /\ UNCHANGED <<sessions, issued, token, screen, refused, out>>
    BY <2>1, <2>4, RefusedStep
  <2> QED BY <1>4, <2>2, <2>3, <2>4 DEF HandleAuthRegister, HandleAuthLogin
<1>5. ASSUME NEW d \in Devices, HandleAuthLogout(d) PROVE IInv'
  <2> DEFINE t == token[d]
             Off(s) == IF s.token = t THEN [s EXCEPT !.active = FALSE] ELSE s
  <2>1. /\ sessions' = {Off(s) : s \in sessions} /\ out' = out \cup {t}
        /\ token' = [token EXCEPT ![d] = NoToken]
        /\ screen' = [screen EXCEPT ![d] = "login"]
        /\ UNCHANGED <<accounts, issued, requests, answers, refused>>
    BY <1>5 DEF HandleAuthLogout
  <2>2. t \in Given /\ t # NoToken
    <3>1. t \in Given
      BY <1>5 DEF HandleAuthLogout, Valid, IInv, AllGiven
    <3>2. PICK n \in Nicks, k \in 1 .. issued : t = <<n, k>>
      BY <3>1 DEF Given
    <3> QED BY <3>1, <3>2, NoTokenIsNone
  <2>3. ASSUME NEW s \in sessions
        PROVE  /\ Off(s) \in Session /\ Off(s).token = s.token /\ Off(s).user = s.user
               /\ Off(s).fresh = s.fresh
               /\ Off(s).active = (s.token # t /\ s.active)
    <3>1. s \in Session
      BY DEF IInv, TypeOK
    <3>2. s.active \in BOOLEAN
      BY <3>1 DEF Session
    <3>3. CASE s.token = t
      BY <3>1, <3>3 DEF Session
    <3>4. CASE s.token # t
      BY <3>1, <3>2, <3>4
    <3> QED BY <3>3, <3>4
  <2>4. /\ \A e \in Devices : token'[e] = IF e = d THEN NoToken ELSE token[e]
        /\ \A e \in Devices : screen'[e] = IF e = d THEN "login" ELSE screen[e]
    BY <2>1 DEF IInv, TypeOK
  <2> HIDE DEF t, Off
  <2>5. TypeOK'
    BY <2>1, <2>3 DEF IInv, TypeOK
  <2>6. AllGiven'
    BY <2>1, <2>2, <2>3, <2>4 DEF IInv, AllGiven, Given
  <2>7. HeldOnce'
    BY <2>1, <2>4 DEF IInv, HeldOnce
  <2>8. ASSUME NEW u, u # t, Honoured(sessions, refused, u)
        PROVE  Honoured(sessions', refused', u)
    BY <2>1, <2>3, <2>8 DEF Honoured
  <2>9. AllHonoured'
    <3>1. \A e \in Devices : e # d => token[e] # t
      BY <2>2 DEF IInv, HeldOnce, t
    <3>2. \A a \in answers : a.token # t
      BY <2>2 DEF IInv, HeldOnce, t
    <3>3. ASSUME NEW e \in Devices, screen'[e] = "lobby"
          PROVE  token'[e] # NoToken /\ Honoured(sessions', refused', token'[e])
      <4>1. e # d /\ screen[e] = "lobby" /\ token'[e] = token[e]
        BY <2>4, <3>3
      <4>2. token[e] # NoToken /\ Honoured(sessions, refused, token[e])
        BY <4>1 DEF IInv, AllHonoured
      <4> QED BY <2>8, <3>1, <4>1, <4>2
    <3>4. ASSUME NEW a \in answers', a.token # NoToken 
          PROVE  Honoured(sessions', refused', a.token)
      BY <2>1, <2>8, <3>2, <3>4 DEF IInv, AllHonoured
    <3>5. \A a \in answers' : a.device \in Devices
      BY <2>1 DEF IInv, AllHonoured
    <3> QED BY <3>3, <3>4, <3>5 DEF AllHonoured
  <2>10. LoggedOutStaysOut'
    <3>1. \A u \in out' : u = t \/ u \in out
      BY <2>1
    <3>2. ASSUME NEW s \in sessions, s.token \in out' PROVE ~ (Off(s).active /\ Off(s).fresh)
      BY <2>3, <3>1, <3>2 DEF IInv, LoggedOutStaysOut, Valid
    <3> QED BY <2>1, <2>3, <3>2 DEF LoggedOutStaysOut, Valid
  <2> QED BY <2>5, <2>6, <2>7, <2>9, <2>10 DEF IInv
<1>6. ASSUME NEW s \in sessions, Expire(s) PROVE IInv'
  <2> DEFINE e == [s EXCEPT !.fresh = FALSE]
  <2>1. sessions' = (sessions \ {s}) \cup {e}
        /\ UNCHANGED <<accounts, issued, token, screen, requests, answers, refused, out>>
    BY <1>6 DEF Expire
  <2>2. /\ e \in Session /\ e.token = s.token /\ e.user = s.user /\ ~ e.fresh
        /\ s.token[1] = s.user
    BY DEF IInv, TypeOK, Session
  <2> HIDE DEF e
  <2>3. TypeOK'
    BY <2>1, <2>2 DEF IInv, TypeOK
  <2>4. AllGiven' /\ HeldOnce'
    BY <2>1, <2>2 DEF IInv, AllGiven, Given, HeldOnce
  <2>5. \A u : Honoured(sessions, refused, u) => Honoured(sessions', refused', u)
    BY <2>1, <2>2 DEF Honoured
  <2>6. AllHonoured'
    BY <2>1, <2>5 DEF IInv, AllHonoured
  <2>7. LoggedOutStaysOut'
    BY <2>1, <2>2 DEF IInv, LoggedOutStaysOut, Valid
  <2> QED BY <2>3, <2>4, <2>6, <2>7 DEF IInv
<1>7. CASE UNCHANGED vars
  BY <1>7 DEF vars, IInv, TypeOK, AllGiven, Given, HeldOnce, AllHonoured, Honoured,
              LoggedOutStaysOut, Valid
<1> QED BY <1>1, <1>2, <1>3, <1>4, <1>5, <1>6, <1>7 DEF Next

LEMMA Always == Spec => []IInv
<1>1. ASSUME Init PROVE IInv
  <2>1. TypeOK
    BY <1>1, AccountsAssumption DEF Init, TypeOK
  <2>2. AllGiven /\ HeldOnce /\ AllHonoured /\ LoggedOutStaysOut
    BY <1>1 DEF Init, AllGiven, HeldOnce, AllHonoured, LoggedOutStaysOut
  <2> QED BY <2>1, <2>2 DEF IInv
<1> QED BY <1>1, Inductive, PTL DEF Spec

-----------------------------------------------------------------------------
(* The properties                                                          *)

\* TypeOK: every session is of the user its token names.
THEOREM TypeCorrect == Spec => []TypeOK
<1>1. IInv => TypeOK
  BY DEF IInv
<1> QED BY <1>1, Always, PTL

\* LoginsAreHonoured: no message, however late, and no other device ends a login or
\* undoes a logout.
THEOREM LoginsStayHonoured == Spec => []LoginsAreHonoured
<1>1. IInv => LoginsAreHonoured
  BY DEF IInv, AllHonoured, Honoured, LoginsAreHonoured, StaysLoggedIn
<1> QED BY <1>1, Always, PTL

\* AccountsAreKept: a repeated registration changes no account.
THEOREM AccountsStay == Spec => AccountsAreKept
<1> DEFINE Kept == \A n \in Nicks : accounts[n] # NoAccount => accounts'[n] = accounts[n]
<1>1. IInv /\ [Next]_vars => [Kept]_vars
  <2> SUFFICES ASSUME IInv, [Next]_vars PROVE Kept
    OBVIOUS
  <2>1. ASSUME NEW r \in requests, SavePlayer(r) PROVE Kept
    BY <2>1 DEF SavePlayer, IInv, TypeOK, Request
  <2>2. CASE accounts' = accounts
    BY <2>2
  <2> QED BY <2>1, <2>2
          DEF Next, vars, Ask, ReadAnswer, Lose, HandleAuthRegister, HandleAuthLogin, Refused,
              Granted, HandleAuthLogout, Expire
<1> QED BY <1>1, Always, PTL DEF Spec, AccountsAreKept
=============================================================================
