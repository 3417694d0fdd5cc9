-------------------------- MODULE AdminAuthProofs --------------------------
(***************************************************************************)
(* Theorems about AdminAuth, for any accounts, clients and token lives.    *)
(***************************************************************************)
EXTENDS AdminAuth, TLAPS

-----------------------------------------------------------------------------
(* Types, and what a request that is about to open a session has passed.   *)

Fits(q) ==
    /\ q \in Request
    /\ q.pc \in {"compare", "push", "resetWrite"} =>
           /\ q.admin \in Admins \ Disabled
           /\ \A t \in q.token : t.admin = q.admin
    /\ q.pc = "resetWrite" => q.given \in Passwords
    /\ q.pc \in {"forgetWrite", "forgetMail"} => q.admin \in Admins
    /\ q.pc = "auth" => q.then \in {"work", "logout", "password"}

ReqOK == req \in [Clients -> Request] /\ \A c \in Clients : Fits(req[c])

DataOK ==
    /\ password \in [Admins -> Passwords]
    /\ sessions \in [Admins -> SUBSET Token]
    /\ \A a \in Admins : \A t \in sessions[a] : t.admin = a
    /\ resetToken \in [Admins -> Nat]
    /\ generated \in Nat /\ now \in Nat /\ failures \in Nat
    /\ mailed \subseteq [admin : Admins, token : Nat] /\ redeemed \subseteq Nat
    /\ ended \subseteq Token
    /\ up \in BOOLEAN
    /\ holds \in [Clients -> SUBSET Token]
    /\ reply \in [Clients -> Nat]

Typed == DataOK /\ ReqOK

LEMMA TypedTypeOK == Typed => TypeOK
  BY DEF Typed, DataOK, ReqOK, TypeOK

LEMMA IdleFits == Fits(IdleRequest) /\ IdleRequest.pc = "idle" /\ IdleRequest.token = {}
  BY AuthAssumption DEF Fits, IdleRequest, Request, Stage

LEMMA SignTyped ==
    ASSUME NEW a \in Admins, NEW life \in Lives, now \in Nat
    PROVE  Sign(a, life) \in Token /\ Sign(a, life).admin = a
  BY DEF Sign, Token

\* A request moves to a record that fits.
LEMMA Moves ==
    ASSUME ReqOK, NEW c \in Clients, NEW q, Fits(q), req' = [req EXCEPT ![c] = q]
    PROVE  ReqOK'
  BY DEF ReqOK, Fits

LEMMA Answers ==
    ASSUME Typed, NEW c \in Clients, NEW status \in Nat, Answer(c, status)
    PROVE  ReqOK' /\ reply' \in [Clients -> Nat]
  BY IdleFits, Moves DEF Typed, DataOK, Answer

\* A request goes on to a stage that asks nothing more of it.
LEMMA GoesOn ==
    ASSUME ReqOK, NEW c \in Clients, NEW s \in {"work", "logout", "password"},
           Goto(c, s)
    PROVE  ReqOK'
  <1> DEFINE p == [req[c] EXCEPT !.pc = s]
  <1>1. p \in Request /\ p.pc = s
    BY DEF ReqOK, Request, Stage
  <1>2. req' = [req EXCEPT ![c] = p]
    BY DEF ReqOK, Goto
  <1> HIDE DEF p
  <1>3. Fits(p)
    BY <1>1 DEF Fits
  <1>4. QED
    BY <1>2, <1>3, Moves

LEMMA Rejects ==
    ASSUME Typed, NEW c \in Clients, NEW status \in Nat, Reject(c, status)
    PROVE  ReqOK' /\ reply' \in [Clients -> Nat] /\ holds' \in [Clients -> SUBSET Token]
  BY Answers DEF Typed, DataOK, Reject

LEMMA InitTyped == Init => Typed
  BY AuthAssumption, IdleFits DEF Init, Typed, DataOK, ReqOK, Fits

LEMMA NextTyped == Typed /\ [Next]_vars => Typed'
  <1> SUFFICES ASSUME Typed, [Next]_vars PROVE Typed'
    OBVIOUS
  <1> USE AuthAssumption
  <1>1. ASSUME NEW c \in Clients, NEW a \in Accounts[c], LoginRefused(c, a)
        PROVE  Typed'
    <2>1. ReqOK' /\ reply' \in [Clients -> Nat]
      BY <1>1, Answers DEF LoginRefused
    <2>2. QED
      BY <1>1, <2>1 DEF LoginRefused, stored, links, Typed, DataOK
  <1>2. ASSUME NEW c \in Clients, NEW a \in Accounts[c], NEW pw \in Passwords,
               NEW life \in Lives, LoginRead(c, a, pw, life)
        PROVE  Typed'
    <2> DEFINE q == [IdleRequest EXCEPT !.pc = "compare", !.admin = a, !.given = pw,
                                        !.read = password[a], !.life = life]
    <2>1. a \in Admins \ Disabled /\ req' = [req EXCEPT ![c] = q]
      BY <1>2 DEF LoginRead
    <2>2. password[a] \in Passwords
      BY <2>1 DEF Typed, DataOK
    <2>3. Fits(q)
      BY <2>1, <2>2 DEF Fits, IdleRequest, Request, Stage
    <2> HIDE DEF q
    <2>4. ReqOK'
      BY <2>1, <2>3, Moves DEF Typed
    <2>5. QED
      BY <1>2, <2>4 DEF LoginRead, stored, links, Typed, DataOK
  <1>3. ASSUME NEW c \in Clients, LoginCompare(c)
        PROVE  Typed'
    <2> DEFINE q == req[c]
               t == Sign(q.admin, q.life)
               p == [q EXCEPT !.pc = "push", !.token = {t}]
    <2>1. q.pc = "compare" /\ UNCHANGED <<stored, links, ended, now, up, holds, failures>>
      BY <1>3 DEF LoginCompare
    <2>2. q.admin \in Admins \ Disabled /\ q.life \in Lives /\ q \in Request
      BY <2>1 DEF Typed, ReqOK, Fits, Request
    <2>3. t \in Token /\ t.admin = q.admin
      BY <2>2, SignTyped DEF Typed, DataOK
    <2>4. \/ Answer(c, 403)
          \/ req' = [req EXCEPT ![c] = p] /\ reply' = reply
      BY <1>3 DEF LoginCompare, Typed, ReqOK
    <2>5. p \in Request /\ p.pc = "push" /\ p.token = {t} /\ p.admin = q.admin
      <3> HIDE DEF t
      <3>1. QED
        BY <2>2, <2>3 DEF Request, Stage
    <2>6. Fits(p)
      <3> HIDE DEF t, p
      <3>1. QED
        BY <2>2, <2>3, <2>5 DEF Fits
    <2> HIDE DEF p
    <2>7. ReqOK' /\ reply' \in [Clients -> Nat]
      BY <2>4, <2>6, Answers, Moves DEF Typed, DataOK
    <2>8. QED
      BY <2>1, <2>7 DEF stored, links, Typed, DataOK
  <1>4. ASSUME NEW c \in Clients, LoginPush(c)
        PROVE  Typed'
    <2>1. /\ req[c].token \subseteq Token
          /\ \A t \in req[c].token : t.admin = req[c].admin
      BY <1>4 DEF LoginPush, Typed, ReqOK, Fits, Request
    <2>2. sessions' = [sessions EXCEPT ![req[c].admin] = @ \union req[c].token]
      BY <1>4 DEF LoginPush, Push
    <2>3. /\ sessions' \in [Admins -> SUBSET Token]
          /\ \A a \in Admins : \A t \in sessions'[a] : t.admin = a
      BY <2>1, <2>2 DEF Typed, DataOK
    <2>4. ReqOK' /\ reply' \in [Clients -> Nat]
      BY <1>4, Answers DEF LoginPush
    <2>5. holds' \in [Clients -> SUBSET Token] /\ ended' \subseteq Token
      BY <1>4, <2>1 DEF LoginPush, Typed, DataOK
    <2>6. QED
      BY <1>4, <2>3, <2>4, <2>5 DEF LoginPush, links, Typed, DataOK
  <1>5. ASSUME NEW c \in Clients, NEW stage \in {"work", "logout", "password"},
               NEW a \in Admins \union {Unknown}, NEW pw \in Passwords \union {Invalid},
               AuthVerify(c, stage, a, pw)
        PROVE  Typed'
    <2> DEFINE q == [IdleRequest EXCEPT !.pc = "auth", !.admin = a, !.given = pw,
                                        !.token = holds[c], !.then = stage]
    <2>1. \/ \E s \in {401, 500} : Reject(c, s)
          \/ req' = [req EXCEPT ![c] = q] /\ UNCHANGED <<reply, holds>>
      BY <1>5 DEF AuthVerify
    <2>2. UNCHANGED <<stored, links, ended, now, up, failures>>
      BY <1>5 DEF AuthVerify
    <2>3. Fits(q)
      BY DEF Fits, IdleRequest, Request, Stage, Typed, DataOK
    <2> HIDE DEF q
    <2>4. /\ ReqOK' /\ reply' \in [Clients -> Nat]
          /\ holds' \in [Clients -> SUBSET Token]
      BY <2>1, <2>3, Rejects, Moves DEF Typed, DataOK
    <2>5. QED
      BY <2>2, <2>4 DEF stored, links, Typed, DataOK
  <1>6. ASSUME NEW c \in Clients, AuthRead(c)
        PROVE  Typed'
    <2>1. req[c].then \in {"work", "logout", "password"}
      BY <1>6 DEF AuthRead, Typed, ReqOK, Fits
    <2>2. \/ Reject(c, 401)
          \/ Goto(c, req[c].then) /\ UNCHANGED <<reply, holds>>
      BY <1>6 DEF AuthRead
    <2>3. /\ ReqOK' /\ reply' \in [Clients -> Nat]
          /\ holds' \in [Clients -> SUBSET Token]
      BY <2>1, <2>2, Rejects, GoesOn DEF Typed, DataOK
    <2>4. QED
      BY <1>6, <2>3 DEF AuthRead, stored, links, Typed, DataOK
  <1>7. ASSUME NEW c \in Clients, Work(c)
        PROVE  Typed'
    <2>1. \/ \E s \in {401, 500} : Reject(c, s)
          \/ Answer(c, 200) /\ UNCHANGED holds
      BY <1>7 DEF Work
    <2>2. /\ ReqOK' /\ reply' \in [Clients -> Nat]
          /\ holds' \in [Clients -> SUBSET Token]
      BY <2>1, Rejects, Answers DEF Typed, DataOK
    <2>3. QED
      BY <1>7, <2>2 DEF Work, stored, links, Typed, DataOK
  <1>8. ASSUME NEW c \in Clients, Logout(c)
        PROVE  Typed'
    <2>1. /\ ReqOK' /\ reply' \in [Clients -> Nat]
          /\ holds' \in [Clients -> SUBSET Token]
      BY <1>8, Rejects DEF Logout
    <2>2. req[c].token \subseteq Token
      BY DEF Typed, ReqOK, Request
    <2>3. sessions' = [a \in Admins |-> sessions[a] \ req[c].token]
      BY <1>8 DEF Logout, Pull
    <2>4. /\ sessions' \in [Admins -> SUBSET Token]
          /\ \A a \in Admins : \A t \in sessions'[a] : t.admin = a
      BY <2>3 DEF Typed, DataOK
    <2>5. QED
      BY <1>8, <2>1, <2>2, <2>4 DEF Logout, links, Typed, DataOK
  <1>9. ASSUME NEW c \in Clients, ChangePassword(c)
        PROVE  Typed'
    <2>1. \E s \in {200, 400, 403} : Answer(c, s)
      BY <1>9 DEF ChangePassword
    <2>2. ReqOK' /\ reply' \in [Clients -> Nat]
      BY <2>1, Answers
    <2>3. password' \in [Admins -> Passwords]
      BY <1>9 DEF ChangePassword, Typed, DataOK, ReqOK, Request
    <2>4. QED
      BY <1>9, <2>2, <2>3 DEF ChangePassword, links, Typed, DataOK
  <1>10. ASSUME NEW c \in Clients, NEW a \in Accounts[c], ForgetRead(c, a)
         PROVE  Typed'
    <2> DEFINE q == [IdleRequest EXCEPT !.pc = "forgetWrite", !.admin = a]
    <2>1. a \in Admins \union {Unknown}
      OBVIOUS
    <2>2. \/ Answer(c, 500)
          \/ a \in Admins /\ req' = [req EXCEPT ![c] = q] /\ reply' = reply
      BY <1>10, <2>1 DEF ForgetRead
    <2>3. a \in Admins => Fits(q)
      BY DEF Fits, IdleRequest, Request, Stage
    <2> HIDE DEF q
    <2>4. ReqOK' /\ reply' \in [Clients -> Nat]
      BY <2>2, <2>3, Answers, Moves DEF Typed, DataOK
    <2>5. QED
      BY <1>10, <2>4 DEF ForgetRead, stored, links, Typed, DataOK
  <1>11. ASSUME NEW c \in Clients, ForgetWrite(c)
         PROVE  Typed'
    <2> DEFINE p == [req[c] EXCEPT !.pc = "forgetMail", !.link = generated']
    <2>1. req[c].pc = "forgetWrite" /\ generated' = generated + 1
      BY <1>11 DEF ForgetWrite
    <2>2. generated' \in Nat /\ req[c] \in Request /\ req[c].admin \in Admins
      BY <2>1 DEF Typed, DataOK, ReqOK, Fits
    <2>3. req' = [req EXCEPT ![c] = p]
      BY <1>11 DEF ForgetWrite, Typed, ReqOK
    <2>4. p \in Request /\ p.pc = "forgetMail" /\ p.admin \in Admins
      BY <2>2 DEF Request, Stage
    <2> HIDE DEF p
    <2>5. Fits(p)
      BY <2>4 DEF Fits
    <2>6. ReqOK'
      BY <2>3, <2>5, Moves DEF Typed
    <2>7. resetToken' \in [Admins -> Nat]
      BY <1>11, <2>2 DEF ForgetWrite, Typed, DataOK
    <2>8. QED
      BY <1>11, <2>2, <2>6, <2>7 DEF ForgetWrite, Typed, DataOK
  <1>12. ASSUME NEW c \in Clients, ForgetMail(c)
         PROVE  Typed'
    <2>1. ReqOK' /\ reply' \in [Clients -> Nat]
      BY <1>12, Answers DEF ForgetMail
    <2>2. req[c].admin \in Admins /\ req[c].link \in Nat
      BY <1>12 DEF ForgetMail, Typed, ReqOK, Fits, Request
    <2>3. QED
      BY <1>12, <2>1, <2>2 DEF ForgetMail, stored, Typed, DataOK
  <1>13. ASSUME NEW c \in Clients, NEW a \in Accounts[c], NEW link \in Links(a),
                ResetRefused(c, a, link)
         PROVE  Typed'
    <2>1. ReqOK' /\ reply' \in [Clients -> Nat]
      BY <1>13, Answers DEF ResetRefused
    <2>2. QED
      BY <1>13, <2>1 DEF ResetRefused, stored, links, Typed, DataOK
  <1>14. ASSUME NEW c \in Clients, NEW a \in Accounts[c], NEW link \in Links(a),
                NEW pw \in Passwords, ResetRead(c, a, link, pw)
         PROVE  Typed'
    <2> DEFINE t == Sign(a, Day)
               q == [IdleRequest EXCEPT !.pc = "resetWrite", !.admin = a, !.given = pw,
                                        !.link = link, !.token = {t}]
    <2>1. a \in Admins \ Disabled /\ req' = [req EXCEPT ![c] = q]
      BY <1>14 DEF ResetRead
    <2>2. t \in Token /\ t.admin = a
      BY <2>1, SignTyped DEF Typed, DataOK
    <2>3. link \in Nat
      BY DEF Links, Typed, DataOK
    <2>4. Fits(q)
      <3> HIDE DEF t
      <3>1. QED
        BY <2>1, <2>2, <2>3 DEF Fits, IdleRequest, Request, Stage
    <2> HIDE DEF q
    <2>5. ReqOK'
      BY <2>1, <2>4, Moves DEF Typed
    <2>6. QED
      BY <1>14, <2>5 DEF ResetRead, stored, links, Typed, DataOK
  <1>15. ASSUME NEW c \in Clients, ResetWrite(c)
         PROVE  Typed'
    <2>1. /\ req[c] \in Request /\ req[c].token \subseteq Token
          /\ req[c].admin \in Admins /\ req[c].link \in Nat
          /\ \A t \in req[c].token : t.admin = req[c].admin
      BY <1>15 DEF ResetWrite, Typed, ReqOK, Fits, Request
    <2>2. sessions' = [sessions EXCEPT ![req[c].admin] = @ \union req[c].token]
      BY <1>15 DEF ResetWrite, Push
    <2>3. /\ sessions' \in [Admins -> SUBSET Token]
          /\ \A a \in Admins : \A t \in sessions'[a] : t.admin = a
      BY <2>1, <2>2 DEF Typed, DataOK
    <2>4. ReqOK' /\ reply' \in [Clients -> Nat]
      BY <1>15, Answers DEF ResetWrite
    <2>5. generated' \in Nat /\ resetToken' \in [Admins -> Nat]
      <3>1. generated' = generated + 1 /\ resetToken' = Rotated(req[c].admin)
        BY <1>15 DEF ResetWrite
      <3>2. generated' \in Nat
        BY <3>1 DEF Typed, DataOK
      <3>3. QED
        BY <3>1, <3>2 DEF Rotated, Typed, DataOK
    <2>6. holds' \in [Clients -> SUBSET Token] /\ ended' \subseteq Token
      BY <1>15, <2>1 DEF ResetWrite, Typed, DataOK
    <2>7. password' \in [Admins -> Passwords]
      <3>1. password' = [password EXCEPT ![req[c].admin] = req[c].given]
        BY <1>15 DEF ResetWrite
      <3>2. req[c].given \in Passwords
        BY <1>15 DEF ResetWrite, Typed, ReqOK, Fits
      <3>3. QED
        BY <3>1, <3>2 DEF Typed, DataOK
    <2>8. redeemed' \subseteq Nat /\ UNCHANGED <<mailed, now, up, failures>>
      BY <1>15, <2>1 DEF ResetWrite, Typed, DataOK
    <2>9. QED
      BY <2>3, <2>4, <2>5, <2>6, <2>7, <2>8 DEF Typed, DataOK
  <1>16. ASSUME NEW c \in Clients, CallFails(c)
         PROVE  Typed'
    <2>1. \/ Reject(c, 500)
          \/ Answer(c, 500) /\ UNCHANGED holds
      BY <1>16 DEF CallFails
    <2>2. /\ ReqOK' /\ reply' \in [Clients -> Nat]
          /\ holds' \in [Clients -> SUBSET Token]
      BY <2>1, Rejects, Answers DEF Typed, DataOK
    <2>3. QED
      BY <1>16, <2>2 DEF CallFails, stored, links, Typed, DataOK
  <1>17. ASSUME NEW c \in Clients, PushFails(c)
         PROVE  Typed'
    <2>1. ReqOK'
      BY <1>17, IdleFits DEF PushFails, ReqOK, Fits
    <2>2. reply' \in [Clients -> Nat]
      BY <1>17 DEF PushFails, Typed, DataOK
    <2>3. /\ failures' = failures + 1 /\ up' = FALSE
          /\ UNCHANGED <<stored, links, ended, now, holds>>
      BY <1>17 DEF PushFails
    <2>4. up' \in BOOLEAN
      BY <2>3
    <2>5. failures' \in Nat
      BY <2>3 DEF Typed, DataOK
    <2>6. UNCHANGED <<password, sessions, resetToken, generated, mailed, redeemed,
                      ended, now, holds>>
      BY <2>3 DEF stored, links
    <2>7. QED
      BY <2>1, <2>2, <2>4, <2>5, <2>6 DEF Typed, DataOK
  <1>18. CASE Tick
    BY <1>18 DEF Tick, stored, links, Typed, DataOK, ReqOK
  <1>19. CASE UNCHANGED vars
    BY <1>19 DEF vars, stored, links, Typed, DataOK, ReqOK
  <1>20. ASSUME NEW c \in Clients, Begin(c) PROVE Typed'
    <2>1. PICK a \in Accounts[c] :
              \/ LoginRefused(c, a)
              \/ \E pw \in Passwords, life \in Lives : LoginRead(c, a, pw, life)
              \/ ForgetRead(c, a)
              \/ \E link \in Links(a) :
                     \/ ResetRefused(c, a, link)
                     \/ \E pw \in Passwords : ResetRead(c, a, link, pw)
              \/ \E stage \in {"work", "logout"} : AuthVerify(c, stage, a, Invalid)
      BY <1>20 DEF Begin
    <2>2. a \in Admins \union {Unknown}
      OBVIOUS
    <2>3. QED
      BY <2>1, <2>2, <1>1, <1>2, <1>5, <1>10, <1>13, <1>14
  <1>21. ASSUME NEW c \in Clients, ChangeBegin(c) PROVE Typed'
    <2>1. PICK a \in UNION {Accounts[d] : d \in Clients}, pw \in Passwords \union {Invalid} :
              AuthVerify(c, "password", a, pw)
      BY <1>21 DEF ChangeBegin
    <2>2. a \in Admins \union {Unknown}
      OBVIOUS
    <2>3. QED
      BY <2>1, <2>2, <1>5
  <1>22. QED
    BY <1>3, <1>4, <1>6, <1>7, <1>8, <1>9, <1>11, <1>12, <1>15, <1>16, <1>17,
       <1>18, <1>19, <1>20, <1>21
    DEF Next, Continue

\* Every session in the database is one of the account it is listed under.
THEOREM TypeCorrect == Spec => []TypeOK
  BY InitTyped, NextTyped, TypedTypeOK, PTL DEF Spec

-----------------------------------------------------------------------------
(* Sessions are opened by the end of a login or a reset and closed by a     *)
(* logout; nothing else touches them.                                       *)

Opens(c) == LoginPush(c) \/ ResetWrite(c)

LEMMA Opening ==
    ASSUME Typed, NEW c \in Clients, Opens(c)
    PROVE  /\ sessions' = [sessions EXCEPT ![req[c].admin] = @ \union req[c].token]
           /\ ended' = ended \ req[c].token
           /\ holds' = [holds EXCEPT ![c] = req[c].token]
           /\ req[c].admin \in Admins \ Disabled
           /\ \A t \in req[c].token : t \in Token /\ t.admin = req[c].admin
  BY DEF Opens, LoginPush, ResetWrite, Push, Typed, ReqOK, Fits, Request

\* Every other step leaves the sessions alone; clients drop tokens at most.
SessionsRest ==
    /\ UNCHANGED <<sessions, ended>>
    /\ \A c \in Clients : holds'[c] \subseteq holds[c]

LEMMA RejectDrops ==
    ASSUME Typed, NEW c \in Clients, NEW status, Reject(c, status)
    PROVE  \A d \in Clients : holds'[d] \subseteq holds[d]
  BY DEF Reject, Typed, DataOK

LEMMA SessionSteps ==
    ASSUME Typed, [Next]_vars
    PROVE  SessionsRest \/ \E c \in Clients : Opens(c) \/ Logout(c)
  <1>1. ASSUME NEW c \in Clients, Begin(c) PROVE SessionsRest
    <2>1. PICK a \in Accounts[c] :
              \/ LoginRefused(c, a)
              \/ \E pw \in Passwords, life \in Lives : LoginRead(c, a, pw, life)
              \/ ForgetRead(c, a)
              \/ \E link \in Links(a) :
                     \/ ResetRefused(c, a, link)
                     \/ \E pw \in Passwords : ResetRead(c, a, link, pw)
              \/ \E stage \in {"work", "logout"} : AuthVerify(c, stage, a, Invalid)
      BY <1>1 DEF Begin
    <2>2. CASE \E stage \in {"work", "logout"} : AuthVerify(c, stage, a, Invalid)
      BY <2>2, RejectDrops DEF AuthVerify, SessionsRest, stored
    <2>3. CASE LoginRefused(c, a)
      BY <2>3 DEF LoginRefused, SessionsRest, stored
    <2>4. CASE \E pw \in Passwords, life \in Lives : LoginRead(c, a, pw, life)
      BY <2>4 DEF LoginRead, SessionsRest, stored
    <2>5. CASE ForgetRead(c, a)
      BY <2>5 DEF ForgetRead, SessionsRest, stored
    <2>6. CASE \E link \in Links(a) :
                   \/ ResetRefused(c, a, link)
                   \/ \E pw \in Passwords : ResetRead(c, a, link, pw)
      BY <2>6 DEF ResetRefused, ResetRead, SessionsRest, stored
    <2>7. QED
      BY <2>1, <2>2, <2>3, <2>4, <2>5, <2>6
  <1>2. ASSUME NEW c \in Clients, ChangeBegin(c) PROVE SessionsRest
    BY <1>2, RejectDrops DEF ChangeBegin, AuthVerify, SessionsRest, stored
  <1>3. ASSUME NEW c \in Clients, LoginCompare(c) PROVE SessionsRest
    BY <1>3 DEF LoginCompare, SessionsRest, stored
  <1>4. ASSUME NEW c \in Clients, AuthRead(c) PROVE SessionsRest
    BY <1>4, RejectDrops DEF AuthRead, SessionsRest, stored
  <1>5. ASSUME NEW c \in Clients, Work(c) PROVE SessionsRest
    BY <1>5, RejectDrops DEF Work, SessionsRest, stored
  <1>6. ASSUME NEW c \in Clients, ChangePassword(c) PROVE SessionsRest
    BY <1>6 DEF ChangePassword, SessionsRest
  <1>7. ASSUME NEW c \in Clients, ForgetWrite(c) \/ ForgetMail(c) PROVE SessionsRest
    BY <1>7 DEF ForgetWrite, ForgetMail, SessionsRest, stored
  <1>8. ASSUME NEW c \in Clients, CallFails(c) PROVE SessionsRest
    BY <1>8, RejectDrops DEF CallFails, SessionsRest, stored
  <1>9. ASSUME NEW c \in Clients, PushFails(c) PROVE SessionsRest
    BY <1>9 DEF PushFails, SessionsRest, stored
  <1>10. CASE Tick \/ UNCHANGED vars
    BY <1>10 DEF Tick, vars, SessionsRest, stored
  <1>11. QED
    BY <1>1, <1>2, <1>3, <1>4, <1>5, <1>6, <1>7, <1>8, <1>9, <1>10
    DEF Next, Continue, Opens

LEMMA NextKept == Typed /\ SessionsKept /\ [Next]_vars => SessionsKept'
  <1> SUFFICES ASSUME Typed, SessionsKept, [Next]_vars,
                      NEW d \in Clients, NEW t \in holds'[d]
               PROVE  t \in sessions'[t.admin] \/ t \in ended'
    BY DEF SessionsKept
  <1>1. \A u \in Token : u.admin \in Admins
    BY DEF Token
  <1>2. \A u \in holds[d] : u \in Token /\ (u \in sessions[u.admin] \/ u \in ended)
    BY DEF SessionsKept, Typed, DataOK
  <1>3. CASE SessionsRest
    BY <1>2, <1>3 DEF SessionsRest
  <1>4. ASSUME NEW c \in Clients, Opens(c) PROVE t \in sessions'[t.admin] \/ t \in ended'
    <2>1. t \in holds[d] \/ t \in req[c].token
      BY <1>4, Opening DEF Typed, DataOK
    <2>2. t \in Token
      BY <1>2, <1>4, <2>1, Opening
    <2>3. \A a \in Admins : sessions[a] \subseteq sessions'[a]
      BY <1>4, Opening DEF Typed, DataOK
    <2>4. t \in req[c].token => t \in sessions'[t.admin]
      BY <1>4, Opening DEF Typed, DataOK
    <2>5. QED
      BY <1>1, <1>2, <1>4, <2>1, <2>2, <2>3, <2>4, Opening
  <1>5. ASSUME NEW c \in Clients, Logout(c) PROVE t \in sessions'[t.admin] \/ t \in ended'
    <2>1. /\ sessions' = [a \in Admins |-> sessions[a] \ req[c].token]
          /\ ended' = ended \union req[c].token
      BY <1>5 DEF Logout, Pull
    <2>2. t \in holds[d]
      BY <1>5, RejectDrops DEF Logout
    <2>3. QED
      BY <1>1, <1>2, <2>1, <2>2
  <1>6. QED
    BY <1>3, <1>4, <1>5, SessionSteps

\* No interleaving of requests, for any number of clients sharing accounts,
\* takes away a session whose token was not itself logged out.
THEOREM SessionsSurvive == Spec => []SessionsKept
  <1>1. Init => SessionsKept
    BY DEF Init, SessionsKept
  <1>2. QED
    BY <1>1, InitTyped, NextTyped, NextKept, PTL DEF Spec

\* A disabled account never has a session, whatever its password and links.
THEOREM DisabledStayOut == Spec => []DisabledOut
  <1>1. Init => DisabledOut
    BY AuthAssumption DEF Init, DisabledOut
  <1>2. Typed /\ DisabledOut /\ [Next]_vars => DisabledOut'
    <2> SUFFICES ASSUME Typed, DisabledOut, [Next]_vars, NEW a \in Disabled
                 PROVE  sessions'[a] = {}
      BY DEF DisabledOut
    <2>1. a \in Admins /\ sessions[a] = {}
      BY AuthAssumption DEF DisabledOut
    <2>2. CASE SessionsRest
      BY <2>1, <2>2 DEF SessionsRest
    <2>3. ASSUME NEW c \in Clients, Opens(c) PROVE sessions'[a] = {}
      BY <2>1, <2>3, Opening DEF Typed, DataOK
    <2>4. ASSUME NEW c \in Clients, Logout(c) PROVE sessions'[a] = {}
      BY <2>1, <2>4 DEF Logout, Pull
    <2>5. QED
      BY <2>2, <2>3, <2>4, SessionSteps
  <1>3. QED
    BY <1>1, <1>2, InitTyped, NextTyped, PTL DEF Spec

-----------------------------------------------------------------------------
(* Reset links, one request at a time.                                      *)

LinkInv ==
    /\ Typed
    /\ \A l \in redeemed : l <= generated
    /\ \A a \in Admins : resetToken[a] <= generated /\ resetToken[a] \notin redeemed
    /\ \A a, b \in Admins : resetToken[a] = resetToken[b] => a = b \/ resetToken[a] = 0
    /\ 0 \notin redeemed
    /\ \A c \in Clients : req[c].pc = "resetWrite" =>
           req[c].link # 0 /\ resetToken[req[c].admin] = req[c].link

LinksRest ==
    /\ UNCHANGED <<resetToken, generated, redeemed>>
    /\ \A c \in Clients : req'[c] = req[c] \/ req'[c].pc # "resetWrite"

LEMMA AnswerRests ==
    ASSUME Typed, NEW c \in Clients, NEW status, Answer(c, status)
    PROVE  \A d \in Clients : req'[d] = req[d] \/ req'[d].pc # "resetWrite"
  BY IdleFits DEF Answer, Typed, ReqOK

LEMMA RejectRests ==
    ASSUME Typed, NEW c \in Clients, NEW status, Reject(c, status)
    PROVE  \A d \in Clients : req'[d] = req[d] \/ req'[d].pc # "resetWrite"
  BY AnswerRests DEF Reject

LEMMA LinkSteps ==
    ASSUME Typed, [Next]_vars
    PROVE  \/ LinksRest
           \/ \E c \in Clients :
                  \/ ForgetWrite(c) \/ ResetWrite(c)
                  \/ \E a \in Accounts[c] : \E link \in Links(a), pw \in Passwords :
                         ResetRead(c, a, link, pw)
  <1>0. ReqOK
    BY DEF Typed
  <1>1. ASSUME NEW c \in Clients, NEW a, NEW stage \in {"work", "logout", "password"},
               NEW pw, AuthVerify(c, stage, a, pw)
        PROVE  LinksRest
    <2> DEFINE q == [IdleRequest EXCEPT !.pc = "auth", !.admin = a, !.given = pw,
                                        !.token = holds[c], !.then = stage]
    <2>1. q.pc = "auth"
      BY DEF IdleRequest
    <2>2. \/ \E s \in {401, 500} : Reject(c, s)
          \/ req' = [req EXCEPT ![c] = q]
      BY <1>1 DEF AuthVerify
    <2> HIDE DEF q
    <2>3. \A d \in Clients : req'[d] = req[d] \/ req'[d].pc # "resetWrite"
      BY <2>1, <2>2, RejectRests DEF Typed, ReqOK
    <2>4. QED
      BY <1>1, <2>3 DEF AuthVerify, LinksRest, stored, links
  <1>2. ASSUME NEW c \in Clients, NEW a \in Accounts[c],
               \/ LoginRefused(c, a)
               \/ \E pw \in Passwords, life \in Lives : LoginRead(c, a, pw, life)
               \/ ForgetRead(c, a)
               \/ \E link \in Links(a) : ResetRefused(c, a, link)
        PROVE  LinksRest
    <2>1. UNCHANGED <<stored, links>>
      BY <1>2 DEF LoginRefused, LoginRead, ForgetRead, ResetRefused
    <2>2. ASSUME NEW q, q.pc \in {"compare", "forgetWrite"}, req' = [req EXCEPT ![c] = q]
          PROVE  \A d \in Clients : req'[d] = req[d] \/ req'[d].pc # "resetWrite"
      BY <1>0, <2>2 DEF ReqOK
    <2>3. \A d \in Clients : req'[d] = req[d] \/ req'[d].pc # "resetWrite"
      <3>1. CASE \E s : Answer(c, s)
        BY <3>1, AnswerRests
      <3>2. ASSUME NEW pw \in Passwords, NEW life \in Lives, LoginRead(c, a, pw, life)
            PROVE  \A d \in Clients : req'[d] = req[d] \/ req'[d].pc # "resetWrite"
        <4> DEFINE q == [IdleRequest EXCEPT !.pc = "compare", !.admin = a, !.given = pw,
                                            !.read = password[a], !.life = life]
        <4>1. q.pc = "compare" /\ req' = [req EXCEPT ![c] = q]
          BY <3>2 DEF LoginRead, IdleRequest
        <4> HIDE DEF q
        <4>2. QED
          BY <2>2, <4>1
      <3>3. CASE ForgetRead(c, a)
        <4> DEFINE q == [IdleRequest EXCEPT !.pc = "forgetWrite", !.admin = a]
        <4>1. q.pc = "forgetWrite" /\ (Answer(c, 500) \/ req' = [req EXCEPT ![c] = q])
          BY <3>3 DEF ForgetRead, IdleRequest
        <4> HIDE DEF q
        <4>2. QED
          BY <2>2, <3>1, <4>1
      <3>4. QED
        BY <1>2, <3>1, <3>2, <3>3 DEF LoginRefused, ResetRefused
    <2>4. QED
      BY <2>1, <2>3 DEF LinksRest, stored, links
  <1>3. ASSUME NEW c \in Clients, LoginCompare(c) PROVE LinksRest
    <2> DEFINE q == [req[c] EXCEPT !.pc = "push",
                                   !.token = {Sign(req[c].admin, req[c].life)}]
    <2>1. q.pc = "push"
      BY DEF Typed, ReqOK, Fits, Request
    <2>2. Answer(c, 403) \/ req' = [req EXCEPT ![c] = q]
      BY <1>3 DEF LoginCompare, Typed, ReqOK
    <2> HIDE DEF q
    <2>3. \A d \in Clients : req'[d] = req[d] \/ req'[d].pc # "resetWrite"
      BY <2>1, <2>2, AnswerRests DEF Typed, ReqOK
    <2>4. QED
      BY <1>3, <2>3 DEF LoginCompare, LinksRest, stored, links
  <1>4. ASSUME NEW c \in Clients, LoginPush(c) \/ ChangePassword(c) \/ ForgetMail(c)
        PROVE  LinksRest
    BY <1>4, AnswerRests DEF LoginPush, ChangePassword, ForgetMail, LinksRest, stored, links
  <1>5. ASSUME NEW c \in Clients, AuthRead(c) PROVE LinksRest
    <2> DEFINE q == [req[c] EXCEPT !.pc = req[c].then]
    <2>1. /\ req[c].then \in {"work", "logout", "password"}
          /\ Reject(c, 401) \/ Goto(c, req[c].then)
      BY <1>5 DEF AuthRead, Typed, ReqOK, Fits
    <2>2. q.pc # "resetWrite"
      BY <2>1 DEF Typed, ReqOK, Request
    <2>3. Reject(c, 401) \/ req' = [req EXCEPT ![c] = q]
      BY <2>1 DEF Goto, Typed, ReqOK
    <2> HIDE DEF q
    <2>4. \A d \in Clients : req'[d] = req[d] \/ req'[d].pc # "resetWrite"
      BY <2>2, <2>3, RejectRests DEF Typed, ReqOK
    <2>5. QED
      BY <1>5, <2>4 DEF AuthRead, LinksRest, stored, links
  <1>6. ASSUME NEW c \in Clients, Work(c) PROVE LinksRest
    BY <1>6, AnswerRests, RejectRests DEF Work, LinksRest, stored, links
  <1>7. ASSUME NEW c \in Clients, Logout(c) PROVE LinksRest
    BY <1>7, RejectRests DEF Logout, LinksRest, links
  <1>8. ASSUME NEW c \in Clients, CallFails(c) PROVE LinksRest
    BY <1>8, AnswerRests, RejectRests DEF CallFails, LinksRest, stored, links
  <1>9. ASSUME NEW c \in Clients, PushFails(c) PROVE LinksRest
    BY <1>9, IdleFits DEF PushFails, LinksRest, stored, links
  <1>10. CASE Tick \/ UNCHANGED vars
    BY <1>10 DEF Tick, vars, LinksRest, stored, links
  <1>11. QED
    BY <1>1, <1>2, <1>3, <1>4, <1>5, <1>6, <1>7, <1>8, <1>9, <1>10
    DEF Next, Begin, ChangeBegin, Continue

LEMMA LinksKept ==
    ASSUME LinkInv, Typed', LinksRest
    PROVE  LinkInv'
  BY DEF LinkInv, LinksRest

LEMMA NextLinks ==
    ASSUME \A c, d \in Clients : c = d
    PROVE  LinkInv /\ [Next]_vars => LinkInv'
  <1> SUFFICES ASSUME LinkInv, [Next]_vars PROVE LinkInv'
    OBVIOUS
  <1>1. Typed /\ Typed'
    BY NextTyped DEF LinkInv
  <1>2. generated \in Nat /\ resetToken \in [Admins -> Nat]
    BY <1>1 DEF Typed, DataOK
  <1>3. CASE LinksRest
    BY <1>1, <1>3, LinksKept
  <1>4. ASSUME NEW c \in Clients, ForgetWrite(c) PROVE LinkInv'
    <2>1. /\ generated' = generated + 1 /\ redeemed' = redeemed
          /\ resetToken' = [resetToken EXCEPT ![req[c].admin] = generated']
      BY <1>4 DEF ForgetWrite
    <2>2. req'[c].pc = "forgetMail"
      BY <1>1, <1>4 DEF ForgetWrite, Typed, ReqOK, Request
    <2>3. \A l \in redeemed : l <= generated' /\ l # generated'
      BY <1>1, <1>2, <2>1 DEF LinkInv, Typed, DataOK
    <2>4. \A a \in Admins : /\ resetToken'[a] <= generated'
                            /\ resetToken'[a] \notin redeemed'
      BY <1>2, <2>1, <2>3 DEF LinkInv
    <2>5. \A a, b \in Admins :
              resetToken'[a] = resetToken'[b] => a = b \/ resetToken'[a] = 0
      BY <1>2, <2>1 DEF LinkInv
    <2>6. \A d \in Clients : req'[d].pc # "resetWrite"
      BY <2>2
    <2>7. QED
      BY <1>1, <2>1, <2>3, <2>4, <2>5, <2>6 DEF LinkInv
  <1>5. ASSUME NEW c \in Clients, ResetWrite(c) PROVE LinkInv'
    <2> DEFINE q == req[c]
    <2>1. /\ generated' = generated + 1 /\ redeemed' = redeemed \union {q.link}
          /\ resetToken' = [resetToken EXCEPT ![q.admin] = generated']
      BY <1>5 DEF ResetWrite, Rotated
    <2>2. q.link # 0 /\ q.link = resetToken[q.admin] /\ q.admin \in Admins
      BY <1>1, <1>5 DEF LinkInv, ResetWrite, Typed, ReqOK, Fits
    <2>3. req'[c] = IdleRequest
      BY <1>1, <1>5 DEF ResetWrite, Answer, Typed, ReqOK
    <2> HIDE DEF q
    <2>4. q.link \in Nat /\ q.link <= generated
      BY <1>2, <2>2 DEF LinkInv
    <2>5. \A l \in redeemed' : l <= generated' /\ l # generated' /\ l # 0
      BY <1>1, <1>2, <2>1, <2>2, <2>4 DEF LinkInv, Typed, DataOK
    <2>6. \A a \in Admins : /\ resetToken'[a] <= generated'
                            /\ resetToken'[a] \notin redeemed'
      BY <1>2, <2>1, <2>2, <2>5 DEF LinkInv
    <2>7. \A a, b \in Admins :
              resetToken'[a] = resetToken'[b] => a = b \/ resetToken'[a] = 0
      BY <1>2, <2>1 DEF LinkInv
    <2>8. \A d \in Clients : req'[d].pc # "resetWrite"
      BY <2>3, IdleFits
    <2>9. QED
      BY <1>1, <2>5, <2>6, <2>7, <2>8 DEF LinkInv
  <1>6. ASSUME NEW c \in Clients, NEW a \in Accounts[c], NEW link \in Links(a),
               NEW pw \in Passwords, ResetRead(c, a, link, pw)
        PROVE  LinkInv'
    <2> DEFINE q == [IdleRequest EXCEPT !.pc = "resetWrite", !.admin = a, !.given = pw,
                                        !.link = link, !.token = {Sign(a, Day)}]
    <2>1. q.admin = a /\ q.link = link
      BY DEF IdleRequest
    <2>2. /\ link # 0 /\ resetToken[a] = link
          /\ req' = [req EXCEPT ![c] = q] /\ UNCHANGED <<resetToken, generated, redeemed>>
      BY <1>6 DEF ResetRead, Matches, stored, links
    <2> HIDE DEF q
    <2>3. \A d \in Clients : req'[d] = q \/ req'[d] = req[d]
      BY <1>1, <2>2 DEF Typed, ReqOK
    <2>4. QED
      BY <1>1, <2>1, <2>2, <2>3 DEF LinkInv
  <1>7. QED
    BY <1>1, <1>3, <1>4, <1>5, <1>6, LinkSteps

\* With one request at a time, whatever fails, a link resets a password at
\* most once: the reset token in the database is the link's until it is used.
THEOREM LinkOnce ==
    ASSUME \A c, d \in Clients : c = d
    PROVE  Spec => ResetOnce
  <1>1. Init => LinkInv
    <2>1. Init => Typed
      BY InitTyped
    <2>2. QED
      BY <2>1, IdleFits DEF Init, LinkInv
  <1>2. LinkInv /\ [Next]_vars => LinkInv'
    BY NextLinks
  <1>3. LinkInv => [\A c \in Clients : req[c].pc = "resetWrite" /\ reply'[c] = 200 /\ Idle(c)'
                        => req[c].link \notin redeemed]_vars
    BY DEF LinkInv, Typed, ReqOK, Fits
  <1>4. QED
    BY <1>1, <1>2, <1>3, PTL DEF Spec, ResetOnce
=============================================================================
