----------------------------- MODULE AdminAuth -----------------------------
(***************************************************************************)
(* Sign-in of administrators: createAuthMiddleware (login, logout, the     *)
(* token check, forgotten and reset passwords) and the password handlers   *)
(* of createUserController.                                                *)
(*                                                                         *)
(* A client has one request in flight and keeps the token it was given.    *)
(* Each database or mail call of a handler is one action.  A read that     *)
(* fails answers 500 and changes nothing: it is left out.                  *)
(***************************************************************************)
EXTENDS Integers, FiniteSets

CONSTANTS
    Admins, Disabled, Demo,     \* accounts; those disabled; the demo ones
    Unknown,                    \* an email or id no account has
    Clients,
    Accounts,                   \* the accounts each client asks for
    Passwords,
    Invalid,                    \* a password the handlers refuse as input
    FirstPassword,
    Lives,                      \* how long a token asked for at login lasts
    Day,                        \* how long one made by a reset lasts
    MaxTime, MaxLinks, MaxFailures  \* bounds: clock, reset tokens, failures

ASSUME AuthAssumption ==
    /\ Disabled \subseteq Admins /\ Demo \subseteq Admins
    /\ Unknown \notin Admins
    /\ Accounts \in [Clients -> SUBSET (Admins \union {Unknown})]
    /\ Invalid \notin Passwords /\ FirstPassword \in Passwords
    /\ Day \in Lives /\ Lives \subseteq Nat
    /\ MaxTime \in Nat /\ MaxLinks \in Nat /\ MaxFailures \in Nat

VARIABLES
    password, sessions, resetToken,   \* AdminPassword, per account
    generated,      \* reset tokens generated so far; 0 is none
    mailed,         \* links sent: an account and a reset token
    redeemed,       \* reset tokens a password was reset with
    ended,          \* tokens logged out and not given again
    now,            \* seconds
    up,             \* the process runs
    req,            \* the request of each client
    holds,          \* the token each client keeps, if any
    reply,          \* the status each client was last answered
    failures

stored == <<password, sessions, resetToken>>
links == <<generated, mailed, redeemed>>
vars == <<stored, links, ended, now, up, req, holds, reply, failures>>

-----------------------------------------------------------------------------
\* Two tokens of an account made in the same second are the same string.
Token == [admin : Admins, iat : Nat, life : Lives]

Sign(a, life) == [admin |-> a, iat |-> now, life |-> life]

Expired(t) == now >= t.iat + t.life

Stage == {"idle", "compare", "push", "auth", "work", "logout", "password",
          "forgetWrite", "forgetMail", "resetWrite"}

\* What a request carries and its handler has read: the account it is about,
\* a password given and one read, a token or none, a reset token, and what
\* follows the token check.
Request == [pc : Stage, admin : Admins \union {Unknown},
            given : Passwords \union {Invalid}, read : Passwords,
            life : Lives, token : SUBSET Token, link : Nat, then : Stage]

IdleRequest == [pc |-> "idle", admin |-> Unknown,
                given |-> Invalid, read |-> FirstPassword,
                life |-> Day, token |-> {}, link |-> 0, then |-> "idle"]

Idle(c) == req[c].pc = "idle"

Goto(c, stage) == req' = [req EXCEPT ![c].pc = stage]

Answer(c, status) ==
    /\ req' = [req EXCEPT ![c] = IdleRequest]
    /\ reply' = [reply EXCEPT ![c] = status]

\* The answer says jwtExpired: the client drops its token.
Reject(c, status) ==
    /\ Answer(c, status)
    /\ holds' = [holds EXCEPT ![c] = {}]

Ready(c) == up /\ Idle(c)

-----------------------------------------------------------------------------
(* login, authUser *)

LoginRefused(c, a) ==
    /\ Ready(c) /\ holds[c] = {}
    /\ \/ Answer(c, 409)                    \* credentials that do not validate
       \/ a = Unknown /\ Answer(c, 404)
       \/ a \in Disabled /\ Answer(c, 409)
    /\ UNCHANGED <<stored, links, ended, now, up, holds, failures>>

LoginRead(c, a, pw, life) ==
    /\ Ready(c) /\ holds[c] = {}
    /\ a \in Admins \ Disabled
    /\ req' = [req EXCEPT ![c] =
           [IdleRequest EXCEPT !.pc = "compare", !.admin = a, !.given = pw,
                               !.read = password[a], !.life = life]]
    /\ UNCHANGED <<stored, links, ended, now, up, holds, reply, failures>>

\* A slip: a wrong password is not answered.
LoginCompareSilent(c) == LET q == req[c] IN
    /\ q.pc = "compare"
    /\ q.given = q.read
    /\ req' = [req EXCEPT ![c].pc = "push", ![c].token = {Sign(q.admin, q.life)}]
    /\ UNCHANGED <<stored, links, ended, now, up, holds, reply, failures>>

LoginCompare(c) == LET q == req[c] IN
    /\ q.pc = "compare"
    /\ IF q.given # q.read THEN Answer(c, 403)
       ELSE /\ req' = [req EXCEPT ![c].pc = "push",
                                  ![c].token = {Sign(q.admin, q.life)}]
            /\ UNCHANGED reply
    /\ UNCHANGED <<stored, links, ended, now, up, holds, failures>>

\* A slip: the list of sessions is replaced.
PushOnly(q) == [sessions EXCEPT ![q.admin] = q.token]

\* A slip: the update is of every document.
PushAll(q) == [a \in Admins |-> sessions[a] \union q.token]

Push(q) == [sessions EXCEPT ![q.admin] = @ \union q.token]

LoginPush(c) == LET q == req[c] IN
    /\ q.pc = "push"
    /\ sessions' = Push(q)
    /\ ended' = ended \ q.token
    /\ holds' = [holds EXCEPT ![c] = q.token]
    /\ Answer(c, 200)
    /\ UNCHANGED <<password, resetToken, links, now, up, failures>>

-----------------------------------------------------------------------------
(* isValidAuthToken, in front of every route but the three above *)

\* A request with the client's token, about account a, that goes on to stage.
AuthVerify(c, stage, a, pw) ==
    /\ Ready(c)
    /\ IF holds[c] = {} \/ \E t \in holds[c] : Expired(t)
       THEN Reject(c, IF holds[c] = {} THEN 401 ELSE 500)
       ELSE /\ req' = [req EXCEPT ![c] =
                   [IdleRequest EXCEPT !.pc = "auth", !.admin = a, !.given = pw,
                                       !.token = holds[c], !.then = stage]]
            /\ UNCHANGED <<reply, holds>>
    /\ UNCHANGED <<stored, links, ended, now, up, failures>>

LoggedIn(tokens) == \A t \in tokens : t \in sessions[t.admin]

AuthRead(c) == LET q == req[c] IN
    /\ q.pc = "auth"
    /\ IF LoggedIn(q.token) THEN Goto(c, q.then) /\ UNCHANGED <<reply, holds>>
       ELSE Reject(c, 401)
    /\ UNCHANGED <<stored, links, ended, now, up, failures>>

\* A request to the ERP routes passes the check a second time.
Work(c) == LET q == req[c] IN
    /\ q.pc = "work"
    /\ IF \E t \in q.token : Expired(t) THEN Reject(c, 500)
       ELSE IF LoggedIn(q.token) THEN Answer(c, 200) /\ UNCHANGED holds
       ELSE Reject(c, 401)
    /\ UNCHANGED <<stored, links, ended, now, up, failures>>

Pull(tokens) == [a \in Admins |-> sessions[a] \ tokens]

Logout(c) == LET q == req[c] IN
    /\ q.pc = "logout"
    /\ sessions' = Pull(q.token)
    /\ ended' = ended \union q.token
    /\ Reject(c, 200)
    /\ UNCHANGED <<password, resetToken, links, now, up, failures>>

\* updatePassword, for the account in the path, and updateProfilePassword, for
\* the caller's own.
ChangePassword(c) == LET q == req[c] IN
    /\ q.pc = "password"
    /\ IF \/ q.given = Invalid
          \/ \E t \in q.token : t.admin \in Demo
          \/ q.admin = Unknown
       THEN /\ Answer(c, IF q.given = Invalid THEN 400 ELSE 403)
            /\ UNCHANGED password
       ELSE /\ password' = [password EXCEPT ![q.admin] = q.given]
            /\ Answer(c, 200)
    /\ UNCHANGED <<sessions, resetToken, links, ended, now, up, holds, failures>>

-----------------------------------------------------------------------------
(* forgetPassword *)

\* The account is used before it is checked: an unknown one answers 500.
ForgetRead(c, a) ==
    /\ Ready(c)
    /\ generated < MaxLinks
    /\ IF a = Unknown THEN Answer(c, 500)
       ELSE /\ req' = [req EXCEPT ![c] =
                   [IdleRequest EXCEPT !.pc = "forgetWrite", !.admin = a]]
            /\ UNCHANGED reply
    /\ UNCHANGED <<stored, links, ended, now, up, holds, failures>>

ForgetWrite(c) == LET q == req[c] IN
    /\ q.pc = "forgetWrite"
    /\ generated' = generated + 1
    /\ resetToken' = [resetToken EXCEPT ![q.admin] = generated']
    /\ req' = [req EXCEPT ![c].pc = "forgetMail", ![c].link = generated']
    /\ UNCHANGED <<password, sessions, mailed, redeemed, ended, now, up, holds, reply, failures>>

ForgetMail(c) == LET q == req[c] IN
    /\ q.pc = "forgetMail"
    /\ mailed' = mailed \union {[admin |-> q.admin, token |-> q.link]}
    /\ Answer(c, 200)
    /\ UNCHANGED <<stored, generated, redeemed, ended, now, up, holds, failures>>

-----------------------------------------------------------------------------
(* resetPassword *)

Matches(a, link) == resetToken[a] # 0 /\ resetToken[a] = link

ResetRefused(c, a, link) ==
    /\ Ready(c)
    /\ \/ a = Unknown /\ Answer(c, 500)
       \/ a \in Disabled /\ Answer(c, 409)
       \/ a \in Admins \ Disabled /\ ~Matches(a, link) /\ Answer(c, 403)
       \/ a \in Admins \ Disabled /\ Matches(a, link) /\ Answer(c, 409)  \* no password
    /\ UNCHANGED <<stored, links, ended, now, up, holds, failures>>

\* A slip: a disabled account is not refused.
ResetReadAny(c, a, link, pw) ==
    /\ Ready(c)
    /\ a \in Admins
    /\ Matches(a, link)
    /\ req' = [req EXCEPT ![c] =
           [IdleRequest EXCEPT !.pc = "resetWrite", !.admin = a, !.given = pw,
                               !.link = link, !.token = {Sign(a, Day)}]]
    /\ UNCHANGED <<stored, links, ended, now, up, holds, reply, failures>>

ResetRead(c, a, link, pw) ==
    /\ Ready(c)
    /\ a \in Admins \ Disabled
    /\ Matches(a, link)
    /\ req' = [req EXCEPT ![c] =
           [IdleRequest EXCEPT !.pc = "resetWrite", !.admin = a, !.given = pw,
                               !.link = link, !.token = {Sign(a, Day)}]]
    /\ UNCHANGED <<stored, links, ended, now, up, holds, reply, failures>>

\* A slip: the reset token stays.
Kept(a) == resetToken

Rotated(a) == [resetToken EXCEPT ![a] = generated']

ResetWrite(c) == LET q == req[c] IN
    /\ q.pc = "resetWrite"
    /\ generated' = generated + 1
    /\ resetToken' = Rotated(q.admin)
    /\ password' = [password EXCEPT ![q.admin] = q.given]
    /\ sessions' = Push(q)
    /\ redeemed' = redeemed \union {q.link}
    /\ ended' = ended \ q.token
    /\ holds' = [holds EXCEPT ![c] = q.token]
    /\ Answer(c, 200)
    /\ UNCHANGED <<mailed, now, up, failures>>

-----------------------------------------------------------------------------
\* A call fails.  catchErrors and the token check answer 500.
CallFails(c) ==
    /\ ~Idle(c) /\ req[c].pc \notin {"compare", "push"}
    /\ failures < MaxFailures
    /\ failures' = failures + 1
    /\ IF req[c].pc \in {"auth", "work"} THEN Reject(c, 500)
       ELSE Answer(c, 500) /\ UNCHANGED holds
    /\ UNCHANGED <<stored, links, ended, now, up>>

\* login does not await authUser: nothing catches what fails in there, and an
\* unhandled rejection ends the process with every request in it.
PushFails(c) ==
    /\ req[c].pc = "push"
    /\ failures < MaxFailures
    /\ failures' = failures + 1
    /\ up' = FALSE
    /\ req' = [d \in Clients |-> IdleRequest]
    /\ reply' = [d \in Clients |-> IF Idle(d) THEN reply[d] ELSE 0]
    /\ UNCHANGED <<stored, links, ended, now, holds>>

Tick ==
    /\ up
    /\ now < MaxTime
    /\ now' = now + 1
    /\ UNCHANGED <<stored, links, ended, up, req, holds, reply, failures>>

Init ==
    /\ password = [a \in Admins |-> FirstPassword]
    /\ sessions = [a \in Admins |-> {}]
    /\ resetToken = [a \in Admins |-> 0]
    /\ generated = 0 /\ mailed = {} /\ redeemed = {} /\ ended = {}
    /\ now = 0 /\ up = TRUE /\ failures = 0
    /\ req = [c \in Clients |-> IdleRequest]
    /\ holds = [c \in Clients |-> {}]
    /\ reply = [c \in Clients |-> 0]

\* The links a client can follow: one it was mailed, or a malformed one.
Links(a) == {m.token : m \in {m \in mailed : m.admin = a}} \union {0}

Begin(c) == \E a \in Accounts[c] :
    \/ LoginRefused(c, a)
    \/ \E pw \in Passwords, life \in Lives : LoginRead(c, a, pw, life)
    \/ ForgetRead(c, a)
    \/ \E link \in Links(a) :
           \/ ResetRefused(c, a, link)
           \/ \E pw \in Passwords : ResetRead(c, a, link, pw)
    \/ \E stage \in {"work", "logout"} : AuthVerify(c, stage, a, Invalid)

ChangeBegin(c) == \E a \in UNION {Accounts[d] : d \in Clients}, pw \in Passwords \union {Invalid} :
    AuthVerify(c, "password", a, pw)

Continue(c) ==
    \/ LoginCompare(c) \/ LoginPush(c)
    \/ AuthRead(c) \/ Work(c) \/ Logout(c) \/ ChangePassword(c)
    \/ ForgetWrite(c) \/ ForgetMail(c)
    \/ ResetWrite(c)

Next ==
    \/ \E c \in Clients : \/ Begin(c) \/ ChangeBegin(c)
                          \/ Continue(c)
                          \/ CallFails(c) \/ PushFails(c)
    \/ Tick

Spec == Init /\ [][Next]_vars

\* The event loop runs every continuation that is ready.
FairSpec == Spec /\ \A c \in Clients : WF_vars(Continue(c))
-----------------------------------------------------------------------------
TypeOK ==
    /\ password \in [Admins -> Passwords]
    /\ sessions \in [Admins -> SUBSET Token]
    /\ \A a \in Admins : \A t \in sessions[a] : t.admin = a
    /\ resetToken \in [Admins -> Nat]
    /\ generated \in Nat /\ now \in Nat /\ failures \in Nat
    /\ mailed \subseteq [admin : Admins, token : Nat] /\ redeemed \subseteq Nat
    /\ ended \subseteq Token
    /\ up \in BOOLEAN
    /\ req \in [Clients -> Request]
    /\ holds \in [Clients -> SUBSET Token]
    /\ reply \in [Clients -> Nat]

\* No interleaving of sign-ins, resets and logouts loses a session: a token a
\* client keeps is one the server knows, unless the very same token was
\* logged out.
SessionsKept == \A c \in Clients : \A t \in holds[c] :
    t \in sessions[t.admin] \/ t \in ended

\* "Your account is disabled": no session is ever opened for such an account.
DisabledOut == \A a \in Disabled : sessions[a] = {}

\* "Invalid reset token": a link resets a password at most once.
ResetOnce ==
    [][\A c \in Clients : req[c].pc = "resetWrite" /\ reply'[c] = 200 /\ Idle(c)'
           => req[c].link \notin redeemed]_vars

\* A request under way is answered, unless the process ends.
Answered == \A c \in Clients : ~Idle(c) ~> Idle(c) \/ ~up
=============================================================================
