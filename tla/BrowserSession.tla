--------------------------- MODULE BrowserSession ---------------------------
(***************************************************************************)
(* The session in the browser: redux/auth, the request module and its      *)
(* error handler, the login and logout pages, and the settings request the *)
(* application makes when it is mounted.                                   *)
(*                                                                         *)
(* The tabs of a browser share localStorage; each has its own store and    *)
(* its own default Authorization header.  The server is the set of tokens  *)
(* it accepts (see AdminAuth).                                             *)
(***************************************************************************)
EXTENDS Integers, FiniteSets

CONSTANTS
    Tabs,
    Tokens,
    Absent,         \* nothing under the key
    Undefined,      \* a stored session whose current has no token
    Null,           \* a stored session whose current is null
    MaxOdd          \* bound on profile updates, reloads and unanswered calls

ASSUME SessionAssumption ==
    /\ {Absent, Undefined, Null} \intersect Tokens = {}
    /\ Absent # Undefined /\ Absent # Null /\ Undefined # Null
    /\ MaxOdd \in Nat

VARIABLES
    auth, isLogout, \* localStorage
    tab,            \* the store of each tab
    calls,          \* calls a tab waits for
    valid, issued,  \* tokens the server accepts; those it has given
    edits, reloads, failures    \* profile updates, reloads, unanswered calls

vars == <<auth, isLogout, tab, calls, valid, issued, edits, reloads, failures>>

\* Bounded together: the odd things that have happened.
Odd == edits + reloads + failures

Stored == Tokens \union {Absent, Undefined, Null}

\* loggedIn: the application is shown, not the login page.  ready: settings
\* are loaded.  page: a tab is "leaving" from when the error handler sets
\* window.location until the logout page loads.
Tab == [loggedIn : BOOLEAN, ready : BOOLEAN,
        page : {"open", "leaving", "logout"},
        header : Tokens \union {Absent, Undefined}]

Kinds == {"login", "settings", "work", "profile", "logout"}

\* Only a login is sent without a token.
Call ==
    {c \in [tab : Tabs, kind : Kinds, status : {"sent", "ok", "rejected"},
            token : Tokens \union {Absent, Undefined}, saved : Stored] :
        c.token = Absent <=> c.kind = "login" /\ c.status # "ok"}

LoggedOutTab == [loggedIn |-> FALSE, ready |-> FALSE, page |-> "open",
                 header |-> Absent]

NewCall(t, kind, token, saved) ==
    [tab |-> t, kind |-> kind, status |-> "sent", token |-> token, saved |-> saved]

Waiting(t, kind) == \E c \in calls : c.tab = t /\ c.kind = kind

\* A slip: the header is left to the next request.
MountedBare(s, stored) ==
    IF s.loggedIn THEN s
    ELSE [s EXCEPT !.loggedIn = TRUE, !.ready = @ /\ stored # Null]

\* The application appears in the store s, if it was not shown, with the
\* session in localStorage, and asks for the settings.  The token of a null
\* current cannot be read: that request fails before it is sent.
Mounted(s, stored) ==
    IF s.loggedIn THEN s
    ELSE IF stored = Null THEN [s EXCEPT !.loggedIn = TRUE, !.ready = FALSE]
    ELSE [s EXCEPT !.loggedIn = TRUE, !.header = stored]

MountCalls(t, shown, stored) ==
    IF shown \/ stored = Null THEN {} ELSE {NewCall(t, "settings", stored, Absent)}

-----------------------------------------------------------------------------
(* What a tab starts.  A reset with a mailed link stores a session as the   *)
(* login does, and counts as one.                                          *)

LoginStart(t) ==
    /\ ~tab[t].loggedIn /\ tab[t].page # "leaving"
    /\ ~Waiting(t, "login")
    /\ calls' = calls \union {NewCall(t, "login", Absent, Absent)}
    /\ UNCHANGED <<auth, isLogout, tab, valid, issued, edits, reloads, failures>>

\* includeToken: a stored session replaces the header.
Header(t) == IF auth = Absent THEN tab[t].header ELSE auth

RequestStart(t, kind) ==
    /\ tab[t].loggedIn /\ tab[t].ready /\ tab[t].page = "open"
    /\ ~Waiting(t, kind)
    /\ auth # Null
    /\ tab' = [tab EXCEPT ![t].header = Header(t)]
    /\ calls' = calls \union {NewCall(t, kind, Header(t), Absent)}
    /\ UNCHANGED <<auth, isLogout, valid, issued, reloads, failures>>

ProfileStart(t) ==
    /\ Odd < MaxOdd /\ edits' = edits + 1
    /\ RequestStart(t, "profile")

\* A slip: the session stays in localStorage until the server has answered.
LogoutStartLate(t) ==
    /\ tab[t].loggedIn /\ tab[t].ready /\ tab[t].page # "leaving"
    /\ ~Waiting(t, "logout")
    /\ tab' = [tab EXCEPT ![t].loggedIn = FALSE, ![t].page = "open"]
    /\ calls' = calls \union {NewCall(t, "logout", tab[t].header, auth)}
    /\ isLogout' = TRUE
    /\ UNCHANGED <<auth, valid, issued, edits, reloads, failures>>

\* The header is the one of the last request.
LogoutStart(t) ==
    /\ tab[t].loggedIn /\ tab[t].ready /\ tab[t].page # "leaving"
    /\ ~Waiting(t, "logout")
    /\ tab' = [tab EXCEPT ![t].loggedIn = FALSE, ![t].page = "open"]
    /\ calls' = calls \union {NewCall(t, "logout", tab[t].header, auth)}
    /\ auth' = Absent
    /\ isLogout' = TRUE
    /\ UNCHANGED <<valid, issued, edits, reloads, failures>>

-----------------------------------------------------------------------------
(* The server *)

\* A slip: the token is not pulled.
ServedKept(c) == valid

\* What a call that is accepted leaves valid.
Served(c) == IF c.kind = "logout" THEN valid \ {c.token} ELSE valid

Serve(c) ==
    /\ c.status = "sent" /\ c.kind # "login"
    /\ calls' = (calls \ {c}) \union
           {[c EXCEPT !.status = IF c.token \in valid THEN "ok" ELSE "rejected"]}
    /\ valid' = IF c.token \in valid THEN Served(c) ELSE valid
    /\ UNCHANGED <<auth, isLogout, tab, issued, edits, reloads, failures>>

ServeLogin(c) ==
    /\ c.status = "sent" /\ c.kind = "login"
    /\ \/ /\ calls' = (calls \ {c}) \union {[c EXCEPT !.status = "rejected"]}
          /\ UNCHANGED <<valid, issued>>
       \/ \E k \in Tokens \ issued :
              /\ calls' = (calls \ {c}) \union {[c EXCEPT !.status = "ok", !.token = k]}
              /\ valid' = valid \union {k} /\ issued' = issued \union {k}
    /\ UNCHANGED <<auth, isLogout, tab, edits, reloads, failures>>

\* A token expires, or is ended from elsewhere.
Expire(k) ==
    /\ k \in valid
    /\ valid' = valid \ {k}
    /\ UNCHANGED <<auth, isLogout, tab, calls, issued, edits, reloads, failures>>

-----------------------------------------------------------------------------
(* What comes back.  The answer of a rejected call says jwtExpired.         *)

LoginOk(c) == LET t == c.tab IN
    /\ c.kind = "login" /\ c.status = "ok"
    /\ auth' = c.token /\ isLogout' = FALSE
    /\ tab' = [tab EXCEPT ![t] = Mounted(@, c.token)]
    /\ calls' = (calls \ {c}) \union MountCalls(t, tab[t].loggedIn, c.token)
    /\ UNCHANGED <<valid, issued, edits, reloads, failures>>

LoginRejected(c) ==
    /\ c.kind = "login" /\ c.status = "rejected"
    /\ tab' = [tab EXCEPT ![c.tab].loggedIn = FALSE]
    /\ calls' = calls \ {c}
    /\ UNCHANGED <<auth, isLogout, valid, issued, edits, reloads, failures>>

RequestOk(c) ==
    /\ c.kind \in {"settings", "work"} /\ c.status = "ok"
    /\ tab' = [tab EXCEPT ![c.tab].ready = @ \/ c.kind = "settings"]
    /\ calls' = calls \ {c}
    /\ UNCHANGED <<auth, isLogout, valid, issued, edits, reloads, failures>>

\* The result of a profile update has no token and becomes the session.
ProfileOk(c) == LET t == c.tab IN
    /\ c.kind = "profile" /\ c.status = "ok"
    /\ auth' = Undefined
    /\ tab' = [tab EXCEPT ![t] = Mounted(@, Undefined)]
    /\ calls' = (calls \ {c}) \union MountCalls(t, tab[t].loggedIn, Undefined)
    /\ UNCHANGED <<isLogout, valid, issued, edits, reloads, failures>>

\* A slip: the stored session does not make the tab leave.
LeavesIfLoggedOut(c) == isLogout \/ c.token = Undefined

\* errorHandler sends the tab to the logout page if there was a session, or
\* one was just logged out, or the token is malformed.
Leaves(c) == auth # Absent \/ isLogout \/ c.token = Undefined

\* A thunk reads success of what the handler of a malformed token leaves
\* undefined, and stops there.
RequestRejected(c) == LET t == c.tab IN
    /\ c.kind \in {"settings", "work", "profile"} /\ c.status = "rejected"
    /\ auth' = Absent /\ isLogout' = FALSE
    /\ tab' = [tab EXCEPT
           ![t].page = IF Leaves(c) THEN "leaving" ELSE @,
           ![t].ready = @ /\ (c.kind # "settings" \/ c.token = Undefined)]
    /\ calls' = calls \ {c}
    /\ UNCHANGED <<valid, issued, edits, reloads, failures>>

LogoutOk(c) ==
    /\ c.kind = "logout" /\ c.status = "ok"
    /\ calls' = calls \ {c}
    /\ UNCHANGED <<auth, isLogout, tab, valid, issued, edits, reloads, failures>>

\* A logout that failed stores the whole saved state as the current user.
Restored(c) == IF c.saved = Absent THEN Null ELSE Undefined

LogoutRejected(c) == LET t == c.tab IN
    /\ c.kind = "logout" /\ c.status = "rejected"
    /\ isLogout' = FALSE
    /\ IF c.token = Undefined
       THEN /\ auth' = Absent
            /\ tab' = [tab EXCEPT ![t].page = "leaving"]
            /\ calls' = calls \ {c}
       ELSE /\ auth' = Restored(c)
            /\ tab' = [tab EXCEPT ![t] =
                   [Mounted(@, auth') EXCEPT
                        !.page = IF Leaves(c) THEN "leaving" ELSE tab[t].page]]
            /\ calls' = (calls \ {c}) \union MountCalls(t, tab[t].loggedIn, auth')
    /\ UNCHANGED <<valid, issued, edits, reloads, failures>>

LogoutLost(c) == LET t == c.tab IN
    /\ c.kind = "logout"
    /\ Odd < MaxOdd /\ failures' = failures + 1
    /\ isLogout' = FALSE
    /\ auth' = Restored(c)
    /\ tab' = [tab EXCEPT ![t] = Mounted(@, auth')]
    /\ calls' = (calls \ {c}) \union MountCalls(t, tab[t].loggedIn, auth')
    /\ UNCHANGED <<valid, issued, edits, reloads>>

RequestLost(c) ==
    /\ c.kind # "logout"
    /\ Odd < MaxOdd /\ failures' = failures + 1
    /\ tab' = [tab EXCEPT
           ![c.tab].loggedIn = @ /\ c.kind # "login",
           ![c.tab].ready = @ /\ c.kind # "settings"]
    /\ calls' = calls \ {c}
    /\ UNCHANGED <<auth, isLogout, valid, issued, edits, reloads>>

-----------------------------------------------------------------------------
\* A page is loaded: the store starts from localStorage.  The calls the page
\* waited for are forgotten; a server that still gets one acts as Expire does.
Load(t, page) ==
    /\ tab' = [tab EXCEPT ![t] =
           IF auth = Absent THEN LoggedOutTab
           ELSE [Mounted(LoggedOutTab, auth) EXCEPT !.page = page]]
    /\ calls' = {c \in calls : c.tab # t} \union
           IF auth = Absent THEN {} ELSE MountCalls(t, FALSE, auth)
    /\ UNCHANGED <<auth, isLogout, valid, issued, edits, failures>>

\* A slip: the tab is sent home, not to the logout page.
LeaveHome(t) == tab[t].page = "leaving" /\ Load(t, "open") /\ UNCHANGED reloads

Leave(t) == tab[t].page = "leaving" /\ Load(t, "logout") /\ UNCHANGED reloads

Refresh(t) ==
    /\ tab[t].page # "leaving" /\ Load(t, tab[t].page)
    /\ Odd < MaxOdd /\ reloads' = reloads + 1

\* The logout page logs out as soon as the application shows it.
LogoutPage(t) == tab[t].page = "logout" /\ LogoutStart(t)

Init ==
    /\ auth = Absent /\ isLogout = FALSE
    /\ tab = [t \in Tabs |-> LoggedOutTab]
    /\ calls = {} /\ valid = {} /\ issued = {}
    /\ edits = 0 /\ reloads = 0 /\ failures = 0

Receive(c) ==
    \/ LoginOk(c) \/ LoginRejected(c)
    \/ RequestOk(c) \/ RequestRejected(c)
    \/ ProfileOk(c)
    \/ LogoutOk(c) \/ LogoutRejected(c)

Next ==
    \/ \E t \in Tabs : \/ LoginStart(t)
                       \/ RequestStart(t, "work") /\ UNCHANGED edits
                       \/ ProfileStart(t)
                       \/ LogoutStart(t)
                       \/ Leave(t)
                       \/ Refresh(t)
    \/ \E c \in calls : \/ Serve(c) \/ ServeLogin(c)
                        \/ Receive(c)
                        \/ LogoutLost(c) \/ RequestLost(c)
    \/ \E k \in Tokens : Expire(k)

Spec == Init /\ [][Next]_vars

Progress(t, kind) ==
    \E c \in calls : c.tab = t /\ c.kind = kind /\ (Serve(c) \/ ServeLogin(c) \/ Receive(c))

\* Calls are answered, answers are handled, a page that was asked for loads,
\* and the logout page runs.
FairSpec ==
    /\ Spec
    /\ \A t \in Tabs :
           /\ WF_vars(Leave(t)) /\ WF_vars(LogoutPage(t))
           /\ \A kind \in Kinds : WF_vars(Progress(t, kind))
-----------------------------------------------------------------------------
TypeOK ==
    /\ auth \in Stored /\ isLogout \in BOOLEAN
    /\ tab \in [Tabs -> Tab]
    /\ calls \subseteq Call
    /\ valid \subseteq issued /\ issued \subseteq Tokens
    /\ edits \in Nat /\ reloads \in Nat /\ failures \in Nat

\* With one tab, no profile edits and no lost calls, the login page is only
\* shown while no session is stored: a reload never brings back a session that
\* was left.
ClearedOut ==
    edits = 0 /\ failures = 0 =>
        \A t \in Tabs : ~tab[t].loggedIn /\ tab[t].page # "leaving" => auth = Absent

\* "Successfully logout": with one tab, the server no longer accepts the
\* session that was stored when the logout began.
LogoutEnds ==
    [][\A c \in calls : LogoutOk(c) => c.saved \notin valid']_vars

\* "User is already logout try to login": a tab that shows the application
\* when it is told so, or that its token expired, leaves for the login page.
RejectedLeaves ==
    [][\A c \in calls : RequestRejected(c) /\ tab[c.tab].loggedIn
           => tab'[c.tab].page = "leaving"]_vars

\* A tab that leaves gets to the login page, whatever session a failed logout
\* or another tab stored meanwhile, unless a call is lost.
LeavesForLogin ==
    \A t \in Tabs :
        tab[t].page = "leaving" ~> ~tab[t].loggedIn \/ failures > 0
=============================================================================
