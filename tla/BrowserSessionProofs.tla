------------------------ MODULE BrowserSessionProofs ------------------------
(***************************************************************************)
(* Proofs about BrowserSession, for any tokens and any number of profile   *)
(* updates, reloads and unanswered calls: the types for any tabs, and for  *)
(* a browser with one tab ClearedOut, LogoutEnds and RejectedLeaves.  (A   *)
(* second tab breaks RejectedLeaves: it is told of a session the first one *)
(* has already cleared.)                                                   *)
(***************************************************************************)
EXTENDS BrowserSession, TLAPS

\* A tab that can make calls, and one that waits for an answer, has a header.
Headed ==
    /\ \A t \in Tabs : tab[t].ready => tab[t].header # Absent
    /\ \A c \in calls : c.kind # "login" => tab[c.tab].header # Absent

SessionTyped == TypeOK /\ Headed

-----------------------------------------------------------------------------
(* Calls and stores *)

Sendable == Tokens \union {Absent, Undefined}

LEMMA Marks ==
    /\ Absent \notin Tokens /\ Undefined \notin Tokens /\ Null \notin Tokens
    /\ Absent # Undefined /\ Absent # Null /\ Undefined # Null
  BY SessionAssumption

LEMMA CallFacts ==
    ASSUME NEW c \in Call
    PROVE  /\ c.tab \in Tabs /\ c.kind \in Kinds /\ c.status \in {"sent", "ok", "rejected"}
           /\ c.token \in Sendable /\ c.saved \in Stored
           /\ c.token = Absent <=> (c.kind = "login" /\ c.status # "ok")
  BY DEF Call, Sendable

LEMMA NewCallFacts ==
    ASSUME NEW t \in Tabs, NEW kind \in Kinds, NEW token \in Sendable, NEW saved \in Stored,
           token = Absent <=> kind = "login"
    PROVE  /\ NewCall(t, kind, token, saved) \in Call
           /\ NewCall(t, kind, token, saved).tab = t
           /\ NewCall(t, kind, token, saved).kind = kind
           /\ NewCall(t, kind, token, saved).status = "sent"
           /\ NewCall(t, kind, token, saved).token = token
           /\ NewCall(t, kind, token, saved).saved = saved
  BY DEF NewCall, Call, Sendable

\* A call that is answered.
LEMMA AnsweredFacts ==
    ASSUME NEW c \in Call, c.kind # "login", NEW status \in {"ok", "rejected"}
    PROVE  /\ [c EXCEPT !.status = status] \in Call
           /\ [c EXCEPT !.status = status].tab = c.tab
           /\ [c EXCEPT !.status = status].kind = c.kind
           /\ [c EXCEPT !.status = status].status = status
           /\ [c EXCEPT !.status = status].token = c.token
           /\ [c EXCEPT !.status = status].saved = c.saved
  BY DEF Call

LEMMA StoreFacts ==
    ASSUME NEW s \in Tab
    PROVE  /\ s.loggedIn \in BOOLEAN /\ s.ready \in BOOLEAN
           /\ s.page \in {"open", "leaving", "logout"} /\ s.header \in Sendable
  BY DEF Tab, Sendable

\* The application that appears is shown with the session that is stored.
LEMMA MountedFacts ==
    ASSUME NEW s \in Tab, NEW stored \in Tokens \union {Undefined, Null}
    PROVE  /\ Mounted(s, stored) \in Tab /\ Mounted(s, stored).loggedIn
           /\ Mounted(s, stored).page = s.page
           /\ s.loggedIn => Mounted(s, stored) = s
           /\ ~s.loggedIn /\ stored # Null => Mounted(s, stored).header = stored
           /\ s.header # Absent => Mounted(s, stored).header # Absent
           /\ (s.ready => s.header # Absent)
              => (Mounted(s, stored).ready => Mounted(s, stored).header # Absent)
  <1> DEFINE bare == [s EXCEPT !.loggedIn = TRUE, !.ready = FALSE]
             full == [s EXCEPT !.loggedIn = TRUE, !.header = stored]
  <1>1. CASE s.loggedIn
    BY <1>1 DEF Mounted
  <1>2. CASE ~s.loggedIn /\ stored = Null
    <2>1. Mounted(s, stored) = bare
      BY <1>2 DEF Mounted
    <2>2. bare \in Tab /\ bare.page = s.page /\ bare.header = s.header
      BY DEF Tab
    <2>3. bare.loggedIn /\ ~bare.ready
      BY Zenon DEF Tab
    <2> HIDE DEF bare
    <2>4. QED
      BY <1>2, <2>1, <2>2, <2>3
  <1>3. CASE ~s.loggedIn /\ stored # Null
    <2>1. Mounted(s, stored) = full
      BY <1>3 DEF Mounted
    <2>2. full \in Tab /\ full.page = s.page /\ full.header = stored
      BY <1>3, Marks DEF Tab
    <2>3. full.loggedIn
      BY Zenon DEF Tab
    <2>4. stored # Absent
      BY Marks
    <2> HIDE DEF full
    <2>5. QED
      BY <1>3, <2>1, <2>2, <2>3, <2>4
  <1>4. QED
    BY <1>1, <1>2, <1>3

LEMMA MountCallsFacts ==
    ASSUME NEW t \in Tabs, NEW shown \in BOOLEAN,
           NEW stored \in Tokens \union {Undefined, Null}
    PROVE  /\ MountCalls(t, shown, stored) \subseteq Call
           /\ \A c \in MountCalls(t, shown, stored) :
                  c.tab = t /\ c.kind = "settings" /\ ~shown /\ stored # Null
  <1>1. CASE shown \/ stored = Null
    BY <1>1 DEF MountCalls
  <1>2. CASE ~(shown \/ stored = Null)
    <2> DEFINE n == NewCall(t, "settings", stored, Absent)
    <2>1. MountCalls(t, shown, stored) = {n}
      BY <1>2 DEF MountCalls
    <2>2. /\ "settings" \in Kinds /\ stored \in Sendable /\ stored # Absent
          /\ Absent \in Stored
      BY <1>2, Marks DEF Kinds, Sendable, Stored
    <2>3. n \in Call /\ n.tab = t /\ n.kind = "settings"
      BY <2>2, NewCallFacts
    <2> HIDE DEF n
    <2>4. QED
      BY <1>2, <2>1, <2>3
  <1>3. QED
    BY <1>1, <1>2

-----------------------------------------------------------------------------
(* Types *)

\* A store changes; the header is not lost, and calls are of tabs with headers.
LEMMA StoreStep ==
    ASSUME SessionTyped, NEW t \in Tabs, NEW s \in Tab,
           tab' = [tab EXCEPT ![t] = s],
           s.ready => s.header # Absent,
           tab[t].header # Absent => s.header # Absent,
           calls' \subseteq Call,
           \A c \in calls' \ calls :
               c.kind # "login" => c.tab \in Tabs /\ tab'[c.tab].header # Absent
    PROVE  tab' \in [Tabs -> Tab] /\ Headed'
  <1>1. tab \in [Tabs -> Tab] /\ calls \subseteq Call
    BY DEF SessionTyped, TypeOK
  <1>2. \A u \in Tabs : tab'[u] = IF u = t THEN s ELSE tab[u]
    BY <1>1
  <1>3. tab' \in [Tabs -> Tab]
    BY <1>1
  <1>4. \A u \in Tabs : tab'[u].ready => tab'[u].header # Absent
    BY <1>2 DEF SessionTyped, Headed
  <1>5. ASSUME NEW c \in calls', c.kind # "login" PROVE tab'[c.tab].header # Absent
    <2>1. CASE c \in calls
      <3>1. c.tab \in Tabs /\ tab[c.tab].header # Absent
        BY <1>1, <1>5, <2>1, CallFacts DEF SessionTyped, Headed
      <3>2. QED
        BY <1>2, <3>1
    <2>2. CASE c \notin calls
      BY <1>5, <2>2
    <2>3. QED
      BY <2>1, <2>2
  <1>6. QED
    BY <1>3, <1>4, <1>5 DEF Headed

\* Calls go, change, or come from tabs with a header; the stores stay.
LEMMA CallsStep ==
    ASSUME SessionTyped, UNCHANGED tab, calls' \subseteq Call,
           \A c \in calls' \ calls :
               c.kind # "login" => tab[c.tab].header # Absent
    PROVE  tab' \in [Tabs -> Tab] /\ Headed'
  BY DEF SessionTyped, TypeOK, Headed

LEMMA LoginStartTyped ==
    ASSUME SessionTyped, NEW t \in Tabs, LoginStart(t) PROVE SessionTyped'
  <1> DEFINE n == NewCall(t, "login", Absent, Absent)
  <1>1. n \in Call /\ n.kind = "login"
    BY NewCallFacts DEF Kinds, Sendable, Stored
  <1> HIDE DEF n
  <1>2. /\ calls' = calls \union {n} /\ UNCHANGED tab
        /\ UNCHANGED <<auth, isLogout, valid, issued, edits, reloads, failures>>
    BY DEF LoginStart, n
  <1>3. calls' \subseteq Call
    BY <1>1, <1>2 DEF SessionTyped, TypeOK
  <1>4. tab' \in [Tabs -> Tab] /\ Headed'
    BY <1>1, <1>2, <1>3, CallsStep
  <1>5. QED
    BY <1>2, <1>3, <1>4 DEF SessionTyped, TypeOK

\* The header with which a tab that may make requests makes them.
LEMMA HeaderFacts ==
    ASSUME SessionTyped, NEW t \in Tabs, tab[t].ready, auth # Null
    PROVE  Header(t) \in Sendable /\ Header(t) # Absent
  <1>1. tab[t] \in Tab /\ tab[t].header # Absent /\ auth \in Stored
    BY DEF SessionTyped, TypeOK, Headed
  <1>2. tab[t].header \in Sendable
    BY <1>1, StoreFacts
  <1>3. QED
    BY <1>1, <1>2, Marks DEF Header, Stored, Sendable

LEMMA RequestStartFacts ==
    ASSUME SessionTyped, NEW t \in Tabs, NEW kind \in {"work", "profile"},
           RequestStart(t, kind)
    PROVE  \E s \in Tab, n \in Call :
              /\ s.header = Header(t) /\ s.header # Absent
              /\ s.page = tab[t].page /\ s.loggedIn = tab[t].loggedIn
              /\ n.tab = t /\ n.kind = kind
              /\ tab' = [tab EXCEPT ![t] = s] /\ calls' = calls \union {n}
              /\ UNCHANGED <<auth, isLogout, valid, issued, reloads, failures>>
  <1> DEFINE s == [tab[t] EXCEPT !.header = Header(t)]
             n == NewCall(t, kind, Header(t), Absent)
  <1>1. /\ tab[t].loggedIn /\ tab[t].ready /\ auth # Null
        /\ tab' = [tab EXCEPT ![t].header = Header(t)]
        /\ calls' = calls \union {n}
        /\ UNCHANGED <<auth, isLogout, valid, issued, reloads, failures>>
    BY DEF RequestStart
  <1>2. tab[t] \in Tab /\ tab \in [Tabs -> Tab]
    BY DEF SessionTyped, TypeOK
  <1>3. Header(t) \in Sendable /\ Header(t) # Absent
    BY <1>1, HeaderFacts
  <1>4. s \in Tab /\ s.header = Header(t) /\ s.page = tab[t].page
    BY <1>2, <1>3 DEF Tab, Sendable
  <1>5. s.loggedIn = tab[t].loggedIn
    BY <1>2, Zenon DEF Tab
  <1>6. n \in Call /\ n.tab = t /\ n.kind = kind
    BY <1>3, NewCallFacts DEF Kinds, Stored
  <1>7. tab' = [tab EXCEPT ![t] = s]
    BY <1>1
  <1> HIDE DEF s, n
  <1>8. QED
    BY <1>1, <1>3, <1>4, <1>5, <1>6, <1>7

LEMMA RequestStartTyped ==
    ASSUME SessionTyped, NEW t \in Tabs, NEW kind \in {"work", "profile"},
           RequestStart(t, kind), edits' \in Nat
    PROVE  SessionTyped'
  <1>1. PICK s \in Tab, n \in Call :
              /\ s.header # Absent /\ n.tab = t
              /\ tab' = [tab EXCEPT ![t] = s] /\ calls' = calls \union {n}
              /\ UNCHANGED <<auth, isLogout, valid, issued, reloads, failures>>
    BY RequestStartFacts
  <1>2. calls' \subseteq Call /\ tab'[t] = s
    BY <1>1 DEF SessionTyped, TypeOK
  <1>3. tab' \in [Tabs -> Tab] /\ Headed'
    BY <1>1, <1>2, StoreStep
  <1>4. QED
    BY <1>1, <1>2, <1>3 DEF SessionTyped, TypeOK

LEMMA LogoutStartFacts ==
    ASSUME SessionTyped, NEW t \in Tabs, LogoutStart(t)
    PROVE  \E s \in Tab, n \in Call :
              /\ s.header = tab[t].header /\ s.header # Absent
              /\ s.page = "open" /\ ~s.loggedIn
              /\ n.tab = t /\ n.kind = "logout" /\ n.status = "sent"
              /\ n.token = tab[t].header /\ n.saved = auth
              /\ tab' = [tab EXCEPT ![t] = s] /\ calls' = calls \union {n}
              /\ auth' = Absent /\ isLogout'
              /\ UNCHANGED <<valid, issued, edits, reloads, failures>>
  <1> DEFINE s == [tab[t] EXCEPT !.loggedIn = FALSE, !.page = "open"]
             n == NewCall(t, "logout", tab[t].header, auth)
  <1>1. /\ tab[t].ready
        /\ tab' = [tab EXCEPT ![t].loggedIn = FALSE, ![t].page = "open"]
        /\ calls' = calls \union {n} /\ auth' = Absent /\ isLogout'
        /\ UNCHANGED <<valid, issued, edits, reloads, failures>>
    BY DEF LogoutStart
  <1>2. tab[t] \in Tab /\ tab \in [Tabs -> Tab] /\ auth \in Stored
    BY DEF SessionTyped, TypeOK
  <1>3. tab[t].header \in Sendable /\ tab[t].header # Absent
    BY <1>1, <1>2, StoreFacts DEF SessionTyped, Headed
  <1>4. s \in Tab /\ s.header = tab[t].header /\ s.page = "open"
    BY <1>2 DEF Tab
  <1>5. ~s.loggedIn
    BY <1>2, Zenon DEF Tab
  <1>6. /\ n \in Call /\ n.tab = t /\ n.kind = "logout" /\ n.status = "sent"
        /\ n.token = tab[t].header /\ n.saved = auth
    BY <1>2, <1>3, NewCallFacts DEF Kinds
  <1>7. tab' = [tab EXCEPT ![t] = s]
    BY <1>1, <1>2
  <1> HIDE DEF s, n
  <1>8. QED
    BY <1>1, <1>3, <1>4, <1>5, <1>6, <1>7

LEMMA LogoutStartTyped ==
    ASSUME SessionTyped, NEW t \in Tabs, LogoutStart(t) PROVE SessionTyped'
  <1>1. PICK s \in Tab, n \in Call :
              /\ s.header # Absent /\ n.tab = t
              /\ tab' = [tab EXCEPT ![t] = s] /\ calls' = calls \union {n}
              /\ auth' = Absent /\ isLogout'
              /\ UNCHANGED <<valid, issued, edits, reloads, failures>>
    BY LogoutStartFacts
  <1>2. calls' \subseteq Call /\ tab'[t] = s
    BY <1>1 DEF SessionTyped, TypeOK
  <1>3. tab' \in [Tabs -> Tab] /\ Headed'
    BY <1>1, <1>2, StoreStep
  <1>4. isLogout' = TRUE
    BY DEF LogoutStart
  <1>5. QED
    BY <1>1, <1>2, <1>3, <1>4 DEF SessionTyped, TypeOK, Stored

LEMMA ServeFacts ==
    ASSUME SessionTyped, NEW c \in calls, Serve(c)
    PROVE  \E n \in Call :
              /\ n.tab = c.tab /\ n.kind = c.kind /\ n.token = c.token /\ n.saved = c.saved
              /\ c.kind # "login" /\ calls' = (calls \ {c}) \union {n}
              /\ valid' \subseteq valid
              /\ n.kind = "logout" /\ n.status = "ok" => n.token \in valid \ valid'
              /\ UNCHANGED <<auth, isLogout, tab, issued, edits, reloads, failures>>
  <1> DEFINE status == IF c.token \in valid THEN "ok" ELSE "rejected"
             n == [c EXCEPT !.status = status]
  <1>1. /\ c.kind # "login" /\ calls' = (calls \ {c}) \union {n}
        /\ valid' = IF c.token \in valid THEN Served(c) ELSE valid
        /\ UNCHANGED <<auth, isLogout, tab, issued, edits, reloads, failures>>
    BY DEF Serve
  <1>2. c \in Call
    BY DEF SessionTyped, TypeOK
  <1>3. status \in {"ok", "rejected"} /\ (status = "ok" => c.token \in valid)
    OBVIOUS
  <1>4. valid' \subseteq valid /\ (c.kind = "logout" /\ c.token \in valid => c.token \notin valid')
    BY <1>1 DEF Served
  <1> HIDE DEF status
  <1>5. /\ n \in Call /\ n.tab = c.tab /\ n.kind = c.kind /\ n.status = status
        /\ n.token = c.token /\ n.saved = c.saved
    BY <1>1, <1>2, <1>3, AnsweredFacts
  <1> HIDE DEF n
  <1>6. QED
    BY <1>1, <1>3, <1>4, <1>5

LEMMA ServeTyped ==
    ASSUME SessionTyped, NEW c \in calls, Serve(c) PROVE SessionTyped'
  <1>1. PICK n \in Call :
              /\ n.tab = c.tab /\ c.kind # "login"
              /\ calls' = (calls \ {c}) \union {n} /\ valid' \subseteq valid
              /\ UNCHANGED <<auth, isLogout, tab, issued, edits, reloads, failures>>
    BY ServeFacts
  <1>2. calls' \subseteq Call
    BY <1>1 DEF SessionTyped, TypeOK
  <1>3. tab[n.tab].header # Absent
    BY <1>1 DEF SessionTyped, Headed
  <1>4. tab' \in [Tabs -> Tab] /\ Headed'
    BY <1>1, <1>2, <1>3, CallsStep
  <1>5. QED
    BY <1>1, <1>2, <1>4 DEF SessionTyped, TypeOK

LEMMA ServeLoginFacts ==
    ASSUME SessionTyped, NEW c \in calls, ServeLogin(c)
    PROVE  \E n \in Call :
              /\ n.tab = c.tab /\ n.kind = "login" /\ c.kind = "login"
              /\ calls' = (calls \ {c}) \union {n}
              /\ \/ UNCHANGED <<valid, issued>>
                 \/ \E k \in Tokens \ issued :
                        valid' = valid \union {k} /\ issued' = issued \union {k}
              /\ UNCHANGED <<auth, isLogout, tab, edits, reloads, failures>>
  <1>1. /\ c \in Call /\ c.kind = "login" /\ c.status = "sent"
        /\ UNCHANGED <<auth, isLogout, tab, edits, reloads, failures>>
    BY DEF ServeLogin, SessionTyped, TypeOK
  <1>2. CASE /\ calls' = (calls \ {c}) \union {[c EXCEPT !.status = "rejected"]}
             /\ UNCHANGED <<valid, issued>>
    <2> DEFINE n == [c EXCEPT !.status = "rejected"]
    <2>1. n \in Call /\ n.tab = c.tab /\ n.kind = "login"
      BY <1>1 DEF Call
    <2> HIDE DEF n
    <2>2. calls' = (calls \ {c}) \union {n}
      BY <1>2 DEF n
    <2>3. QED
      BY <1>1, <1>2, <2>1, <2>2
  <1>3. CASE \E k \in Tokens \ issued :
                 /\ calls' = (calls \ {c}) \union {[c EXCEPT !.status = "ok", !.token = k]}
                 /\ valid' = valid \union {k} /\ issued' = issued \union {k}
    <2>1. PICK k \in Tokens \ issued :
                 /\ calls' = (calls \ {c}) \union {[c EXCEPT !.status = "ok", !.token = k]}
                 /\ valid' = valid \union {k} /\ issued' = issued \union {k}
      BY <1>3
    <2> DEFINE n == [c EXCEPT !.status = "ok", !.token = k]
    <2>2. n \in Call /\ n.tab = c.tab /\ n.kind = "login"
      BY <1>1, Marks DEF Call
    <2>3. calls' = (calls \ {c}) \union {n}
      BY <2>1
    <2> HIDE DEF n
    <2>4. QED
      BY <1>1, <2>1, <2>2, <2>3
  <1>4. QED
    BY <1>2, <1>3 DEF ServeLogin

LEMMA ServeLoginTyped ==
    ASSUME SessionTyped, NEW c \in calls, ServeLogin(c) PROVE SessionTyped'
  <1>1. PICK n \in Call :
              /\ n.kind = "login" /\ calls' = (calls \ {c}) \union {n}
              /\ \/ UNCHANGED <<valid, issued>>
                 \/ \E k \in Tokens \ issued :
                        valid' = valid \union {k} /\ issued' = issued \union {k}
              /\ UNCHANGED <<auth, isLogout, tab, edits, reloads, failures>>
    BY ServeLoginFacts
  <1>2. calls' \subseteq Call /\ valid' \subseteq issued' /\ issued' \subseteq Tokens
    BY <1>1 DEF SessionTyped, TypeOK
  <1>3. tab' \in [Tabs -> Tab] /\ Headed'
    BY <1>1, <1>2, CallsStep
  <1>4. QED
    BY <1>1, <1>2, <1>3 DEF SessionTyped, TypeOK

LEMMA ExpireTyped ==
    ASSUME SessionTyped, NEW k \in Tokens, Expire(k) PROVE SessionTyped'
  BY DEF SessionTyped, TypeOK, Headed, Expire

-----------------------------------------------------------------------------
(* Answers *)

Pages == {"open", "leaving", "logout"}

\* The application appears in the tab that waited for c, if it was not shown,
\* with a for the session.
Appears(c, a, page) ==
    \E s \in Tab, mount \in SUBSET Call :
        /\ s.loggedIn /\ s.page = page
        /\ tab[c.tab].loggedIn => s.header = tab[c.tab].header
        /\ ~tab[c.tab].loggedIn /\ a # Null => s.header = a
        /\ tab' = [tab EXCEPT ![c.tab] = s]
        /\ calls' = (calls \ {c}) \union mount
        /\ \A d \in mount : d.tab = c.tab /\ d.kind = "settings"

LEMMA AppearStep ==
    ASSUME SessionTyped, NEW c \in calls, NEW a \in Tokens \union {Undefined, Null},
           NEW page \in Pages,
           tab' = [tab EXCEPT ![c.tab] = [Mounted(@, a) EXCEPT !.page = page]],
           calls' = (calls \ {c}) \union MountCalls(c.tab, tab[c.tab].loggedIn, a)
    PROVE  /\ tab' \in [Tabs -> Tab] /\ Headed' /\ calls' \subseteq Call
           /\ Appears(c, a, page)
  <1> DEFINE t == c.tab
             m == Mounted(tab[t], a)
             s == [m EXCEPT !.page = page]
             mount == MountCalls(t, tab[t].loggedIn, a)
  <1>1. t \in Tabs /\ tab \in [Tabs -> Tab] /\ tab[t] \in Tab /\ calls \subseteq Call
    <2>1. c \in Call /\ tab \in [Tabs -> Tab] /\ calls \subseteq Call
      BY DEF SessionTyped, TypeOK
    <2>2. QED
      BY <2>1, CallFacts
  <1>2. /\ m \in Tab /\ m.loggedIn
        /\ tab[t].loggedIn => m = tab[t]
        /\ ~tab[t].loggedIn /\ a # Null => m.header = a
        /\ tab[t].header # Absent => m.header # Absent
        /\ (tab[t].ready => tab[t].header # Absent) => (m.ready => m.header # Absent)
    BY <1>1, MountedFacts
  <1>3. /\ mount \subseteq Call
        /\ \A d \in mount : d.tab = t /\ d.kind = "settings" /\ ~tab[t].loggedIn /\ a # Null
    <2>1. tab[t].loggedIn \in BOOLEAN
      BY <1>1, StoreFacts
    <2>2. QED
      BY <1>1, <2>1, MountCallsFacts
  <1>4. tab' = [tab EXCEPT ![t] = s] /\ calls' = (calls \ {c}) \union mount
    BY <1>1
  <1> HIDE DEF m, mount
  <1>5. s \in Tab /\ s.header = m.header /\ s.page = page
    BY <1>2 DEF Tab, Pages
  <1>6. s.loggedIn /\ s.ready = m.ready
    BY <1>2, Zenon DEF Tab
  <1> HIDE DEF s, t
  <1>7. s.ready => s.header # Absent
    <2>1. tab[t].ready => tab[t].header # Absent
      BY <1>1 DEF SessionTyped, Headed
    <2>2. QED
      BY <1>2, <1>5, <1>6, <2>1
  <1>8. calls' \subseteq Call
    BY <1>1, <1>3, <1>4
  <1>9. \A d \in calls' \ calls : d.tab \in Tabs /\ tab'[d.tab].header # Absent
    <2>1. TAKE d \in calls' \ calls
    <2>2. d \in mount
      BY <1>4
    <2>3. d.tab = t /\ m.header = a /\ a # Null
      BY <1>2, <1>3, <2>2
    <2>4. tab'[t] = s /\ a # Absent
      BY <1>1, <1>4, Marks
    <2>5. QED
      BY <1>1, <1>5, <2>3, <2>4
  <1>10. tab' \in [Tabs -> Tab] /\ Headed'
    BY <1>1, <1>2, <1>4, <1>5, <1>7, <1>8, <1>9, StoreStep
  <1>11. Appears(c, a, page)
    BY <1>2, <1>3, <1>4, <1>5, <1>6 DEF Appears, t
  <1>12. QED
    BY <1>8, <1>10, <1>11

\* As above, where the page stays.
LEMMA AppearHere ==
    ASSUME SessionTyped, NEW c \in calls, NEW a \in Tokens \union {Undefined, Null},
           tab' = [tab EXCEPT ![c.tab] = Mounted(@, a)],
           calls' = (calls \ {c}) \union MountCalls(c.tab, tab[c.tab].loggedIn, a)
    PROVE  /\ tab' \in [Tabs -> Tab] /\ Headed' /\ calls' \subseteq Call
           /\ Appears(c, a, tab[c.tab].page)
  <1> DEFINE m == Mounted(tab[c.tab], a)
  <1>1. c.tab \in Tabs /\ tab \in [Tabs -> Tab] /\ tab[c.tab] \in Tab
    <2>1. c \in Call /\ tab \in [Tabs -> Tab]
      BY DEF SessionTyped, TypeOK
    <2>2. QED
      BY <2>1, CallFacts
  <1>2. m \in Tab /\ m.page = tab[c.tab].page
    BY <1>1, MountedFacts
  <1>3. tab[c.tab].page \in Pages
    BY <1>1, StoreFacts DEF Pages
  <1>4. tab' = [tab EXCEPT ![c.tab] = m]
    BY <1>1
  <1> HIDE DEF m
  <1>5. [m EXCEPT !.page = tab[c.tab].page] = m
    BY <1>2, Zenon DEF Tab
  <1>6. tab' = [tab EXCEPT ![c.tab] = [m EXCEPT !.page = tab[c.tab].page]]
    BY <1>4, <1>5
  <1>7. tab' = [tab EXCEPT ![c.tab] = [Mounted(@, a) EXCEPT !.page = tab[c.tab].page]]
    BY <1>1, <1>6 DEF m
  <1>8. QED
    BY <1>3, <1>7, AppearStep

LEMMA LoginOkFacts ==
    ASSUME SessionTyped, NEW c \in calls, LoginOk(c)
    PROVE  /\ SessionTyped' /\ Appears(c, c.token, tab[c.tab].page)
           /\ c.kind = "login" /\ auth' = c.token /\ c.token \in Tokens \union {Undefined}
           /\ ~isLogout' /\ UNCHANGED <<valid, issued, edits, reloads, failures>>
  <1>1. /\ c.kind = "login" /\ c.status = "ok" /\ auth' = c.token /\ isLogout' = FALSE
        /\ tab' = [tab EXCEPT ![c.tab] = Mounted(@, c.token)]
        /\ calls' = (calls \ {c}) \union MountCalls(c.tab, tab[c.tab].loggedIn, c.token)
        /\ UNCHANGED <<valid, issued, edits, reloads, failures>>
    BY DEF LoginOk
  <1>2. c.token \in Tokens \union {Undefined}
    <2>1. c \in Call
      BY DEF SessionTyped, TypeOK
    <2>2. QED
      BY <1>1, <2>1, CallFacts DEF Sendable
  <1>3. /\ tab' \in [Tabs -> Tab] /\ Headed' /\ calls' \subseteq Call
        /\ Appears(c, c.token, tab[c.tab].page)
    BY <1>1, <1>2, AppearHere
  <1>4. QED
    BY <1>1, <1>2, <1>3 DEF SessionTyped, TypeOK, Stored

LEMMA ProfileOkFacts ==
    ASSUME SessionTyped, NEW c \in calls, ProfileOk(c)
    PROVE  /\ SessionTyped' /\ Appears(c, Undefined, tab[c.tab].page)
           /\ c.kind = "profile" /\ auth' = Undefined
           /\ UNCHANGED <<isLogout, valid, issued, edits, reloads, failures>>
  <1>1. /\ c.kind = "profile" /\ auth' = Undefined
        /\ tab' = [tab EXCEPT ![c.tab] = Mounted(@, Undefined)]
        /\ calls' = (calls \ {c}) \union MountCalls(c.tab, tab[c.tab].loggedIn, Undefined)
        /\ UNCHANGED <<isLogout, valid, issued, edits, reloads, failures>>
    BY DEF ProfileOk
  <1>2. /\ tab' \in [Tabs -> Tab] /\ Headed' /\ calls' \subseteq Call
        /\ Appears(c, Undefined, tab[c.tab].page)
    BY <1>1, AppearHere
  <1>3. QED
    BY <1>1, <1>2 DEF SessionTyped, TypeOK, Stored

\* The tab that waited for c changes, but not its header; nothing else is sent.
Changes(c, s) ==
    /\ s.header = tab[c.tab].header
    /\ tab' = [tab EXCEPT ![c.tab] = s]
    /\ calls' = calls \ {c}

LEMMA ChangesTyped ==
    ASSUME SessionTyped, NEW c \in calls, NEW s \in Tab, Changes(c, s),
           s.ready => s.header # Absent
    PROVE  tab' \in [Tabs -> Tab] /\ Headed' /\ calls' \subseteq Call
  <1>1. c \in Call /\ calls' \subseteq Call /\ calls' \ calls = {}
    BY DEF SessionTyped, TypeOK, Changes
  <1>2. c.tab \in Tabs
    BY <1>1, CallFacts
  <1>3. QED
    BY <1>1, <1>2, StoreStep DEF Changes

\* What a call's tab is now.
LEMMA TabOf ==
    ASSUME SessionTyped, NEW c \in calls
    PROVE  /\ c \in Call /\ c.tab \in Tabs /\ tab \in [Tabs -> Tab] /\ tab[c.tab] \in Tab
           /\ tab[c.tab].ready => tab[c.tab].header # Absent
           /\ c.kind # "login" => tab[c.tab].header # Absent
  <1>1. c \in Call /\ tab \in [Tabs -> Tab]
    BY DEF SessionTyped, TypeOK
  <1>2. c.tab \in Tabs
    BY <1>1, CallFacts
  <1>3. QED
    BY <1>1, <1>2 DEF SessionTyped, Headed

LEMMA LoginRejectedFacts ==
    ASSUME SessionTyped, NEW c \in calls, LoginRejected(c)
    PROVE  /\ SessionTyped' /\ c.kind = "login"
           /\ \E s \in Tab : Changes(c, s) /\ ~s.loggedIn /\ s.page = tab[c.tab].page
           /\ UNCHANGED <<auth, isLogout, valid, issued, edits, reloads, failures>>
  <1> DEFINE s == [tab[c.tab] EXCEPT !.loggedIn = FALSE]
  <1>1. /\ c.kind = "login" /\ calls' = calls \ {c}
        /\ tab' = [tab EXCEPT ![c.tab].loggedIn = FALSE]
        /\ UNCHANGED <<auth, isLogout, valid, issued, edits, reloads, failures>>
    BY DEF LoginRejected
  <1>2. tab' = [tab EXCEPT ![c.tab] = s]
    BY <1>1, TabOf
  <1>3. s \in Tab /\ s.header = tab[c.tab].header /\ s.page = tab[c.tab].page
    BY TabOf DEF Tab
  <1>4. ~s.loggedIn /\ s.ready = tab[c.tab].ready
    BY TabOf, Zenon DEF Tab
  <1> HIDE DEF s
  <1>5. Changes(c, s) /\ (s.ready => s.header # Absent)
    BY <1>1, <1>2, <1>3, <1>4, TabOf DEF Changes
  <1>6. tab' \in [Tabs -> Tab] /\ Headed' /\ calls' \subseteq Call
    BY <1>3, <1>5, ChangesTyped
  <1>7. SessionTyped'
    BY <1>1, <1>6 DEF SessionTyped, TypeOK
  <1>8. QED
    BY <1>1, <1>3, <1>4, <1>5, <1>7

LEMMA RequestOkFacts ==
    ASSUME SessionTyped, NEW c \in calls, RequestOk(c)
    PROVE  /\ SessionTyped' /\ c.kind \in {"settings", "work"}
           /\ \E s \in Tab : /\ Changes(c, s) /\ s.page = tab[c.tab].page
                             /\ s.loggedIn = tab[c.tab].loggedIn
           /\ UNCHANGED <<auth, isLogout, valid, issued, edits, reloads, failures>>
  <1> DEFINE ready == tab[c.tab].ready \/ c.kind = "settings"
             s == [tab[c.tab] EXCEPT !.ready = ready]
  <1>1. /\ c.kind \in {"settings", "work"} /\ calls' = calls \ {c}
        /\ tab' = [tab EXCEPT ![c.tab].ready = @ \/ c.kind = "settings"]
        /\ UNCHANGED <<auth, isLogout, valid, issued, edits, reloads, failures>>
    BY DEF RequestOk
  <1>2. tab' = [tab EXCEPT ![c.tab] = s]
    BY <1>1, TabOf
  <1>3. ready \in BOOLEAN
    BY Zenon, TabOf, StoreFacts
  <1> HIDE DEF ready
  <1>4. s \in Tab /\ s.header = tab[c.tab].header /\ s.page = tab[c.tab].page
    BY <1>3, TabOf DEF Tab
  <1>5. s.loggedIn = tab[c.tab].loggedIn
    BY TabOf, Zenon DEF Tab
  <1> HIDE DEF s
  <1>6. Changes(c, s) /\ (s.ready => s.header # Absent)
    BY <1>1, <1>2, <1>4, TabOf DEF Changes
  <1>7. tab' \in [Tabs -> Tab] /\ Headed' /\ calls' \subseteq Call
    BY <1>4, <1>6, ChangesTyped
  <1>8. SessionTyped'
    BY <1>1, <1>7 DEF SessionTyped, TypeOK
  <1>9. QED
    BY <1>1, <1>4, <1>5, <1>6, <1>8

LEMMA RequestRejectedFacts ==
    ASSUME SessionTyped, NEW c \in calls, RequestRejected(c)
    PROVE  /\ SessionTyped' /\ c.kind \in {"settings", "work", "profile"}
           /\ \E s \in Tab :
                  /\ Changes(c, s) /\ s.loggedIn = tab[c.tab].loggedIn
                  /\ s.page = IF Leaves(c) THEN "leaving" ELSE tab[c.tab].page
           /\ auth' = Absent /\ ~isLogout'
           /\ UNCHANGED <<valid, issued, edits, reloads, failures>>
  <1> DEFINE ready == tab[c.tab].ready /\ (c.kind # "settings" \/ c.token = Undefined)
             page == IF Leaves(c) THEN "leaving" ELSE tab[c.tab].page
             s == [tab[c.tab] EXCEPT !.page = page, !.ready = ready]
  <1>1. /\ c.kind \in {"settings", "work", "profile"} /\ calls' = calls \ {c}
        /\ tab' = [tab EXCEPT
               ![c.tab].page = IF Leaves(c) THEN "leaving" ELSE @,
               ![c.tab].ready = @ /\ (c.kind # "settings" \/ c.token = Undefined)]
        /\ auth' = Absent /\ isLogout' = FALSE
        /\ UNCHANGED <<valid, issued, edits, reloads, failures>>
    BY DEF RequestRejected
  <1>2. tab' = [tab EXCEPT ![c.tab] = s]
    BY <1>1, TabOf
  <1>3. ready \in BOOLEAN /\ page \in Pages
    <2>1. ready \in BOOLEAN
      BY Zenon, TabOf, StoreFacts
    <2>2. page \in Pages
      BY TabOf, StoreFacts DEF Pages
    <2>3. QED
      BY <2>1, <2>2
  <1>4. page = IF Leaves(c) THEN "leaving" ELSE tab[c.tab].page
    OBVIOUS
  <1> HIDE DEF ready, page
  <1>5. s \in Tab /\ s.header = tab[c.tab].header /\ s.page = page
    BY <1>3, TabOf DEF Tab, Pages
  <1>6. s.loggedIn = tab[c.tab].loggedIn
    BY TabOf, Zenon DEF Tab
  <1> HIDE DEF s
  <1>7. Changes(c, s) /\ (s.ready => s.header # Absent)
    BY <1>1, <1>2, <1>5, TabOf DEF Changes
  <1>8. tab' \in [Tabs -> Tab] /\ Headed' /\ calls' \subseteq Call
    BY <1>5, <1>7, ChangesTyped
  <1>9. SessionTyped'
    BY <1>1, <1>8 DEF SessionTyped, TypeOK, Stored
  <1>10. QED
    BY <1>1, <1>4, <1>5, <1>6, <1>7, <1>9

LEMMA LogoutOkTyped ==
    ASSUME SessionTyped, NEW c \in calls, LogoutOk(c)
    PROVE  SessionTyped'
  <1>1. /\ calls' = calls \ {c}
        /\ UNCHANGED <<auth, isLogout, tab, valid, issued, edits, reloads, failures>>
    BY DEF LogoutOk
  <1>2. calls' \subseteq Call
    BY <1>1 DEF SessionTyped, TypeOK
  <1>3. tab' \in [Tabs -> Tab] /\ Headed'
    BY <1>1, <1>2, CallsStep
  <1>4. QED
    BY <1>1, <1>2, <1>3 DEF SessionTyped, TypeOK

LEMMA RestoredFacts ==
    ASSUME NEW c
    PROVE  /\ Restored(c) \in Tokens \union {Undefined, Null} /\ Restored(c) \in Stored
           /\ c.saved # Absent => Restored(c) = Undefined
  BY DEF Restored, Stored

LEMMA LogoutRejectedFacts ==
    ASSUME SessionTyped, NEW c \in calls, LogoutRejected(c)
    PROVE  /\ SessionTyped' /\ c.kind = "logout" /\ ~isLogout'
           /\ \/ /\ auth' = Absent
                 /\ \E s \in Tab : Changes(c, s) /\ s.page = "leaving"
              \/ /\ auth' = Restored(c)
                 /\ Appears(c, Restored(c), IF Leaves(c) THEN "leaving" ELSE tab[c.tab].page)
           /\ UNCHANGED <<valid, issued, edits, reloads, failures>>
  <1>1. /\ c.kind = "logout" /\ isLogout' = FALSE
        /\ UNCHANGED <<valid, issued, edits, reloads, failures>>
    BY DEF LogoutRejected
  <1>2. CASE c.token = Undefined
    <2> DEFINE s == [tab[c.tab] EXCEPT !.page = "leaving"]
    <2>1. /\ auth' = Absent /\ calls' = calls \ {c}
          /\ tab' = [tab EXCEPT ![c.tab].page = "leaving"]
      BY <1>2 DEF LogoutRejected
    <2>2. tab' = [tab EXCEPT ![c.tab] = s]
      BY <2>1, TabOf
    <2>3. s \in Tab /\ s.header = tab[c.tab].header /\ s.page = "leaving"
      BY TabOf DEF Tab
    <2> HIDE DEF s
    <2>4. Changes(c, s) /\ s.header # Absent
      BY <1>1, <2>1, <2>2, <2>3, TabOf DEF Changes
    <2>5. tab' \in [Tabs -> Tab] /\ Headed' /\ calls' \subseteq Call
      BY <2>3, <2>4, ChangesTyped
    <2>6. SessionTyped'
      BY <1>1, <2>1, <2>5 DEF SessionTyped, TypeOK, Stored
    <2>7. QED
      BY <1>1, <2>1, <2>3, <2>4, <2>6
  <1>3. CASE c.token # Undefined
    <2> DEFINE a == Restored(c)
               page == IF Leaves(c) THEN "leaving" ELSE tab[c.tab].page
    <2>1. /\ auth' = a
          /\ tab' = [tab EXCEPT ![c.tab] = [Mounted(@, auth') EXCEPT !.page = page]]
          /\ calls' = (calls \ {c}) \union MountCalls(c.tab, tab[c.tab].loggedIn, auth')
      BY <1>3 DEF LogoutRejected
    <2>2. a \in Tokens \union {Undefined, Null} /\ a \in Stored
      BY RestoredFacts
    <2>3. page \in Pages
      BY TabOf, StoreFacts DEF Pages
    <2>4. tab' = [tab EXCEPT ![c.tab] = [Mounted(@, a) EXCEPT !.page = page]]
      BY <2>1
    <2>5. calls' = (calls \ {c}) \union MountCalls(c.tab, tab[c.tab].loggedIn, a)
      BY <2>1
    <2>6. /\ tab' \in [Tabs -> Tab] /\ Headed' /\ calls' \subseteq Call
          /\ Appears(c, a, page)
      <3> HIDE DEF a, page
      <3>1. QED
        BY <2>2, <2>3, <2>4, <2>5, AppearStep
    <2>7. SessionTyped'
      BY <1>1, <2>1, <2>2, <2>6 DEF SessionTyped, TypeOK
    <2>8. QED
      BY <1>1, <2>1, <2>6, <2>7
  <1>4. QED
    BY <1>2, <1>3

LEMMA LogoutLostFacts ==
    ASSUME SessionTyped, NEW c \in calls, LogoutLost(c)
    PROVE  /\ SessionTyped' /\ c.kind = "logout" /\ ~isLogout'
           /\ auth' = Restored(c) /\ Appears(c, Restored(c), tab[c.tab].page)
           /\ failures' = failures + 1
           /\ UNCHANGED <<valid, issued, edits, reloads>>
  <1> DEFINE a == Restored(c)
  <1>1. /\ c.kind = "logout" /\ isLogout' = FALSE /\ failures' = failures + 1 /\ auth' = a
        /\ tab' = [tab EXCEPT ![c.tab] = Mounted(@, a)]
        /\ calls' = (calls \ {c}) \union MountCalls(c.tab, tab[c.tab].loggedIn, a)
        /\ UNCHANGED <<valid, issued, edits, reloads>>
    BY DEF LogoutLost
  <1>2. a \in Tokens \union {Undefined, Null} /\ a \in Stored
    BY RestoredFacts
  <1> HIDE DEF a
  <1>3. /\ tab' \in [Tabs -> Tab] /\ Headed' /\ calls' \subseteq Call
        /\ Appears(c, a, tab[c.tab].page)
    BY <1>1, <1>2, AppearHere
  <1>4. failures' \in Nat
    BY <1>1 DEF SessionTyped, TypeOK
  <1>5. SessionTyped'
    BY <1>1, <1>2, <1>3, <1>4, Zenon DEF SessionTyped, TypeOK
  <1>6. QED
    BY <1>1, <1>3, <1>5 DEF a

LEMMA RequestLostFacts ==
    ASSUME SessionTyped, NEW c \in calls, RequestLost(c)
    PROVE  /\ SessionTyped' /\ c.kind # "logout"
           /\ \E s \in Tab : /\ Changes(c, s) /\ s.page = tab[c.tab].page
                             /\ s.loggedIn => tab[c.tab].loggedIn
           /\ failures' = failures + 1
           /\ UNCHANGED <<auth, isLogout, valid, issued, edits, reloads>>
  <1> DEFINE loggedIn == tab[c.tab].loggedIn /\ c.kind # "login"
             ready == tab[c.tab].ready /\ c.kind # "settings"
             s == [tab[c.tab] EXCEPT !.loggedIn = loggedIn, !.ready = ready]
  <1>1. /\ c.kind # "logout" /\ calls' = calls \ {c} /\ failures' = failures + 1
        /\ tab' = [tab EXCEPT ![c.tab].loggedIn = @ /\ c.kind # "login",
                              ![c.tab].ready = @ /\ c.kind # "settings"]
        /\ UNCHANGED <<auth, isLogout, valid, issued, edits, reloads>>
    BY DEF RequestLost
  <1>2. tab' = [tab EXCEPT ![c.tab] = s]
    BY <1>1, TabOf
  <1>3. loggedIn \in BOOLEAN /\ ready \in BOOLEAN
    BY Zenon, TabOf, StoreFacts
  <1>4. (loggedIn => tab[c.tab].loggedIn) /\ (ready => tab[c.tab].ready)
    OBVIOUS
  <1> HIDE DEF loggedIn, ready
  <1>5. s \in Tab /\ s.header = tab[c.tab].header /\ s.page = tab[c.tab].page
    BY <1>3, TabOf DEF Tab
  <1>6. s.loggedIn = loggedIn /\ s.ready = ready
    BY TabOf, Zenon DEF Tab
  <1> HIDE DEF s
  <1>7. Changes(c, s) /\ (s.ready => s.header # Absent)
    BY <1>1, <1>2, <1>4, <1>5, <1>6, TabOf DEF Changes
  <1>8. tab' \in [Tabs -> Tab] /\ Headed' /\ calls' \subseteq Call
    BY <1>5, <1>7, ChangesTyped
  <1>9. SessionTyped'
    BY <1>1, <1>8 DEF SessionTyped, TypeOK
  <1>10. QED
    BY <1>1, <1>4, <1>5, <1>6, <1>7, <1>9

\* A page that is loaded waits for nothing but its settings, and shows the
\* application if there is a session.
LEMMA LoadFacts ==
    ASSUME SessionTyped, NEW t \in Tabs, NEW page \in Pages, Load(t, page),
           reloads' \in Nat
    PROVE  /\ SessionTyped'
           /\ UNCHANGED <<auth, isLogout, valid, issued, edits, failures>>
           /\ \E s \in Tab, mount \in SUBSET Call :
                  /\ tab' = [tab EXCEPT ![t] = s]
                  /\ s.loggedIn <=> auth # Absent
                  /\ auth \in Tokens \union {Undefined} => s.header = auth
                  /\ calls' = {c \in calls : c.tab # t} \union mount
                  /\ \A d \in mount : d.kind = "settings"
  <1> DEFINE others == {c \in calls : c.tab # t}
  <1>1. tab \in [Tabs -> Tab] /\ calls \subseteq Call /\ auth \in Stored
    BY DEF SessionTyped, TypeOK
  <1>2. UNCHANGED <<auth, isLogout, valid, issued, edits, failures>>
    BY DEF Load
  <1>3. ASSUME NEW s \in Tab, NEW mount \in SUBSET Call,
               s.ready => s.header # Absent,
               tab' = [tab EXCEPT ![t] = s], calls' = others \union mount,
               \A d \in mount : d.tab = t /\ s.header # Absent
        PROVE  SessionTyped'
    <2>1. \A u \in Tabs : tab'[u] = IF u = t THEN s ELSE tab[u]
      BY <1>1, <1>3
    <2>2. tab' \in [Tabs -> Tab] /\ calls' \subseteq Call
      BY <1>1, <1>3
    <2>3. \A u \in Tabs : tab'[u].ready => tab'[u].header # Absent
      BY <1>3, <2>1 DEF SessionTyped, Headed
    <2>4. ASSUME NEW c \in calls', c.kind # "login" PROVE tab'[c.tab].header # Absent
      <3>1. CASE c \in mount
        BY <1>3, <2>1, <3>1
      <3>2. CASE c \in others
        <4>1. c \in calls /\ c.tab # t /\ c.tab \in Tabs
          BY <1>1, <3>2, CallFacts
        <4>2. tab[c.tab].header # Absent
          BY <2>4, <4>1 DEF SessionTyped, Headed
        <4>3. QED
          BY <2>1, <4>1, <4>2
      <3>3. QED
        BY <1>3, <3>1, <3>2
    <2>5. Headed'
      BY <2>3, <2>4 DEF Headed
    <2>6. QED
      BY <1>2, <2>2, <2>5 DEF SessionTyped, TypeOK
  <1>4. LoggedOutTab \in Tab /\ LoggedOutTab.header = Absent
    BY DEF LoggedOutTab, Tab
  <1>5. ~LoggedOutTab.loggedIn /\ ~LoggedOutTab.ready
    BY DEF LoggedOutTab
  <1>6. CASE auth = Absent
    <2>1. tab' = [tab EXCEPT ![t] = LoggedOutTab] /\ calls' = others \union {}
      BY <1>6 DEF Load
    <2> HIDE DEF others
    <2>2. SessionTyped'
      <3>1. {} \in SUBSET Call /\ \A d \in {} : d.tab = t /\ LoggedOutTab.header # Absent
        OBVIOUS
      <3>2. LoggedOutTab.ready => LoggedOutTab.header # Absent
        BY <1>5, Zenon
      <3>3. QED
        BY <1>3, <1>4, <2>1, <3>1, <3>2, Zenon
    <2>3. auth \notin Tokens \union {Undefined}
      BY <1>6, Marks
    <2>4. /\ LoggedOutTab \in Tab /\ {} \in SUBSET Call
          /\ LoggedOutTab.loggedIn <=> auth # Absent
      BY <1>4, <1>5, <1>6
    <2>5. QED
      BY <1>2, <2>1, <2>2, <2>3, <2>4 DEF others
  <1>7. CASE auth # Absent
    <2> DEFINE m == Mounted(LoggedOutTab, auth)
               s == [m EXCEPT !.page = page]
               mount == MountCalls(t, FALSE, auth)
    <2>1. tab' = [tab EXCEPT ![t] = s] /\ calls' = others \union mount
      BY <1>7 DEF Load
    <2>2. auth \in Tokens \union {Undefined, Null}
      BY <1>1, <1>7 DEF Stored
    <2>3. /\ m \in Tab /\ m.loggedIn
          /\ auth # Null => m.header = auth
          /\ m.ready => m.header # Absent
      BY <1>4, <1>5, <2>2, MountedFacts
    <2>4. /\ mount \in SUBSET Call
          /\ \A d \in mount : d.tab = t /\ d.kind = "settings" /\ auth # Null
      <3>1. FALSE \in BOOLEAN
        OBVIOUS
      <3>2. QED
        BY <2>2, <3>1, MountCallsFacts
    <2> HIDE DEF m, mount, others
    <2>5. s \in Tab /\ s.header = m.header
      BY <2>3 DEF Tab, Pages
    <2>6. s.loggedIn /\ s.ready = m.ready
      BY <2>3, Zenon DEF Tab
    <2> HIDE DEF s
    <2>7. \A d \in mount : d.tab = t /\ d.kind = "settings" /\ s.header # Absent
      BY <1>7, <2>3, <2>4, <2>5
    <2>8. s.ready => s.header # Absent
      BY <2>3, <2>5, <2>6
    <2>9. SessionTyped'
      BY <1>3, <2>1, <2>4, <2>5, <2>7, <2>8
    <2>10. auth \in Tokens \union {Undefined} => s.header = auth
      BY <2>3, <2>5, Marks
    <2>11. s.loggedIn <=> auth # Absent
      BY <1>7, <2>6
    <2>12. QED
      BY <1>2, <2>1, <2>4, <2>5, <2>7, <2>9, <2>10, <2>11 DEF others
  <1>8. QED
    BY <1>6, <1>7

LEMMA SessionInit == Init => SessionTyped
  <1>1. LoggedOutTab \in Tab
    BY DEF LoggedOutTab, Tab
  <1>2. ~LoggedOutTab.ready
    BY DEF LoggedOutTab
  <1> SUFFICES ASSUME Init PROVE SessionTyped
    OBVIOUS
  <1>3. TypeOK
    BY <1>1 DEF Init, TypeOK, Stored
  <1>4. Headed
    BY <1>2, Zenon DEF Init, Headed
  <1>5. QED
    BY <1>3, <1>4 DEF SessionTyped

LEMMA TabStepTyped ==
    ASSUME SessionTyped, NEW t \in Tabs,
           \/ LoginStart(t)
           \/ RequestStart(t, "work") /\ UNCHANGED edits
           \/ ProfileStart(t)
           \/ LogoutStart(t)
           \/ Leave(t)
           \/ Refresh(t)
    PROVE  SessionTyped'
  <1>1. edits \in Nat /\ reloads \in Nat /\ tab[t].page \in Pages
    BY StoreFacts DEF SessionTyped, TypeOK, Pages
  <1>2. CASE LoginStart(t)
    BY <1>2, LoginStartTyped
  <1>3. CASE RequestStart(t, "work") /\ UNCHANGED edits
    BY <1>1, <1>3, RequestStartTyped
  <1>4. CASE ProfileStart(t)
    BY <1>1, <1>4, RequestStartTyped DEF ProfileStart
  <1>5. CASE LogoutStart(t)
    BY <1>5, LogoutStartTyped
  <1>6. CASE Leave(t)
    BY <1>1, <1>6, LoadFacts DEF Leave, Pages
  <1>7. CASE Refresh(t)
    BY <1>1, <1>7, LoadFacts DEF Refresh
  <1>8. QED
    BY <1>2, <1>3, <1>4, <1>5, <1>6, <1>7

LEMMA SessionStep == SessionTyped /\ [Next]_vars => SessionTyped'
  <1> SUFFICES ASSUME SessionTyped, [Next]_vars PROVE SessionTyped'
    OBVIOUS
  <1>1. CASE UNCHANGED vars
    BY <1>1 DEF vars, SessionTyped, TypeOK, Headed
  <1>2. ASSUME NEW c \in calls,
               Serve(c) \/ ServeLogin(c) \/ Receive(c) \/ LogoutLost(c) \/ RequestLost(c)
        PROVE  SessionTyped'
    BY <1>2, ServeTyped, ServeLoginTyped, LoginOkFacts, LoginRejectedFacts,
       RequestOkFacts, RequestRejectedFacts, ProfileOkFacts, LogoutOkTyped,
       LogoutRejectedFacts, LogoutLostFacts, RequestLostFacts DEF Receive
  <1>3. ASSUME NEW k \in Tokens, Expire(k) PROVE SessionTyped'
    BY <1>3, ExpireTyped
  <1>4. CASE Next
    BY <1>2, <1>3, <1>4, TabStepTyped DEF Next
  <1>5. QED
    BY <1>1, <1>4

LEMMA SessionAlways == Spec => []SessionTyped
  BY SessionInit, SessionStep, PTL DEF Spec

\* What is stored, the store of each tab, the calls that are out and the tokens
\* keep their types, in any number of tabs: only a login is sent without a token,
\* and no token is valid that was not given.
THEOREM SessionTypeCorrect == Spec => []TypeOK
  <1>1. SessionTyped => TypeOK
    BY DEF SessionTyped
  <1>2. QED
    BY <1>1, SessionAlways, PTL

-----------------------------------------------------------------------------
(***************************************************************************)
(* A browser with one tab.  What the tab holds of a session, what is       *)
(* stored and what the logout that is out ends are then one session:       *)
(*                                                                         *)
(*   - a tab that shows the application and is not sent away has a session *)
(*     stored, and its header is that session's token or none at all;      *)
(*   - a logout that is out has the session that was stored with it, and   *)
(*     the token of that session, and ends it if it is accepted;           *)
(*   - without updates of the profile and lost calls, the tab that shows   *)
(*     the login page has no session stored, and one that logs out knows   *)
(*     that it does until the answer comes.                                *)
(***************************************************************************)
Alone == \A s, t \in Tabs : s = t

Out(kind) == \E c \in calls : c.kind = kind

Inside(t) == tab[t].loggedIn /\ tab[t].page # "leaving"

Once ==
    \A c, d \in calls : c.kind = d.kind /\ c.kind \in {"login", "logout"} => c = d

LoggingOut ==
    \A c \in calls : c.kind = "logout" =>
        /\ c.saved \in Tokens \union {Undefined}
        /\ c.saved \in Tokens => c.token \in {c.saved, Undefined}
        /\ c.status = "ok" => c.token \in issued \ valid

Holding(t) ==
    Inside(t) =>
        /\ auth # Absent
        /\ auth \in Tokens => tab[t].header \in {auth, Undefined}
        /\ Out("login") => auth = Undefined /\ tab[t].header = Undefined

Cleared(t) ==
    edits = 0 /\ failures = 0 =>
        /\ ~Out("profile")
        /\ tab[t].page # "leaving" =>
               /\ ~tab[t].loggedIn => auth = Absent
               /\ Out("login") => auth = Absent
               /\ Out("logout") /\ auth = Absent => isLogout

OneTabInv ==
    /\ SessionTyped /\ auth # Null /\ Once /\ LoggingOut
    /\ \A t \in Tabs : Holding(t) /\ Cleared(t)

\* It is enough to look at the one tab.
LEMMA OfTheTab ==
    ASSUME Alone, NEW t \in Tabs, SessionTyped', (auth # Null)', Once', LoggingOut',
           Holding(t)', Cleared(t)'
    PROVE  OneTabInv'
  <1>1. \A u \in Tabs : u = t
    BY DEF Alone
  <1>2. \A u \in Tabs : Holding(u)' /\ Cleared(u)'
    BY <1>1
  <1>3. QED
    BY <1>2 DEF OneTabInv

LEMMA CallsOf ==
    ASSUME Alone, SessionTyped, NEW t \in Tabs
    PROVE  /\ \A c \in calls : c.tab = t
           /\ \A kind : Waiting(t, kind) <=> Out(kind)
  <1>1. \A c \in calls : c.tab = t
    <2>1. TAKE c \in calls
    <2>2. c.tab \in Tabs
      BY TabOf
    <2>3. QED
      BY <2>2 DEF Alone
  <1>2. QED
    BY <1>1 DEF Waiting, Out

\* c is answered, and perhaps the settings are asked for.
LEMMA FewerCalls ==
    ASSUME OneTabInv, NEW c \in calls, NEW mount,
           calls' = (calls \ {c}) \union mount, \A d \in mount : d.kind = "settings",
           UNCHANGED <<valid, issued>>
    PROVE  /\ Once' /\ LoggingOut'
           /\ \A kind \in {"login", "logout", "profile"} : Out(kind)' => Out(kind)
           /\ c.kind \in {"login", "logout"} => ~Out(c.kind)'
  <1>1. Once'
    BY DEF Once, OneTabInv
  <1>2. LoggingOut'
    BY DEF LoggingOut, OneTabInv
  <1>3. \A kind \in {"login", "logout", "profile"} : Out(kind)' => Out(kind)
    BY DEF Out
  <1>4. c.kind \in {"login", "logout"} => ~Out(c.kind)'
    BY DEF Out, Once, OneTabInv
  <1>5. QED
    BY <1>1, <1>2, <1>3, <1>4

\* The tab after c, if its application appears.
LEMMA AppearsFacts ==
    ASSUME OneTabInv, NEW c \in calls, NEW a \in Tokens \union {Undefined}, NEW page,
           Appears(c, a, page), UNCHANGED <<valid, issued>>
    PROVE  /\ Once' /\ LoggingOut'
           /\ \A kind \in {"login", "logout", "profile"} : Out(kind)' => Out(kind)
           /\ c.kind \in {"login", "logout"} => ~Out(c.kind)'
           /\ tab'[c.tab].loggedIn /\ tab'[c.tab].page = page
           /\ tab[c.tab].loggedIn => tab'[c.tab].header = tab[c.tab].header
           /\ ~tab[c.tab].loggedIn => tab'[c.tab].header = a
  <1>1. PICK s \in Tab, mount \in SUBSET Call :
        /\ s.loggedIn /\ s.page = page
        /\ tab[c.tab].loggedIn => s.header = tab[c.tab].header
        /\ ~tab[c.tab].loggedIn /\ a # Null => s.header = a
        /\ tab' = [tab EXCEPT ![c.tab] = s]
        /\ calls' = (calls \ {c}) \union mount
        /\ \A d \in mount : d.tab = c.tab /\ d.kind = "settings"
    BY DEF Appears
  <1>2. tab'[c.tab] = s
    BY <1>1, TabOf DEF OneTabInv
  <1>3. a # Null
    BY Marks
  <1>4. /\ Once' /\ LoggingOut'
        /\ \A kind \in {"login", "logout", "profile"} : Out(kind)' => Out(kind)
        /\ c.kind \in {"login", "logout"} => ~Out(c.kind)'
    BY <1>1, FewerCalls
  <1>5. QED
    BY <1>1, <1>2, <1>3, <1>4

\* The tab after c, if the application does not appear.
LEMMA ChangesFacts ==
    ASSUME OneTabInv, NEW c \in calls, NEW s \in Tab, Changes(c, s),
           UNCHANGED <<valid, issued>>
    PROVE  /\ Once' /\ LoggingOut'
           /\ \A kind \in {"login", "logout", "profile"} : Out(kind)' => Out(kind)
           /\ c.kind \in {"login", "logout"} => ~Out(c.kind)'
           /\ tab'[c.tab] = s /\ s.header = tab[c.tab].header
  <1> DEFINE mount == {}
  <1>1. calls' = (calls \ {c}) \union mount /\ \A d \in mount : d.kind = "settings"
    BY DEF Changes
  <1>2. tab'[c.tab] = s /\ s.header = tab[c.tab].header
    BY TabOf DEF Changes, OneTabInv
  <1> HIDE DEF mount
  <1>3. /\ Once' /\ LoggingOut'
        /\ \A kind \in {"login", "logout", "profile"} : Out(kind)' => Out(kind)
        /\ c.kind \in {"login", "logout"} => ~Out(c.kind)'
    BY <1>1, FewerCalls
  <1>4. QED
    BY <1>2, <1>3

LEMMA InsideFacts ==
    ASSUME OneTabInv, NEW t \in Tabs, Inside(t)
    PROVE  /\ auth \in Tokens \union {Undefined}
           /\ auth \in Tokens => tab[t].header \in {auth, Undefined}
           /\ Out("login") => auth = Undefined /\ tab[t].header = Undefined
  <1>1. auth \in Stored /\ auth # Null /\ Holding(t)
    BY DEF OneTabInv, SessionTyped, TypeOK
  <1>2. QED
    BY <1>1 DEF Holding, Stored

LEMMA LoginStartKeeps ==
    ASSUME Alone, OneTabInv, NEW t \in Tabs, LoginStart(t) PROVE OneTabInv'
  <1> DEFINE n == NewCall(t, "login", Absent, Absent)
  <1>1. n.kind = "login"
    BY DEF NewCall
  <1> HIDE DEF n
  <1>2. /\ ~tab[t].loggedIn /\ tab[t].page # "leaving" /\ ~Waiting(t, "login")
        /\ calls' = calls \union {n}
        /\ UNCHANGED <<auth, isLogout, tab, valid, issued, edits, reloads, failures>>
    BY DEF LoginStart, n
  <1>3. SessionTyped' /\ SessionTyped
    BY LoginStartTyped DEF OneTabInv
  <1>4. ~Out("login")
    BY <1>2, <1>3, CallsOf
  <1>5. Once' /\ LoggingOut' /\ (auth # Null)'
    BY <1>1, <1>2, <1>4 DEF Once, LoggingOut, OneTabInv, Out
  <1>6. ~Inside(t)'
    BY <1>2 DEF Inside
  <1>7. \A kind \in {"logout", "profile"} : Out(kind)' => Out(kind)
    BY <1>1, <1>2 DEF Out
  <1>8. Cleared(t)'
    <2>1. Cleared(t)
      BY DEF OneTabInv
    <2>2. QED
      BY <1>2, <1>7, <2>1 DEF Cleared
  <1>9. QED
    BY <1>3, <1>5, <1>6, <1>8, OfTheTab DEF Holding

LEMMA RequestStartKeeps ==
    ASSUME Alone, OneTabInv, NEW t \in Tabs, NEW kind \in {"work", "profile"},
           RequestStart(t, kind), edits' \in Nat,
           IF kind = "work" THEN edits' = edits ELSE edits' # 0
    PROVE  OneTabInv'
  <1>1. SessionTyped' /\ SessionTyped
    BY RequestStartTyped DEF OneTabInv
  <1>2. PICK s \in Tab, n \in Call :
              /\ s.header = Header(t)
              /\ s.page = tab[t].page /\ s.loggedIn = tab[t].loggedIn
              /\ n.kind = kind
              /\ tab' = [tab EXCEPT ![t] = s] /\ calls' = calls \union {n}
              /\ UNCHANGED <<auth, isLogout, valid, issued, reloads, failures>>
    BY <1>1, RequestStartFacts
  <1>3. tab'[t] = s /\ tab[t].loggedIn /\ tab[t].page = "open"
    BY <1>1, <1>2 DEF SessionTyped, TypeOK, RequestStart
  <1>4. Once' /\ LoggingOut' /\ (auth # Null)'
    BY <1>2 DEF Once, LoggingOut, OneTabInv
  <1>5. \A k \in {"login", "logout"} : Out(k)' => Out(k)
    BY <1>2 DEF Out
  <1>6. Inside(t)
    BY <1>3 DEF Inside
  <1>7. auth \in Tokens \union {Undefined} /\ (Out("login") => auth = Undefined)
    BY <1>6, InsideFacts
  <1>8. s.header = auth /\ auth # Absent
    BY <1>2, <1>7, Marks DEF Header
  <1>9. Holding(t)'
    BY <1>2, <1>3, <1>5, <1>7, <1>8 DEF Holding
  <1>10. Cleared(t)'
    <2>1. CASE kind = "profile"
      BY <2>1 DEF Cleared
    <2>2. CASE kind = "work"
      <3>1. edits' = edits /\ (Out("profile")' => Out("profile"))
        BY <1>2, <2>2 DEF Out
      <3>2. Cleared(t)
        BY DEF OneTabInv
      <3>3. tab'[t].page = tab[t].page /\ tab'[t].loggedIn
        BY <1>2, <1>3
      <3>4. QED
        BY <1>2, <1>5, <3>1, <3>2, <3>3 DEF Cleared
    <2>3. QED
      BY <2>1, <2>2
  <1>11. QED
    BY <1>1, <1>4, <1>9, <1>10, OfTheTab

LEMMA LogoutStartKeeps ==
    ASSUME Alone, OneTabInv, NEW t \in Tabs, LogoutStart(t) PROVE OneTabInv'
  <1>1. SessionTyped' /\ SessionTyped
    BY LogoutStartTyped DEF OneTabInv
  <1>2. PICK s \in Tab, n \in Call :
              /\ ~s.loggedIn
              /\ n.kind = "logout" /\ n.status = "sent"
              /\ n.token = tab[t].header /\ n.saved = auth
              /\ tab' = [tab EXCEPT ![t] = s] /\ calls' = calls \union {n}
              /\ auth' = Absent /\ isLogout'
              /\ UNCHANGED <<valid, issued, edits, reloads, failures>>
    BY <1>1, LogoutStartFacts
  <1>3. /\ tab[t].loggedIn /\ tab[t].page # "leaving" /\ ~Waiting(t, "logout")
        /\ tab'[t] = s
    BY <1>1, <1>2 DEF LogoutStart, SessionTyped, TypeOK
  <1>4. Inside(t) /\ ~Out("logout")
    BY <1>1, <1>3, CallsOf DEF Inside
  <1>5. /\ auth \in Tokens \union {Undefined}
        /\ auth \in Tokens => tab[t].header \in {auth, Undefined}
    BY <1>4, InsideFacts
  <1>6. Once'
    BY <1>2, <1>4 DEF Once, OneTabInv, Out
  <1>7. LoggingOut'
    BY <1>2, <1>5 DEF LoggingOut, OneTabInv
  <1>8. (auth # Null)'
    BY <1>2, Marks
  <1>9. Holding(t)'
    BY <1>2, <1>3 DEF Holding, Inside
  <1>10. Cleared(t)'
    <2>1. Out("profile")' => Out("profile")
      BY <1>2 DEF Out
    <2>2. Cleared(t)
      BY DEF OneTabInv
    <2>3. QED
      BY <1>2, <2>1, <2>2 DEF Cleared
  <1>11. QED
    BY <1>1, <1>6, <1>7, <1>8, <1>9, <1>10, OfTheTab

LEMMA LoadKeeps ==
    ASSUME Alone, OneTabInv, NEW t \in Tabs, NEW page \in Pages, Load(t, page),
           reloads' \in Nat
    PROVE  OneTabInv'
  <1>1. /\ SessionTyped' /\ SessionTyped
        /\ UNCHANGED <<auth, isLogout, valid, issued, edits, failures>>
    BY LoadFacts DEF OneTabInv
  <1>2. PICK s \in Tab, mount \in SUBSET Call :
                  /\ tab' = [tab EXCEPT ![t] = s]
                  /\ s.loggedIn <=> auth # Absent
                  /\ auth \in Tokens \union {Undefined} => s.header = auth
                  /\ calls' = {c \in calls : c.tab # t} \union mount
                  /\ \A d \in mount : d.kind = "settings"
    BY <1>1, LoadFacts
  <1>3. calls' = mount /\ tab'[t] = s
    <2>1. {c \in calls : c.tab # t} = {}
      BY <1>1, CallsOf
    <2>2. QED
      BY <1>1, <1>2, <2>1 DEF SessionTyped, TypeOK
  <1>4. Once' /\ LoggingOut' /\ ~Out("login")' /\ ~Out("logout")' /\ ~Out("profile")'
    BY <1>2, <1>3 DEF Once, LoggingOut, Out
  <1>5. (auth # Null)'
    BY <1>1 DEF OneTabInv
  <1>6. Holding(t)' /\ Cleared(t)'
    BY <1>1, <1>2, <1>3, <1>4 DEF Holding, Inside, Cleared
  <1>7. QED
    BY <1>1, <1>4, <1>5, <1>6, OfTheTab

LEMMA ServeKeeps ==
    ASSUME Alone, OneTabInv, NEW c \in calls, Serve(c) PROVE OneTabInv'
  <1>1. SessionTyped' /\ SessionTyped /\ c.tab \in Tabs
    BY ServeTyped, TabOf DEF OneTabInv
  <1>2. PICK n \in Call :
              /\ n.tab = c.tab /\ n.kind = c.kind /\ n.token = c.token /\ n.saved = c.saved
              /\ calls' = (calls \ {c}) \union {n}
              /\ valid' \subseteq valid
              /\ n.kind = "logout" /\ n.status = "ok" => n.token \in valid \ valid'
              /\ UNCHANGED <<auth, isLogout, tab, issued, edits, reloads, failures>>
    BY <1>1, ServeFacts
  <1>3. \A kind : Out(kind)' <=> Out(kind)
    BY <1>2 DEF Out
  <1>4. Once'
    BY <1>2 DEF Once, OneTabInv
  <1>5. LoggingOut'
    <2>1. valid \subseteq issued
      BY <1>1 DEF SessionTyped, TypeOK
    <2>2. QED
      BY <1>2, <2>1 DEF LoggingOut, OneTabInv
  <1>6. (auth # Null)' /\ Holding(c.tab)' /\ Cleared(c.tab)'
    BY <1>1, <1>2, <1>3 DEF Holding, Cleared, Inside, OneTabInv
  <1>7. QED
    BY <1>1, <1>4, <1>5, <1>6, OfTheTab

LEMMA ServeLoginKeeps ==
    ASSUME Alone, OneTabInv, NEW c \in calls, ServeLogin(c) PROVE OneTabInv'
  <1>1. SessionTyped' /\ SessionTyped /\ c.tab \in Tabs
    BY ServeLoginTyped, TabOf DEF OneTabInv
  <1>2. PICK n \in Call :
              /\ n.kind = "login" /\ c.kind = "login"
              /\ calls' = (calls \ {c}) \union {n}
              /\ \/ UNCHANGED <<valid, issued>>
                 \/ \E k \in Tokens \ issued :
                        valid' = valid \union {k} /\ issued' = issued \union {k}
              /\ UNCHANGED <<auth, isLogout, tab, edits, reloads, failures>>
    BY <1>1, ServeLoginFacts
  <1>3. \A kind : Out(kind)' <=> Out(kind)
    BY <1>2 DEF Out
  <1>4. Once'
    BY <1>2 DEF Once, OneTabInv
  <1>5. LoggingOut'
    <2>1. issued \ valid \subseteq issued' \ valid'
      BY <1>2
    <2>2. QED
      BY <1>2, <2>1 DEF LoggingOut, OneTabInv
  <1>6. (auth # Null)' /\ Holding(c.tab)' /\ Cleared(c.tab)'
    BY <1>1, <1>2, <1>3 DEF Holding, Cleared, Inside, OneTabInv
  <1>7. QED
    BY <1>1, <1>4, <1>5, <1>6, OfTheTab

LEMMA ExpireKeeps ==
    ASSUME OneTabInv, NEW k \in Tokens, Expire(k) PROVE OneTabInv'
  <1>1. SessionTyped'
    BY ExpireTyped DEF OneTabInv
  <1>2. /\ valid' \subseteq valid
        /\ UNCHANGED <<auth, isLogout, tab, calls, issued, edits, reloads, failures>>
    BY DEF Expire
  <1>3. LoggingOut' /\ Once' /\ \A kind : Out(kind)' <=> Out(kind)
    BY <1>2 DEF LoggingOut, Once, Out, OneTabInv
  <1>4. (auth # Null)' /\ \A t \in Tabs : Holding(t)' /\ Cleared(t)'
    BY <1>2, <1>3 DEF Holding, Cleared, Inside, OneTabInv
  <1>5. QED
    BY <1>1, <1>3, <1>4 DEF OneTabInv

LEMMA LoginOkKeeps ==
    ASSUME Alone, OneTabInv, NEW c \in calls, LoginOk(c) PROVE OneTabInv'
  <1> DEFINE t == c.tab
  <1>1. /\ SessionTyped' /\ SessionTyped /\ t \in Tabs
        /\ Appears(c, c.token, tab[t].page)
        /\ c.kind = "login" /\ auth' = c.token /\ c.token \in Tokens \union {Undefined}
        /\ UNCHANGED <<valid, issued, edits, reloads, failures>>
    BY LoginOkFacts, TabOf DEF OneTabInv
  <1>2. /\ Once' /\ LoggingOut' /\ ~Out("login")'
        /\ Out("profile")' => Out("profile")
        /\ tab'[t].loggedIn /\ tab'[t].page = tab[t].page
        /\ tab[t].loggedIn => tab'[t].header = tab[t].header
        /\ ~tab[t].loggedIn => tab'[t].header = c.token
    BY <1>1, AppearsFacts
  <1>3. (auth # Null)' /\ (auth # Absent)'
    BY <1>1, Marks
  <1>4. Inside(t) => tab[t].header = Undefined
    BY <1>1, InsideFacts DEF Out
  <1>5. Holding(t)'
    BY <1>1, <1>2, <1>3, <1>4 DEF Holding, Inside
  <1>6. Cleared(t)'
    <2>1. Cleared(t)
      BY <1>1 DEF OneTabInv
    <2>2. QED
      BY <1>1, <1>2, <1>3, <2>1 DEF Cleared
  <1> HIDE DEF t
  <1>7. QED
    BY <1>1, <1>2, <1>3, <1>5, <1>6, OfTheTab

\* A session without a token is stored, and the application appears.
LEMMA BareSession ==
    ASSUME OneTabInv, NEW c \in calls, NEW page,
           page = tab[c.tab].page \/ page = "leaving",
           Appears(c, Undefined, page), auth' = Undefined, UNCHANGED <<valid, issued>>
    PROVE  Holding(c.tab)'
  <1> DEFINE t == c.tab
  <1>1. t \in Tabs
    BY TabOf DEF OneTabInv
  <1>2. /\ Out("login")' => Out("login")
        /\ tab'[t].page = page
        /\ tab[t].loggedIn => tab'[t].header = tab[t].header
        /\ ~tab[t].loggedIn => tab'[t].header = Undefined
    BY AppearsFacts
  <1>3. Inside(t) /\ Out("login") => tab[t].header = Undefined
    BY <1>1, InsideFacts
  <1>4. page = tab[t].page \/ page = "leaving"
    OBVIOUS
  <1> HIDE DEF t
  <1>5. Holding(t)'
    BY <1>2, <1>3, <1>4, Marks DEF Holding, Inside
  <1>6. QED
    BY <1>5 DEF t

LEMMA ProfileOkKeeps ==
    ASSUME Alone, OneTabInv, NEW c \in calls, ProfileOk(c) PROVE OneTabInv'
  <1>1. /\ SessionTyped' /\ SessionTyped /\ c.tab \in Tabs
        /\ Appears(c, Undefined, tab[c.tab].page) /\ c.kind = "profile"
        /\ auth' = Undefined /\ UNCHANGED <<isLogout, valid, issued, edits, reloads, failures>>
    BY ProfileOkFacts, TabOf DEF OneTabInv
  <1>2. Once' /\ LoggingOut'
    BY <1>1, AppearsFacts
  <1>3. (auth # Null)'
    BY <1>1, Marks
  <1>4. Holding(c.tab)'
    BY <1>1, BareSession
  <1>5. Cleared(c.tab)'
    <2>1. Cleared(c.tab) /\ Out("profile")
      BY <1>1 DEF OneTabInv, Out
    <2>2. QED
      BY <1>1, <2>1 DEF Cleared
  <1>6. QED
    BY <1>1, <1>2, <1>3, <1>4, <1>5, OfTheTab

LEMMA LoginRejectedKeeps ==
    ASSUME Alone, OneTabInv, NEW c \in calls, LoginRejected(c) PROVE OneTabInv'
  <1> DEFINE t == c.tab
  <1>1. /\ SessionTyped' /\ SessionTyped /\ t \in Tabs /\ c.kind = "login"
        /\ UNCHANGED <<auth, isLogout, valid, issued, edits, reloads, failures>>
    BY LoginRejectedFacts, TabOf DEF OneTabInv
  <1>2. PICK s \in Tab : Changes(c, s) /\ ~s.loggedIn /\ s.page = tab[t].page
    BY <1>1, LoginRejectedFacts
  <1>3. /\ Once' /\ LoggingOut' /\ ~Out("login")'
        /\ Out("profile")' => Out("profile")
        /\ Out("logout")' => Out("logout")
        /\ tab'[t] = s
    BY <1>1, <1>2, ChangesFacts
  <1>4. Holding(t)' /\ (auth # Null)'
    BY <1>1, <1>2, <1>3 DEF Holding, Inside, OneTabInv
  <1>5. Cleared(t)'
    <2>1. Cleared(t) /\ Out("login")
      BY <1>1 DEF OneTabInv, Out
    <2>2. QED
      BY <1>1, <1>2, <1>3, <2>1 DEF Cleared
  <1> HIDE DEF t
  <1>6. QED
    BY <1>1, <1>3, <1>4, <1>5, OfTheTab

LEMMA RequestOkKeeps ==
    ASSUME Alone, OneTabInv, NEW c \in calls, RequestOk(c) PROVE OneTabInv'
  <1> DEFINE t == c.tab
  <1>1. /\ SessionTyped' /\ SessionTyped /\ t \in Tabs
        /\ UNCHANGED <<auth, isLogout, valid, issued, edits, reloads, failures>>
    BY RequestOkFacts, TabOf DEF OneTabInv
  <1>2. PICK s \in Tab : /\ Changes(c, s) /\ s.page = tab[t].page
                         /\ s.loggedIn = tab[t].loggedIn
    BY <1>1, RequestOkFacts
  <1>3. /\ Once' /\ LoggingOut'
        /\ Out("login")' => Out("login")
        /\ Out("profile")' => Out("profile")
        /\ Out("logout")' => Out("logout")
        /\ tab'[t] = s /\ s.header = tab[t].header
    BY <1>1, <1>2, ChangesFacts
  <1>4. Holding(t) /\ Cleared(t)
    BY <1>1 DEF OneTabInv
  <1>5. Holding(t)' /\ (auth # Null)'
    BY <1>1, <1>2, <1>3, <1>4 DEF Holding, Inside, OneTabInv
  <1>6. Cleared(t)'
    BY <1>1, <1>2, <1>3, <1>4 DEF Cleared
  <1> HIDE DEF t
  <1>7. QED
    BY <1>1, <1>3, <1>5, <1>6, OfTheTab

\* A tab that is inside leaves when its session is rejected.
LEMMA RejectedInside ==
    ASSUME OneTabInv, NEW c \in calls, Inside(c.tab) PROVE Leaves(c)
  <1>1. auth # Absent
    BY TabOf, InsideFacts, Marks DEF OneTabInv
  <1>2. QED
    BY <1>1 DEF Leaves

LEMMA RequestRejectedKeeps ==
    ASSUME Alone, OneTabInv, NEW c \in calls, RequestRejected(c) PROVE OneTabInv'
  <1> DEFINE t == c.tab
  <1>1. /\ SessionTyped' /\ SessionTyped /\ t \in Tabs
        /\ auth' = Absent /\ ~isLogout'
        /\ UNCHANGED <<valid, issued, edits, reloads, failures>>
    BY RequestRejectedFacts, TabOf DEF OneTabInv
  <1>2. PICK s \in Tab :
                  /\ Changes(c, s) /\ s.loggedIn = tab[t].loggedIn
                  /\ s.page = IF Leaves(c) THEN "leaving" ELSE tab[t].page
    BY <1>1, RequestRejectedFacts
  <1>3. /\ Once' /\ LoggingOut'
        /\ Out("profile")' => Out("profile")
        /\ Out("logout")' => Out("logout")
        /\ tab'[t] = s
    BY <1>1, <1>2, ChangesFacts
  <1>4. Inside(t) => Leaves(c)
    BY RejectedInside
  <1>5. ~Inside(t)'
    BY <1>2, <1>3, <1>4 DEF Inside
  <1>6. (auth # Null)' /\ Holding(t)'
    BY <1>1, <1>5, Marks DEF Holding
  <1>7. Cleared(t)'
    <2>1. Cleared(t)
      BY <1>1 DEF OneTabInv
    <2>2. ASSUME tab'[t].page # "leaving"
          PROVE  tab[t].page # "leaving" /\ auth = Absent /\ ~isLogout
      BY <1>2, <1>3, <2>2 DEF Leaves
    <2>3. QED
      BY <1>1, <1>3, <2>1, <2>2 DEF Cleared
  <1> HIDE DEF t
  <1>8. QED
    BY <1>1, <1>3, <1>6, <1>7, OfTheTab

LEMMA LogoutOkKeeps ==
    ASSUME OneTabInv, NEW c \in calls, LogoutOk(c) PROVE OneTabInv'
  <1>1. SessionTyped'
    BY LogoutOkTyped DEF OneTabInv
  <1>2. /\ calls' = calls \ {c}
        /\ UNCHANGED <<auth, isLogout, tab, valid, issued, edits, reloads, failures>>
    BY DEF LogoutOk
  <1>3. LoggingOut' /\ Once' /\ \A kind : Out(kind)' => Out(kind)
    BY <1>2 DEF LoggingOut, Once, Out, OneTabInv
  <1>4. (auth # Null)' /\ \A t \in Tabs : Holding(t)' /\ Cleared(t)'
    BY <1>2, <1>3 DEF Holding, Cleared, Inside, OneTabInv
  <1>5. QED
    BY <1>1, <1>3, <1>4 DEF OneTabInv

\* A logout that is out has a session to restore.
LEMMA RestoresBare ==
    ASSUME OneTabInv, NEW c \in calls, c.kind = "logout" PROVE Restored(c) = Undefined
  <1>1. c.saved \in Tokens \union {Undefined}
    BY DEF OneTabInv, LoggingOut
  <1>2. QED
    BY <1>1, Marks, RestoredFacts

LEMMA LogoutRejectedKeeps ==
    ASSUME Alone, OneTabInv, NEW c \in calls, LogoutRejected(c) PROVE OneTabInv'
  <1> DEFINE t == c.tab
             page == IF Leaves(c) THEN "leaving" ELSE tab[t].page
  <1>1. /\ SessionTyped' /\ SessionTyped /\ t \in Tabs /\ c.kind = "logout"
        /\ UNCHANGED <<valid, issued, edits, reloads, failures>>
    BY LogoutRejectedFacts, TabOf DEF OneTabInv
  <1>2. Cleared(t) /\ Out("logout")
    BY <1>1 DEF OneTabInv, Out
  <1>3. CASE auth' = Absent /\ \E s \in Tab : Changes(c, s) /\ s.page = "leaving"
    <2>1. PICK s \in Tab : Changes(c, s) /\ s.page = "leaving"
      BY <1>3
    <2>2. Once' /\ LoggingOut' /\ (Out("profile")' => Out("profile")) /\ tab'[t] = s
      BY <1>1, <2>1, ChangesFacts
    <2>3. (auth # Null)' /\ Holding(t)' /\ Cleared(t)'
      BY <1>1, <1>2, <1>3, <2>1, <2>2, Marks DEF Holding, Inside, Cleared
    <2> HIDE DEF t
    <2>4. QED
      BY <1>1, <2>2, <2>3, OfTheTab
  <1>4. CASE auth' = Restored(c) /\ Appears(c, Restored(c), page)
    <2>1. auth' = Undefined /\ Appears(c, Undefined, page)
      BY <1>1, <1>4, RestoresBare
    <2>2. page = tab[t].page \/ page = "leaving"
      OBVIOUS
    <2>3. page # "leaving" => tab[t].page # "leaving" /\ auth = Absent /\ ~isLogout
      BY DEF Leaves
    <2> HIDE DEF page
    <2>4. /\ Once' /\ LoggingOut' /\ (Out("profile")' => Out("profile"))
          /\ tab'[t].page = page
      BY <1>1, <2>1, AppearsFacts
    <2>5. Holding(t)' /\ (auth # Null)'
      BY <1>1, <2>1, <2>2, BareSession, Marks
    <2>6. Cleared(t)'
      BY <1>1, <1>2, <2>3, <2>4 DEF Cleared
    <2> HIDE DEF t
    <2>7. QED
      BY <1>1, <2>4, <2>5, <2>6, OfTheTab
  <1>5. QED
    BY <1>1, <1>3, <1>4, LogoutRejectedFacts

LEMMA LogoutLostKeeps ==
    ASSUME Alone, OneTabInv, NEW c \in calls, LogoutLost(c) PROVE OneTabInv'
  <1>1. /\ SessionTyped' /\ SessionTyped /\ c.tab \in Tabs /\ c.kind = "logout"
        /\ auth' = Restored(c) /\ Appears(c, Restored(c), tab[c.tab].page)
        /\ failures' = failures + 1
        /\ UNCHANGED <<valid, issued>>
    BY LogoutLostFacts, TabOf DEF OneTabInv
  <1>2. auth' = Undefined /\ Appears(c, Undefined, tab[c.tab].page)
    BY <1>1, RestoresBare
  <1>3. Once' /\ LoggingOut'
    BY <1>1, <1>2, AppearsFacts
  <1>4. Holding(c.tab)' /\ (auth # Null)'
    BY <1>1, <1>2, BareSession, Marks
  <1>5. Cleared(c.tab)'
    BY <1>1 DEF Cleared, SessionTyped, TypeOK
  <1>6. QED
    BY <1>1, <1>3, <1>4, <1>5, OfTheTab

LEMMA RequestLostKeeps ==
    ASSUME Alone, OneTabInv, NEW c \in calls, RequestLost(c) PROVE OneTabInv'
  <1> DEFINE t == c.tab
  <1>1. /\ SessionTyped' /\ SessionTyped /\ t \in Tabs
        /\ failures' = failures + 1
        /\ UNCHANGED <<auth, isLogout, valid, issued, edits, reloads>>
    BY RequestLostFacts, TabOf DEF OneTabInv
  <1>2. PICK s \in Tab : /\ Changes(c, s) /\ s.page = tab[t].page
                         /\ s.loggedIn => tab[t].loggedIn
    BY <1>1, RequestLostFacts
  <1>3. /\ Once' /\ LoggingOut'
        /\ Out("login")' => Out("login")
        /\ tab'[t] = s /\ s.header = tab[t].header
    BY <1>1, <1>2, ChangesFacts
  <1>4. Holding(t)
    BY <1>1 DEF OneTabInv
  <1>5. Holding(t)' /\ (auth # Null)'
    BY <1>1, <1>2, <1>3, <1>4 DEF Holding, Inside, OneTabInv
  <1>6. Cleared(t)'
    BY <1>1 DEF Cleared, SessionTyped, TypeOK
  <1> HIDE DEF t
  <1>7. QED
    BY <1>1, <1>3, <1>5, <1>6, OfTheTab

LEMMA OneTabInit == Init => OneTabInv
  <1> SUFFICES ASSUME Init PROVE OneTabInv
    OBVIOUS
  <1>1. calls = {} /\ auth = Absent /\ tab = [t \in Tabs |-> LoggedOutTab]
    BY DEF Init
  <1>2. SessionTyped
    BY SessionInit
  <1>3. ~LoggedOutTab.loggedIn
    BY DEF LoggedOutTab
  <1>4. Once /\ LoggingOut /\ \A kind : ~Out(kind)
    BY <1>1 DEF Once, LoggingOut, Out
  <1>5. auth # Null /\ \A t \in Tabs : Holding(t) /\ Cleared(t)
    BY <1>1, <1>3, <1>4, Marks DEF Holding, Inside, Cleared
  <1>6. QED
    BY <1>2, <1>4, <1>5 DEF OneTabInv

LEMMA OneTabTabStep ==
    ASSUME Alone, OneTabInv, NEW t \in Tabs,
           \/ LoginStart(t)
           \/ RequestStart(t, "work") /\ UNCHANGED edits
           \/ ProfileStart(t)
           \/ LogoutStart(t)
           \/ Leave(t)
           \/ Refresh(t)
    PROVE  OneTabInv'
  <1>1. edits \in Nat /\ reloads \in Nat /\ tab[t].page \in Pages
    BY StoreFacts DEF OneTabInv, SessionTyped, TypeOK, Pages
  <1>2. CASE LoginStart(t)
    BY <1>2, LoginStartKeeps
  <1>3. CASE RequestStart(t, "work") /\ UNCHANGED edits
    BY <1>1, <1>3, RequestStartKeeps
  <1>4. CASE ProfileStart(t)
    <2>1. RequestStart(t, "profile") /\ edits' \in Nat /\ edits' # 0
      BY <1>1, <1>4 DEF ProfileStart
    <2>2. QED
      BY <2>1, RequestStartKeeps
  <1>5. CASE LogoutStart(t)
    BY <1>5, LogoutStartKeeps
  <1>6. CASE Leave(t)
    BY <1>1, <1>6, LoadKeeps DEF Leave, Pages
  <1>7. CASE Refresh(t)
    BY <1>1, <1>7, LoadKeeps DEF Refresh
  <1>8. QED
    BY <1>2, <1>3, <1>4, <1>5, <1>6, <1>7

LEMMA OneTabStep == ASSUME Alone PROVE OneTabInv /\ [Next]_vars => OneTabInv'
  <1> SUFFICES ASSUME OneTabInv, [Next]_vars PROVE OneTabInv'
    OBVIOUS
  <1>1. CASE UNCHANGED vars
    <2>1. UNCHANGED <<auth, isLogout, tab, calls, valid, issued, edits, reloads, failures>>
      BY <1>1 DEF vars
    <2>2. SessionTyped'
      BY <1>1, SessionStep DEF OneTabInv
    <2>3. Once' /\ LoggingOut' /\ \A kind : Out(kind)' <=> Out(kind)
      BY <2>1 DEF Once, LoggingOut, Out, OneTabInv
    <2>4. (auth # Null)' /\ \A t \in Tabs : Holding(t)' /\ Cleared(t)'
      BY <2>1, <2>3 DEF Holding, Inside, Cleared, OneTabInv
    <2>5. QED
      BY <2>2, <2>3, <2>4 DEF OneTabInv
  <1>2. ASSUME NEW c \in calls,
               Serve(c) \/ ServeLogin(c) \/ Receive(c) \/ LogoutLost(c) \/ RequestLost(c)
        PROVE  OneTabInv'
    BY <1>2, ServeKeeps, ServeLoginKeeps, LoginOkKeeps, LoginRejectedKeeps,
       RequestOkKeeps, RequestRejectedKeeps, ProfileOkKeeps, LogoutOkKeeps,
       LogoutRejectedKeeps, LogoutLostKeeps, RequestLostKeeps DEF Receive
  <1>3. ASSUME NEW k \in Tokens, Expire(k) PROVE OneTabInv'
    BY <1>3, ExpireKeeps
  <1>4. CASE Next
    BY <1>2, <1>3, <1>4, OneTabTabStep DEF Next
  <1>5. QED
    BY <1>1, <1>4

LEMMA OneTabAlways == ASSUME Alone PROVE Spec => []OneTabInv
  <1>1. OneTabInv /\ [Next]_vars => OneTabInv'
    BY OneTabStep
  <1>2. QED
    BY <1>1, OneTabInit, PTL DEF Spec

\* With one tab, no profile edits and no lost calls, a tab that shows the login
\* page and is not sent away has no session stored that a reload would bring
\* back, however logins, logouts, expiries and reloads follow each other.
THEOREM AlwaysClearedOut == ASSUME Alone PROVE Spec => []ClearedOut
  <1>1. OneTabInv => ClearedOut
    BY DEF OneTabInv, Cleared, ClearedOut
  <1>2. Spec => []OneTabInv
    BY OneTabAlways
  <1>3. QED
    BY <1>1, <1>2, PTL

\* "Successfully logout": with one tab, the token of the session that was stored
\* when the logout began is not accepted any more, also after lost calls, edits
\* and reloads.
THEOREM LogoutAlwaysEnds == ASSUME Alone PROVE Spec => LogoutEnds
  <1>1. ASSUME OneTabInv, [Next]_vars
        PROVE  [\A c \in calls : LogoutOk(c) => c.saved \notin valid']_vars
    <2>1. SUFFICES ASSUME NEW c \in calls, LogoutOk(c) PROVE c.saved \notin valid'
      OBVIOUS
    <2>2. c.kind = "logout" /\ c.status = "ok" /\ valid' = valid
      BY <2>1 DEF LogoutOk
    <2>3. c \in Call /\ valid \subseteq Tokens
      BY <1>1 DEF OneTabInv, SessionTyped, TypeOK
    <2>4. /\ c.saved \in Tokens => c.token \in {c.saved, Undefined}
          /\ c.token \notin valid /\ c.token \in Tokens
      BY <1>1, <2>2 DEF OneTabInv, LoggingOut, SessionTyped, TypeOK
    <2>5. QED
      BY <2>2, <2>3, <2>4, Marks
  <1>2. Spec => []OneTabInv
    BY OneTabAlways
  <1>3. QED
    BY <1>1, <1>2, PTL DEF Spec, LogoutEnds

\* With one tab, a request that is rejected while the application is shown always
\* sends the tab away.
THEOREM RejectedAlwaysLeaves == ASSUME Alone PROVE Spec => RejectedLeaves
  <1>1. ASSUME OneTabInv, [Next]_vars
        PROVE  [\A c \in calls : RequestRejected(c) /\ tab[c.tab].loggedIn
                    => tab'[c.tab].page = "leaving"]_vars
    <2>1. SUFFICES ASSUME NEW c \in calls, RequestRejected(c), tab[c.tab].loggedIn
                   PROVE  tab'[c.tab].page = "leaving"
      OBVIOUS
    <2>2. PICK s \in Tab :
              /\ Changes(c, s)
              /\ s.page = IF Leaves(c) THEN "leaving" ELSE tab[c.tab].page
      BY <1>1, <2>1, RequestRejectedFacts DEF OneTabInv
    <2>3. tab'[c.tab] = s
      BY <1>1, <2>2, TabOf DEF Changes, OneTabInv
    <2>4. tab[c.tab].page # "leaving" => Leaves(c)
      BY <1>1, <2>1, RejectedInside DEF Inside
    <2>5. QED
      BY <2>2, <2>3, <2>4
  <1>2. Spec => []OneTabInv
    BY OneTabAlways
  <1>3. QED
    BY <1>1, <1>2, PTL DEF Spec, RejectedLeaves
=============================================================================
