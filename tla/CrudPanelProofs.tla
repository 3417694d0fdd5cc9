--------------------------- MODULE CrudPanelProofs ---------------------------
(***************************************************************************)
(* The panel of CrudPanel never acts on a document other than the one it   *)
(* shows, its table comes to show what it was asked for, and a removed     *)
(* document stays removed, for any collection and any number of requests.  *)
(***************************************************************************)
EXTENDS CrudPanel, FiniteSetTheorems, TLAPS

\* The types, without what TypeOK says of the keys that save or delete.
Typed ==
    /\ docs \in [Docs -> Values \union {"absent", "removed"}]
    /\ keys \in [Kinds -> KeyState] /\ current \in Row \union {None}
    /\ box \in Box /\ page \in Page
    /\ calls \subseteq Call /\ next \in Nat
    /\ asked \in Filters /\ raced \in BOOLEAN /\ failures \in Nat

\* A request that saves names what it writes, and its answer has it.
Carries(c) ==
    /\ c.kind \in {"create", "update"} => c.val \in Values
    /\ c.kind = "update" => c.id \in Docs
    /\ c.kind \in {"create", "update"} /\ c.status = "ok" => c.rows # {}

Answered == \A c \in calls : Carries(c)

\* An open modal has not been answered; only mounted forms are shown, and
\* they leave no success behind; a success has an item to show.
Settled ==
    /\ box.modal => page.mounted /\ ~keys["delete"].isSuccess
    /\ box.panel => page.forms
    /\ box.read \/ box.edit => page.forms
    /\ \A kind \in {"create", "update"} :
           keys[kind].isSuccess => current # None /\ ~page.forms
    /\ \A kind \in {"create", "update", "delete"} :
           ~(keys[kind].isLoading /\ keys[kind].isSuccess)

PanelInv == Typed /\ Answered /\ Settled /\ FormsAgree

-----------------------------------------------------------------------------
\* A removed document is not a value, and no controller but update writes one.
LEMMA RemovedStep ==
    ASSUME docs \in [Docs -> Values \union {"absent", "removed"}], [Next]_vars
    PROVE  [\A d \in Docs : docs[d] = "removed" => docs'[d] = "removed"]_docs
  <1> SUFFICES ASSUME docs' # docs, NEW d \in Docs, docs[d] = "removed"
               PROVE  docs'[d] = "removed"
    OBVIOUS
  <1>1. Server
    <2>1. ASSUME User PROVE FALSE
      BY <2>1 DEF User, Mount, Leave, Refresh, ReadRow, EditRow, DeleteRow,
         AddNew, ClosePanel, ToggleBox, EditItem, RemoveItem, CancelEdit,
         SubmitUpdate, SubmitCreate, Confirm, CancelDelete, Rest
    <2>2. ASSUME Receive PROVE FALSE
      BY <2>2 DEF Receive, Saved, Deleted, Listed, Refused, Rest
    <2>3. QED
      BY <2>1, <2>2 DEF Next, vars
  <1>2. PICK c \in calls : ServeCreate(c) \/ ServeUpdate(c) \/ ServeDelete(c)
    BY <1>1 DEF Server, ListFind, ListCount, Lose
  <1>3. CASE ServeCreate(c)
    BY <1>3 DEF ServeCreate
  <1>4. CASE ServeUpdate(c)
    <2>1. "removed" \notin Values
      BY CrudAssumption
    <2>2. QED
      BY <1>4, <2>1 DEF ServeUpdate
  <1>5. CASE ServeDelete(c)
    BY <1>5 DEF ServeDelete
  <1>6. QED
    BY <1>2, <1>3, <1>4, <1>5
-----------------------------------------------------------------------------
(* Requests *)

LEMMA NewCallTyped ==
    ASSUME NEW n \in Nat, NEW kind \in Kinds, NEW id \in Docs \union {None},
           NEW val \in Values \union {None}, NEW f \in Filters
    PROVE  /\ NewCall(n, kind, id, val, f) \in Call
           /\ NewCall(n, kind, id, val, f).status = "sent"
  BY DEF NewCall, Call

LEMMA ListsTyped ==
    ASSUME next \in Nat, NEW m \in 0 .. 2
    PROVE  /\ Lists(m) \subseteq Call /\ IsFiniteSet(Lists(m))
           /\ \A c \in Lists(m) : Carries(c)
  <1> DEFINE L(i) == NewCall(next + i, "list", None, None, Docs)
  <1>1. \A i \in 0 .. m - 1 : L(i) \in Call /\ Carries(L(i))
    <2> TAKE i \in 0 .. m - 1
    <2>1. next + i \in Nat
      OBVIOUS
    <2>2. L(i) \in Call
      BY <2>1, NewCallTyped, CrudAssumption DEF Kinds
    <2>3. L(i).kind = "list"
      BY DEF NewCall
    <2>4. QED
      BY <2>2, <2>3 DEF Carries
  <1>2. Lists(m) = {L(i) : i \in 0 .. m - 1}
    BY DEF Lists
  <1> HIDE DEF L
  <1>3. IsFiniteSet(Lists(m))
    <2>1. CASE m = 0
      <3>1. Lists(m) = {}
        BY <1>2, <2>1
      <3>2. QED
        BY <3>1, FS_EmptySet
    <2>2. CASE m = 1
      <3>1. Lists(m) = {L(0)}
        BY <1>2, <2>2
      <3>2. QED
        BY <3>1, FS_Singleton
    <2>3. CASE m = 2
      <3>1. 0 .. m - 1 = {0, 1}
        BY <2>3
      <3>2. Lists(m) = {L(0)} \union {L(1)}
        BY <1>2, <3>1, Zenon
      <3>3. IsFiniteSet({L(0)}) /\ IsFiniteSet({L(1)})
        BY FS_Singleton
      <3>4. QED
        BY <3>2, <3>3, FS_Union, Zenon
    <2>4. QED
      BY <2>1, <2>2, <2>3
  <1>4. QED
    BY <1>1, <1>2, <1>3

\* What a handler sends joins what is left of the requests in flight.
LEMMA SendTyped ==
    ASSUME Typed, Answered, NEW sent \in SUBSET Call, IsFiniteSet(sent),
           \A c \in sent : Carries(c),
           NEW others \in SUBSET calls, Send(sent, others)
    PROVE  /\ calls' \subseteq Call /\ next' \in Nat
           /\ asked' \in Filters /\ raced' \in BOOLEAN
           /\ Answered'
  <1>1. calls' = others \union sent
    BY DEF Send
  <1>2. calls' \subseteq Call
    BY <1>1 DEF Typed
  <1>3. next' \in Nat
    BY FS_CardinalityType DEF Send, Typed
  <1>4. asked' \in Filters
    BY DEF Send, Typed, Call
  <1>5. raced' \in BOOLEAN
    BY DEF Send
  <1>6. Answered'
    BY <1>1 DEF Answered
  <1>7. QED
    BY <1>2, <1>3, <1>4, <1>5, <1>6

LEMMA StartTyped ==
    ASSUME Typed, Answered, NEW kind \in Kinds, NEW id \in Docs \union {None},
           NEW val \in Values \union {None}, NEW f \in Filters,
           kind \in {"create", "update"} => val \in Values,
           kind = "update" => id \in Docs,
           Start(kind, id, val, f)
    PROVE  /\ calls' \subseteq Call /\ next' \in Nat
           /\ asked' \in Filters /\ raced' \in BOOLEAN
           /\ Answered'
  <1> DEFINE c == NewCall(next, kind, id, val, f)
  <1>1. c \in Call
    BY NewCallTyped DEF Typed
  <1>6. c.kind = kind /\ c.id = id /\ c.val = val /\ c.status = "sent"
    BY DEF NewCall
  <1>5. Carries(c)
    BY <1>6 DEF Carries
  <1>2. Send({c}, calls)
    BY DEF Start
  <1> HIDE DEF c
  <1>3. IsFiniteSet({c})
    BY FS_Singleton
  <1>4. QED
    BY <1>1, <1>2, <1>3, <1>5, SendTyped

-----------------------------------------------------------------------------
(* The slice *)

LEMMA KeysTyped ==
    ASSUME NEW k \in [Kinds -> KeyState], NEW kind \in Kinds
    PROVE  /\ Loading(k, kind) \in [Kinds -> KeyState]
           /\ Failed(k, kind) \in [Kinds -> KeyState]
           /\ Reset(k, kind) \in [Kinds -> KeyState]
  <1>1. InitialKey \in KeyState
    BY DEF InitialKey, KeyState
  <1>2. k[kind] \in KeyState
    OBVIOUS
  <1>3. /\ [k[kind] EXCEPT !.isLoading = TRUE] \in KeyState
        /\ [k[kind] EXCEPT !.isLoading = FALSE, !.isSuccess = FALSE] \in KeyState
    BY <1>2 DEF KeyState
  <1>4. Loading(k, kind) \in [Kinds -> KeyState]
    BY <1>3 DEF Loading
  <1>5. Failed(k, kind) \in [Kinds -> KeyState]
    BY <1>3 DEF Failed
  <1>6. QED
    BY <1>1, <1>4, <1>5 DEF Reset

\* What an operation on one key leaves of the keys.
LEMMA KeysValue ==
    ASSUME NEW k \in [Kinds -> KeyState], NEW kind \in Kinds, NEW x \in Kinds
    PROVE  /\ Loading(k, kind)[x].isSuccess = k[x].isSuccess
           /\ Loading(k, kind)[x].current = k[x].current
           /\ x # kind => Loading(k, kind)[x] = k[x]
           /\ Failed(k, kind)[x].current = k[x].current
           /\ ~Failed(k, kind)[kind].isSuccess
           /\ x # kind => Failed(k, kind)[x] = k[x]
           /\ Reset(k, kind)[x] = IF x = kind THEN InitialKey ELSE k[x]
  BY DEF Loading, Failed, Reset, KeyState

LEMMA SucceededValue ==
    ASSUME NEW k \in [Kinds -> KeyState], NEW kind \in Kinds,
           NEW rows \in SUBSET Row
    PROVE  /\ Succeeded(k, kind, rows) \in [Kinds -> KeyState]
           /\ \A x \in Kinds : x # kind => Succeeded(k, kind, rows)[x] = k[x]
           /\ Succeeded(k, kind, rows)[kind].isSuccess
           /\ ~Succeeded(k, kind, rows)[kind].isLoading
  <1> DEFINE q == [InitialKey EXCEPT !.result = rows, !.isSuccess = TRUE]
  <1>1. q \in KeyState /\ q.isSuccess /\ ~q.isLoading
    BY DEF InitialKey, KeyState
  <1>2. Succeeded(k, kind, rows) = [k EXCEPT ![kind] = q]
    BY DEF Succeeded
  <1> HIDE DEF q
  <1>3. QED
    BY <1>1, <1>2

LEMMA ActingValue ==
    ASSUME NEW k \in [Kinds -> KeyState], NEW kind \in Kinds,
           NEW row \in Row \union {None}
    PROVE  /\ ActingOn(k, kind, row) \in [Kinds -> KeyState]
           /\ \A x \in Kinds : x # kind => ActingOn(k, kind, row)[x] = k[x]
           /\ ActingOn(k, kind, row)[kind].current = row
           /\ ~ActingOn(k, kind, row)[kind].isSuccess
           /\ ~ActingOn(k, kind, row)[kind].isLoading
  <1> DEFINE q == [InitialKey EXCEPT !.current = row]
  <1>1. /\ q \in KeyState /\ q.current = row
        /\ ~q.isSuccess /\ ~q.isLoading
    BY DEF InitialKey, KeyState
  <1>2. ActingOn(k, kind, row) = [k EXCEPT ![kind] = q]
    BY DEF ActingOn
  <1> HIDE DEF q
  <1>3. QED
    BY <1>1, <1>2

LEMMA InitialKeyValue ==
    /\ ~InitialKey.isSuccess /\ ~InitialKey.isLoading /\ InitialKey.current = None
    /\ InitialKey \in KeyState
  BY DEF InitialKey, KeyState

-----------------------------------------------------------------------------
(* The user *)

\* A handler that changes only what is open.
LEMMA BoxStep ==
    ASSUME PanelInv, NothingSent, Rest, UNCHANGED <<keys, current, page>>,
           box' \in Box, Settled', FormsAgree'
    PROVE  PanelInv'
  BY DEF PanelInv, Typed, Answered, NothingSent, Rest

\* Of the two forms none, one or both were late.
LEMMA FewStale ==
    ASSUME NEW stale \in SUBSET {"create", "update"}
    PROVE  /\ IsFiniteSet(stale) /\ Cardinality(stale) \in 0 .. 2
           /\ Cardinality(stale) = 0 <=> stale = {}
  <1>2. IsFiniteSet({"create", "update"}) /\ Cardinality({"create", "update"}) <= 2
    <2>1. IsFiniteSet({"create"}) /\ Cardinality({"create"}) = 1
      BY FS_Singleton
    <2>2. /\ {"create", "update"} = {"create"} \union {"update"}
          /\ "update" \notin {"create"}
      OBVIOUS
    <2> DEFINE S == {"create"}
    <2>3. IsFiniteSet(S) /\ Cardinality(S) = 1 /\ "update" \notin S
      BY <2>1, <2>2
    <2>4. {"create", "update"} = S \union {"update"}
      BY <2>2
    <2> HIDE DEF S
    <2>5. /\ IsFiniteSet(S \union {"update"})
          /\ Cardinality(S \union {"update"}) = Cardinality(S) + 1
      BY <2>3, FS_AddElement
    <2>6. QED
      BY <2>3, <2>4, <2>5, SMTT(30)
  <1>3. IsFiniteSet(stale) /\ Cardinality(stale) <= Cardinality({"create", "update"})
    BY <1>2, FS_Subset
  <1>4. Cardinality(stale) \in Nat /\ Cardinality({"create", "update"}) \in Nat
    BY <1>2, <1>3, FS_CardinalityType
  <1>5. Cardinality(stale) = 0 <=> stale = {}
    BY <1>3, FS_EmptySet
  <1>6. QED
    BY <1>2, <1>3, <1>4, <1>5

\* The drawer opens.
LEMMA OpenPanelStep ==
    ASSUME PanelInv, NEW k \in [Kinds -> KeyState], NEW b \in Box,
           NEW form \in Docs \union {None},
           OpenPanel(k, b, form), Rest, page.mounted,
           current' \in Row \union {None},
           k["delete"].isSuccess = keys["delete"].isSuccess,
           \A kind \in {"create", "update"} :
               k[kind].isSuccess => keys[kind].isSuccess /\ current' # None,
           \A kind \in {"create", "update", "delete"} :
               ~(k[kind].isLoading /\ k[kind].isSuccess),
           b.modal => box.modal /\ k["delete"].current # None,
           b.read \/ b.edit => current' # None,
           b.edit => k["update"].current = current' /\ form = current'[1]
    PROVE  PanelInv'
  <1> DEFINE stale == {kind \in {"create", "update"} :
                           ~page.forms /\ k[kind].isSuccess}
             kept == [kind \in Kinds |-> IF kind \in stale THEN InitialKey
                                        ELSE k[kind]]
  <1>1. /\ page' = [page EXCEPT !.forms = TRUE, !.form = form]
        /\ keys' = IF stale = {} THEN kept ELSE Loading(kept, "list")
        /\ box' = IF stale = {} THEN b ELSE PanelOpened(ReadOpened(b))
        /\ Send(Lists(Cardinality(stale)), calls)
    BY DEF OpenPanel
  <1>2. Cardinality(stale) \in 0 .. 2
    BY FewStale
  <1>3. /\ calls' \subseteq Call /\ next' \in Nat
        /\ asked' \in Filters /\ raced' \in BOOLEAN
        /\ Answered'
    <2> DEFINE sent == Lists(Cardinality(stale))
    <2>1. /\ sent \in SUBSET Call /\ IsFiniteSet(sent)
          /\ \A c \in sent : Carries(c)
      BY <1>2, ListsTyped DEF PanelInv, Typed
    <2>2. Send(sent, calls)
      BY <1>1
    <2> HIDE DEF sent
    <2>3. QED
      BY <2>1, <2>2, SendTyped DEF PanelInv
  <1>4. kept \in [Kinds -> KeyState]
    BY InitialKeyValue
  <1>5. keys' \in [Kinds -> KeyState]
    BY <1>1, <1>4, KeysTyped DEF Kinds
  <1>6. \A kind \in {"create", "update"} :
            /\ ~keys'[kind].isSuccess
            /\ kind \notin stale => keys'[kind] = k[kind]
    <2> TAKE kind \in {"create", "update"}
    <2>1. kind \in Kinds /\ "list" \in Kinds /\ kind # "list"
      BY DEF Kinds
    <2>2. keys'[kind] = kept[kind]
      <3> HIDE DEF kept, stale
      <3>1. Loading(kept, "list")[kind] = kept[kind]
        BY <1>4, <2>1, KeysValue
      <3>2. QED
        BY <1>1, <3>1
    <2>3. page.forms => ~k[kind].isSuccess
      BY DEF PanelInv, Settled
    <2>4. QED
      BY <2>1, <2>2, <2>3, InitialKeyValue
  <1>7. keys'["delete"] = k["delete"]
    <2>1. "delete" \in Kinds /\ "list" \in Kinds /\ "delete" \notin stale
      BY DEF Kinds
    <2>2. kept["delete"] = k["delete"]
      BY <2>1
    <2> HIDE DEF kept, stale
    <2>3. QED
      BY <1>1, <1>4, <2>1, <2>2, KeysValue
  <1>8. /\ box' \in Box
        /\ box'.modal = b.modal
        /\ box'.edit => b.edit /\ stale = {}
        /\ box'.read => b.read \/ stale # {}
    <2> HIDE DEF stale, kept
    <2>1. QED
      BY <1>1 DEF PanelOpened, ReadOpened, Box
  <1>9. /\ page' \in Page /\ page'.forms /\ page'.mounted /\ page'.form = form
    BY <1>1 DEF PanelInv, Typed, Page
  <1>10. stale # {} => current' # None
    OBVIOUS
  <1>11. \A kind \in {"create", "update", "delete"} :
             ~(keys'[kind].isLoading /\ keys'[kind].isSuccess)
    BY <1>6, <1>7
  <1>12. Typed'
    BY <1>3, <1>5, <1>8, <1>9 DEF PanelInv, Typed, Rest
  <1> HIDE DEF stale, kept
  <1>13. Settled'
    BY <1>6, <1>7, <1>8, <1>9, <1>11 DEF PanelInv, Settled
  <1>14. FormsAgree'
    BY <1>6, <1>7, <1>8, <1>9, <1>10 DEF FormsAgree, PanelInv, Settled
  <1>15. QED
    BY <1>3, <1>12, <1>13, <1>14 DEF PanelInv

\* A handler that starts one request and marks its key as loading.
LEMMA StartStep ==
    ASSUME PanelInv, NEW kind \in Kinds, NEW k \in [Kinds -> KeyState],
           NEW id \in Docs \union {None},
           NEW val \in Values \union {None}, NEW f \in Filters,
           kind \in {"create", "update"} => val \in Values,
           kind = "update" => id \in Docs,
           Start(kind, id, val, f), Rest, UNCHANGED <<current, page>>,
           keys' = Loading(k, kind),
           \A x \in Kinds \ {kind} : k[x] = keys[x],
           k[kind].isSuccess => keys[kind].isSuccess,
           kind # "list" => ~k[kind].isSuccess,
           kind # "delete" => k[kind].current = keys[kind].current,
           box' \in Box, box'.panel => box.panel,
           box'.modal => box.modal /\ kind # "delete",
           box'.read => box.read, box'.edit => box.edit
    PROVE  PanelInv'
  <1>1. /\ calls' \subseteq Call /\ next' \in Nat
        /\ asked' \in Filters /\ raced' \in BOOLEAN
        /\ Answered'
    BY StartTyped DEF PanelInv
  <1>2. keys' \in [Kinds -> KeyState]
    BY KeysTyped
  <1>3. Typed'
    BY <1>1, <1>2 DEF PanelInv, Typed, Rest
  <1>4. /\ \A x \in Kinds \ {kind} : keys'[x] = keys[x]
        /\ keys'[kind].isSuccess => keys[kind].isSuccess
        /\ kind # "list" => ~keys'[kind].isSuccess
        /\ kind # "delete" => keys'[kind].current = keys[kind].current
    BY KeysValue
  <1>5. {"create", "update", "delete"} \subseteq Kinds /\ "list" \in Kinds
    BY DEF Kinds
  <1>6. Settled'
    <2>1. \A x \in {"create", "update"} :
              keys'[x].isSuccess => current # None /\ ~page.forms
      BY <1>4, <1>5 DEF PanelInv, Settled
    <2>2. \A x \in {"create", "update", "delete"} :
              ~(keys'[x].isLoading /\ keys'[x].isSuccess)
      BY <1>4, <1>5 DEF PanelInv, Settled
    <2>3. keys'["delete"].isSuccess => keys["delete"].isSuccess
      BY <1>4, <1>5
    <2>4. QED
      BY <2>1, <2>2, <2>3 DEF PanelInv, Settled
  <1>7. FormsAgree'
    <2>1. keys'["update"].current = keys["update"].current
      BY <1>4, <1>5
    <2>2. kind # "delete" => keys'["delete"].current = keys["delete"].current
      BY <1>4, <1>5
    <2>3. QED
      BY <2>1, <2>2 DEF PanelInv, FormsAgree
  <1>8. QED
    BY <1>1, <1>3, <1>6, <1>7 DEF PanelInv

\* A handler that opens the modal on a document.
LEMMA ModalStep ==
    ASSUME PanelInv, NEW row \in Row, NothingSent, Rest,
           UNCHANGED <<current, page>>, page.mounted,
           keys' = ActingOn(keys, "delete", row),
           box' = [box EXCEPT !.modal = TRUE]
    PROVE  PanelInv'
  <1>1. {"create", "update", "delete"} \subseteq Kinds
    BY DEF Kinds
  <1>2. keys \in [Kinds -> KeyState]
    BY DEF PanelInv, Typed
  <1>3. keys' \in [Kinds -> KeyState]
    BY <1>1, <1>2, ActingValue
  <1>4. /\ keys'["delete"].current = row
        /\ ~keys'["delete"].isSuccess /\ ~keys'["delete"].isLoading
        /\ keys'["create"] = keys["create"] /\ keys'["update"] = keys["update"]
    <2>1. \A x \in Kinds : x # "delete" => keys'[x] = keys[x]
      BY <1>1, <1>2, ActingValue
    <2>2. /\ keys'["delete"].current = row
          /\ ~keys'["delete"].isSuccess /\ ~keys'["delete"].isLoading
      BY <1>1, <1>2, ActingValue
    <2>3. QED
      BY <1>1, <2>1, <2>2
  <1>5. /\ box' \in Box /\ box'.panel = box.panel
        /\ box'.read = box.read /\ box'.edit = box.edit
    BY DEF PanelInv, Typed, Box
  <1>6. row # None
    BY CrudAssumption DEF Row
  <1>7. Typed' /\ Answered'
    BY <1>3, <1>5 DEF PanelInv, Typed, Answered, NothingSent, Rest
  <1>8. Settled'
    BY <1>4, <1>5 DEF PanelInv, Settled
  <1>9. FormsAgree'
    BY <1>4, <1>5, <1>6 DEF PanelInv, FormsAgree
  <1>10. QED
    BY <1>7, <1>8, <1>9 DEF PanelInv

LEMMA InitialPanel ==
    /\ InitialBox \in Box /\ ~InitialBox.modal /\ ~InitialBox.panel
    /\ ~InitialBox.read /\ ~InitialBox.edit
    /\ InitialPage \in Page /\ ~InitialPage.mounted /\ ~InitialPage.forms
    /\ [InitialPage EXCEPT !.mounted = TRUE] \in Page
  BY DEF InitialBox, InitialPage, Box, Page

LEMMA MountStep == ASSUME PanelInv, Mount PROVE PanelInv'
  <1> DEFINE k == [kind \in Kinds |-> InitialKey]
             m == IF keys["delete"].isSuccess THEN 2 ELSE 1
  <1>1. m \in 0 .. 2
    OBVIOUS
  <1>2. /\ calls' = calls \union Lists(m) /\ next' = next + m
        /\ keys' = Loading(k, "list")
    BY DEF Mount
  <1>3. /\ k \in [Kinds -> KeyState]
        /\ \A x \in {"create", "update", "delete"} : k[x] = InitialKey
        /\ {"create", "update", "delete"} \subseteq Kinds /\ "list" \in Kinds
    BY InitialKeyValue DEF Kinds
  <1>4. calls' \subseteq Call /\ next' \in Nat /\ Answered'
    <2>1. /\ Lists(m) \subseteq Call
          /\ \A c \in Lists(m) : Carries(c)
      BY <1>1, ListsTyped DEF PanelInv, Typed
    <2>2. next' \in Nat
      BY <1>1, <1>2 DEF PanelInv, Typed
    <2> HIDE DEF m
    <2>3. QED
      BY <1>2, <2>1, <2>2 DEF PanelInv, Typed, Answered
  <1> HIDE DEF k, m
  <1>5. /\ keys' \in [Kinds -> KeyState]
        /\ \A x \in {"create", "update", "delete"} : keys'[x] = InitialKey
    <2>1. keys' \in [Kinds -> KeyState]
      BY <1>2, <1>3, KeysTyped
    <2>2. ASSUME NEW x \in {"create", "update", "delete"}
          PROVE  keys'[x] = InitialKey
      <3>1. x \in Kinds /\ x # "list"
        BY <1>3
      <3>2. Loading(k, "list")[x] = k[x]
        BY <1>3, <3>1, KeysValue
      <3>3. QED
        BY <1>2, <1>3, <3>2
    <2>3. QED
      BY <2>1, <2>2
  <1>6. Typed'
    BY <1>4, <1>5, InitialPanel, CrudAssumption
    DEF Mount, PanelInv, Typed, Rest
  <1>7. Settled'
    BY <1>5, InitialPanel, InitialKeyValue DEF Mount, Settled
  <1>8. FormsAgree'
    BY InitialPanel DEF Mount, FormsAgree
  <1>9. QED
    BY <1>4, <1>6, <1>7, <1>8 DEF PanelInv

LEMMA LeaveStep == ASSUME PanelInv, Leave PROVE PanelInv'
  <1>1. Typed' /\ Answered'
    BY InitialPanel DEF Leave, PanelInv, Typed, Answered, NothingSent, Rest
  <1>2. Settled'
    BY InitialPanel DEF Leave, PanelInv, Settled
  <1>3. FormsAgree'
    BY InitialPanel DEF Leave, FormsAgree
  <1>4. QED
    BY <1>1, <1>2, <1>3 DEF PanelInv

\* The rows of the table and the item of the panel.
LEMMA RowStep ==
    ASSUME PanelInv, NEW r \in Row, ReadRow(r) \/ EditRow(r) \/ DeleteRow(r)
    PROVE  PanelInv'
  <1> DEFINE b == PanelOpened(ReadOpened(box))
             e == PanelOpened(EditOpened(box))
             k == ActingOn(keys, "update", r)
  <1>1. page.mounted /\ ~box.modal
    BY DEF ReadRow, EditRow, DeleteRow, TableRows, TableUsable
  <1>2. r # None /\ r[1] \in Docs
    BY CrudAssumption DEF Row
  <1>3. /\ b \in Box /\ b.modal = box.modal /\ ~b.edit
        /\ e \in Box /\ e.modal = box.modal
    BY DEF PanelInv, Typed, Box, PanelOpened, ReadOpened, EditOpened
  <1>4. keys \in [Kinds -> KeyState] /\ page.form \in Docs \union {None}
    BY DEF PanelInv, Typed, Page
  <1>5. {"create", "update", "delete"} \subseteq Kinds
    BY DEF Kinds
  <1>6. /\ k \in [Kinds -> KeyState]
        /\ k["create"] = keys["create"] /\ k["delete"] = keys["delete"]
        /\ k["update"].current = r
        /\ ~k["update"].isSuccess /\ ~k["update"].isLoading
    BY <1>4, <1>5, ActingValue
  <1>7. CASE ReadRow(r)
    <2>1. current' = r /\ OpenPanel(keys, b, page.form) /\ Rest
      BY <1>7 DEF ReadRow
    <2> HIDE DEF b
    <2>2. QED
      BY <1>1, <1>2, <1>3, <1>4, <2>1, OpenPanelStep DEF PanelInv, Settled
  <1>8. CASE EditRow(r)
    <2>1. current' = r /\ OpenPanel(k, e, r[1]) /\ Rest
      BY <1>2, <1>8 DEF EditRow, FormOf
    <2> HIDE DEF e, k
    <2>2. QED
      BY <1>1, <1>2, <1>3, <1>6, <2>1, OpenPanelStep DEF PanelInv, Settled
  <1>9. CASE DeleteRow(r)
    BY <1>1, <1>9, ModalStep DEF DeleteRow
  <1>10. QED
    BY <1>7, <1>8, <1>9

LEMMA AddNewStep == ASSUME PanelInv, AddNew PROVE PanelInv'
  <1> DEFINE b == [box EXCEPT !.panel = TRUE, !.top = FALSE]
  <1>1. /\ OpenPanel(keys, b, page.form) /\ Rest /\ UNCHANGED current
        /\ page.mounted /\ ~box.modal
    BY DEF AddNew, TableUsable
  <1>2. /\ b \in Box /\ b.modal = box.modal
        /\ b.read = box.read /\ b.edit = box.edit
    BY DEF PanelInv, Typed, Box
  <1>3. /\ keys \in [Kinds -> KeyState] /\ page.form \in Docs \union {None}
        /\ current \in Row \union {None}
    BY DEF PanelInv, Typed, Page
  <1> HIDE DEF b
  <1>4. /\ b.read \/ b.edit => current # None
        /\ b.edit => keys["update"].current = current /\ page.form = current[1]
    BY <1>2 DEF PanelInv, FormsAgree
  <1>5. QED
    BY <1>1, <1>2, <1>3, <1>4, OpenPanelStep DEF PanelInv, Settled

\* Handlers that only open and close.
LEMMA OpenCloseStep ==
    ASSUME PanelInv, ClosePanel \/ ToggleBox \/ CancelEdit \/ CancelDelete
    PROVE  PanelInv'
  <1>1. /\ UNCHANGED <<keys, current, page>> /\ NothingSent /\ Rest
        /\ page.mounted
    BY DEF ClosePanel, ToggleBox, CancelEdit, CancelDelete, PanelUsable, ItemUsable
  <1>2. /\ box' \in Box
        /\ box'.modal => box.modal
        /\ box'.panel => box.panel
        /\ box'.edit => box.edit
        /\ box'.read => box.read \/ box.edit
    BY DEF ClosePanel, ToggleBox, CancelEdit, CancelDelete, ReadOpened,
       PanelInv, Typed, Box
  <1>3. Settled'
    BY <1>1, <1>2 DEF PanelInv, Settled
  <1>4. FormsAgree'
    BY <1>1, <1>2 DEF PanelInv, FormsAgree
  <1>5. QED
    BY <1>1, <1>2, <1>3, <1>4, BoxStep

LEMMA EditItemStep == ASSUME PanelInv, EditItem PROVE PanelInv'
  <1>1. current \in Row /\ current # None
    BY CrudAssumption DEF EditItem, ItemUsable, PanelInv, FormsAgree, Typed, Row
  <1>2. keys \in [Kinds -> KeyState] /\ keys' = ActingOn(keys, "update", current)
    BY DEF EditItem, PanelInv, Typed
  <1>3. {"create", "update", "delete"} \subseteq Kinds
    BY DEF Kinds
  <1>4. /\ keys' \in [Kinds -> KeyState]
        /\ keys'["create"] = keys["create"] /\ keys'["delete"] = keys["delete"]
        /\ keys'["update"].current = current
        /\ ~keys'["update"].isSuccess /\ ~keys'["update"].isLoading
    BY <1>1, <1>2, <1>3, ActingValue
  <1>5. page' = [page EXCEPT !.form = current[1]]
    BY <1>1 DEF EditItem, FormOf
  <1>6. /\ page' \in Page /\ page'.form = current[1]
        /\ page'.forms = page.forms /\ page'.mounted = page.mounted
    BY <1>1, <1>5 DEF PanelInv, Typed, Page, Row
  <1>7. /\ box' \in Box /\ box'.modal = box.modal /\ box'.panel = box.panel
        /\ box'.edit /\ ~box'.read
    BY DEF EditItem, EditOpened, PanelInv, Typed, Box
  <1>8. /\ UNCHANGED current /\ NothingSent /\ Rest
        /\ box.panel /\ ~box.modal
    BY DEF EditItem, ItemUsable, PanelUsable
  <1>9. Typed' /\ Answered'
    BY <1>4, <1>6, <1>7, <1>8 DEF PanelInv, Typed, Answered, NothingSent, Rest
  <1>10. Settled'
    BY <1>4, <1>6, <1>7, <1>8 DEF PanelInv, Settled
  <1>11. FormsAgree'
    BY <1>1, <1>4, <1>6, <1>7, <1>8 DEF FormsAgree
  <1>12. QED
    BY <1>9, <1>10, <1>11 DEF PanelInv

LEMMA RemoveItemStep == ASSUME PanelInv, RemoveItem PROVE PanelInv'
  <1>1. current \in Row
    BY DEF RemoveItem, ItemUsable, PanelInv, FormsAgree, Typed
  <1>2. QED
    BY <1>1, ModalStep DEF RemoveItem, ItemUsable, PanelUsable

\* Handlers that send a request.
LEMMA RefreshStep ==
    ASSUME PanelInv, NEW f \in Filters, Refresh(f) PROVE PanelInv'
  <1>1. /\ keys \in [Kinds -> KeyState] /\ box \in Box /\ "list" \in Kinds
        /\ None \in Docs \union {None} /\ None \in Values \union {None}
    BY DEF PanelInv, Typed, Kinds
  <1>2. /\ keys' = Loading(keys, "list") /\ Start("list", None, None, f)
        /\ Rest /\ UNCHANGED <<current, page>> /\ UNCHANGED box
        /\ ~box.modal
    BY DEF Refresh, TableUsable
  <1>3. QED
    BY <1>1, <1>2, StartStep

LEMMA SubmitStep ==
    ASSUME PanelInv, NEW v \in Values, SubmitUpdate(v) \/ SubmitCreate(v)
    PROVE  PanelInv'
  <1>1. /\ keys \in [Kinds -> KeyState] /\ box \in Box
        /\ "update" \in Kinds /\ "create" \in Kinds
        /\ None \in Docs \union {None} /\ v \in Values \union {None}
        /\ Docs \in Filters
    BY CrudAssumption DEF PanelInv, Typed, Kinds
  <1>2. /\ Rest /\ UNCHANGED <<current, page>> /\ UNCHANGED box
        /\ ~box.modal /\ page.forms
    BY DEF SubmitUpdate, SubmitCreate, PanelUsable, ItemUsable, PanelInv, Settled
  <1>3. ~keys["update"].isSuccess /\ ~keys["create"].isSuccess
    BY <1>2 DEF PanelInv, Settled
  <1>4. CASE SubmitUpdate(v)
    <2> DEFINE d == keys["update"].current[1]
    <2>1. keys["update"].current \in Row
      BY <1>1, <1>4 DEF SubmitUpdate, KeyState
    <2>2. d \in Docs
      BY <2>1 DEF Row
    <2>3. keys' = Loading(keys, "update") /\ Start("update", d, v, Docs)
      BY <1>4 DEF SubmitUpdate
    <2> HIDE DEF d
    <2>4. QED
      BY <1>1, <1>2, <1>3, <2>2, <2>3, StartStep
  <1>5. CASE SubmitCreate(v)
    <2>1. keys' = Loading(keys, "create") /\ Start("create", None, v, Docs)
      BY <1>5 DEF SubmitCreate
    <2>2. QED
      BY <1>1, <1>2, <1>3, <2>1, StartStep
  <1>6. QED
    BY <1>4, <1>5

LEMMA ConfirmStep == ASSUME PanelInv, Confirm PROVE PanelInv'
  <1> DEFINE d == keys["delete"].current[1]
             k == Reset(keys, "delete")
  <1>1. /\ keys \in [Kinds -> KeyState] /\ "delete" \in Kinds
        /\ None \in Values \union {None} /\ Docs \in Filters
    BY CrudAssumption DEF PanelInv, Typed, Kinds
  <1>2. d \in Docs \union {None}
    BY <1>1 DEF Confirm, KeyState, Row
  <1>3. k \in [Kinds -> KeyState] /\ ~k["delete"].isSuccess
    BY <1>1, KeysTyped, KeysValue, InitialKeyValue
  <1>4. \A x \in Kinds \ {"delete"} : k[x] = keys[x]
    BY <1>1, KeysValue
  <1>5. /\ keys' = Loading(k, "delete") /\ Start("delete", d, None, Docs)
        /\ Rest /\ UNCHANGED <<current, page>>
    BY DEF Confirm, Deleting
  <1>6. /\ box' \in Box /\ ~box'.modal /\ ~box'.read /\ ~box'.panel
        /\ box'.edit => box.edit
    BY DEF Confirm, PanelInv, Typed, Box
  <1> HIDE DEF d, k
  <1>7. QED
    BY <1>1, <1>2, <1>3, <1>4, <1>5, <1>6, StartStep

-----------------------------------------------------------------------------
(* The controllers *)

\* An answer stays a request, and carries what it saved.
LEMMA ReplyStep ==
    ASSUME PanelInv, NEW c \in calls, NEW d \in Call, Carries(d),
           calls' = (calls \ {c}) \union {d},
           UNCHANGED <<keys, current, box, page, next, asked, raced>>,
           docs' \in [Docs -> Values \union {"absent", "removed"}],
           failures' \in Nat
    PROVE  PanelInv'
  <1>1. Typed'
    BY DEF PanelInv, Typed
  <1>2. Answered'
    BY DEF PanelInv, Answered
  <1>3. Settled' /\ FormsAgree'
    BY DEF PanelInv, Settled, FormsAgree
  <1>4. QED
    BY <1>1, <1>2, <1>3 DEF PanelInv

LEMMA AnswerTyped ==
    ASSUME NEW c \in Call, Carries(c), NEW rows \in SUBSET Row,
           NEW status \in {"found", "ok", "failed"},
           c.kind \in {"create", "update"} /\ status = "ok" => rows # {}
    PROVE  LET d == [c EXCEPT !.status = status, !.rows = rows]
           IN  d \in Call /\ Carries(d)
  <1> DEFINE d == [c EXCEPT !.status = status, !.rows = rows]
  <1>1. d \in Call
    BY DEF Call
  <1>2. /\ d.kind = c.kind /\ d.val = c.val /\ d.id = c.id
        /\ d.rows = rows /\ d.status = status
    BY DEF Call
  <1>3. Carries(d)
    <2> HIDE DEF d
    <2>1. QED
      BY <1>2 DEF Carries
  <1>4. QED
    BY <1>1, <1>3

LEMMA ServerStep == ASSUME PanelInv, Server PROVE PanelInv'
  <1>1. PICK c \in calls :
            \/ ServeCreate(c) \/ ServeUpdate(c) \/ ServeDelete(c)
            \/ ListFind(c) \/ ListCount(c) \/ Lose(c)
    BY DEF Server
  <1>2. c \in Call /\ Carries(c)
    BY DEF PanelInv, Typed, Answered
  <1>3. /\ docs \in [Docs -> Values \union {"absent", "removed"}]
        /\ failures \in Nat
    BY DEF PanelInv, Typed
  <1>4. ASSUME NEW status \in {"found", "ok", "failed"},
               NEW rows \in SUBSET Row,
               Reply(c, status, rows),
               c.kind \in {"create", "update"} /\ status = "ok" => rows # {},
               docs' \in [Docs -> Values \union {"absent", "removed"}]
        PROVE  PanelInv'
    <2> DEFINE d == [c EXCEPT !.status = status, !.rows = rows]
    <2>1. /\ calls' = (calls \ {c}) \union {d}
          /\ UNCHANGED <<keys, current, box, page, next, asked, raced>>
          /\ failures' \in Nat
      BY <1>3, <1>4 DEF Reply
    <2>2. d \in Call /\ Carries(d)
      BY <1>2, <1>4, AnswerTyped
    <2> HIDE DEF d
    <2>3. QED
      BY <1>4, <2>1, <2>2, ReplyStep
  <1>5. CASE ServeCreate(c)
    <2>1. PICK d \in Docs : /\ docs' = [docs EXCEPT ![d] = c.val]
                            /\ Reply(c, "ok", {<<d, c.val>>})
      BY <1>5 DEF ServeCreate
    <2>2. c.val \in Values
      BY <1>2, <1>5 DEF ServeCreate, Carries
    <2>3. {<<d, c.val>>} \in SUBSET Row /\ {<<d, c.val>>} # {}
      BY <2>2 DEF Row
    <2>4. docs' \in [Docs -> Values \union {"absent", "removed"}]
      BY <1>3, <2>1, <2>2
    <2>5. QED
      BY <1>4, <2>1, <2>3, <2>4
  <1>6. CASE ServeUpdate(c)
    <2>1. c.val \in Values /\ c.id \in Docs
      BY <1>2, <1>6 DEF ServeUpdate, Carries
    <2>2. CASE docs[c.id] \in Values
      <3>1. /\ docs' = [docs EXCEPT ![c.id] = c.val]
            /\ Reply(c, "ok", {<<c.id, c.val>>})
        BY <1>6, <2>2 DEF ServeUpdate
      <3>2. {<<c.id, c.val>>} \in SUBSET Row /\ {<<c.id, c.val>>} # {}
        BY <2>1 DEF Row
      <3>3. docs' \in [Docs -> Values \union {"absent", "removed"}]
        BY <1>3, <2>1, <3>1
      <3>4. QED
        BY <1>4, <3>1, <3>2, <3>3
    <2>3. CASE docs[c.id] \notin Values
      <3>1. docs' = docs /\ Reply(c, "failed", {})
        BY <1>6, <2>3 DEF ServeUpdate
      <3>2. QED
        BY <1>3, <1>4, <3>1
    <2>4. QED
      BY <2>2, <2>3
  <1>7. CASE ServeDelete(c)
    <2>1. /\ docs' = [docs EXCEPT ![c.id] = "removed"]
          /\ Reply(c, "ok", {}) /\ c.kind = "delete"
      BY <1>7 DEF ServeDelete
    <2>2. docs' \in [Docs -> Values \union {"absent", "removed"}]
      BY <1>3, <2>1
    <2>3. QED
      BY <1>4, <2>1, <2>2
  <1>8. CASE ListFind(c)
    <2> DEFINE status == IF c.status = "sent" THEN "found" ELSE "ok"
               rows == Live(c.filter)
    <2>1. /\ Reply(c, status, rows) /\ docs' = docs /\ c.kind = "list"
      BY <1>8 DEF ListFind
    <2>2. rows \in SUBSET Row
      BY DEF Live
    <2>3. status \in {"found", "ok", "failed"}
      OBVIOUS
    <2> HIDE DEF status, rows
    <2>4. QED
      BY <1>3, <1>4, <2>1, <2>2, <2>3
  <1>9. CASE ListCount(c)
    <2> DEFINE some == Live(c.filter) # {}
               status == IF c.status = "sent" THEN "counted" ELSE "ok"
               d == [c EXCEPT !.status = status, !.some = some]
    <2>1. /\ calls' = (calls \ {c}) \union {d} /\ c.kind = "list"
          /\ UNCHANGED <<docs, keys, current, box, page, next, asked, raced,
                         failures>>
      BY <1>9, <1>2 DEF ListCount, Call
    <2>2. some \in BOOLEAN /\ status \in {"counted", "ok"}
      OBVIOUS
    <2> HIDE DEF some, status
    <2>3. d \in Call /\ d.kind = "list"
      BY <1>2, <2>1, <2>2 DEF Call
    <2>4. Carries(d)
      BY <2>3 DEF Carries
    <2> HIDE DEF d
    <2>5. QED
      BY <1>3, <2>1, <2>3, <2>4, ReplyStep
  <1>10. CASE Lose(c)
    <2> DEFINE d == [c EXCEPT !.status = "failed"]
    <2>1. /\ calls' = (calls \ {c}) \union {d} /\ failures' = failures + 1
          /\ UNCHANGED <<docs, keys, current, box, page, next, asked, raced>>
      BY <1>10 DEF Lose
    <2>2. d \in Call /\ d.kind = c.kind /\ d.val = c.val /\ d.id = c.id
          /\ d.status = "failed"
      BY <1>2 DEF Call
    <2> HIDE DEF d
    <2>3. Carries(d)
      BY <1>2, <2>2 DEF Carries
    <2>4. QED
      BY <1>3, <2>1, <2>2, <2>3, ReplyStep
  <1>11. QED
    BY <1>1, <1>5, <1>6, <1>7, <1>8, <1>9, <1>10

-----------------------------------------------------------------------------
(* What comes back *)

LEMMA ReceivedStep ==
    ASSUME PanelInv, NEW c \in calls, NEW sent \in {Lists(1), {}},
           Send(sent, calls \ {c}), Rest,
           keys' \in [Kinds -> KeyState], box' \in Box, page' \in Page,
           current' \in Row \union {None}, Settled', FormsAgree'
    PROVE  PanelInv'
  <1>1. /\ sent \in SUBSET Call /\ IsFiniteSet(sent)
        /\ \A d \in sent : Carries(d)
    <2>1. 1 \in 0 .. 2 /\ next \in Nat
      BY DEF PanelInv, Typed
    <2>2. /\ Lists(1) \subseteq Call /\ IsFiniteSet(Lists(1))
          /\ \A d \in Lists(1) : Carries(d)
      BY <2>1, ListsTyped
    <2>3. QED
      BY <2>2, FS_EmptySet
  <1>2. calls \ {c} \in SUBSET calls
    OBVIOUS
  <1>3. /\ calls' \subseteq Call /\ next' \in Nat
        /\ asked' \in Filters /\ raced' \in BOOLEAN
        /\ Answered'
    BY <1>1, <1>2, SendTyped DEF PanelInv
  <1>4. Typed'
    BY <1>3 DEF PanelInv, Typed, Rest
  <1>5. QED
    BY <1>3, <1>4 DEF PanelInv

LEMMA SavedStep == ASSUME PanelInv, NEW c \in calls, Saved(c) PROVE PanelInv'
  <1> DEFINE kind == c.kind
  <1>1. kind \in {"create", "update"} /\ c.status = "ok" /\ Rest
    BY DEF Saved
  <1>2. c.rows \in SUBSET Row /\ c.rows # {}
    BY <1>1 DEF PanelInv, Typed, Answered, Carries, Call
  <1>3. current' \in Row /\ current' # None
    <2>1. current' \in c.rows
      BY <1>2 DEF Saved
    <2>2. QED
      BY <1>2, <2>1, CrudAssumption DEF Row
  <1>4. /\ keys \in [Kinds -> KeyState] /\ box \in Box /\ page \in Page
        /\ {"create", "update", "delete"} \subseteq Kinds /\ "list" \in Kinds
    BY DEF PanelInv, Typed, Kinds
  <1>5. CASE page.forms
    <2> DEFINE k == Reset(keys, kind)
    <2>1. /\ box' = PanelOpened(ReadOpened(box))
          /\ keys' = Loading(k, "list")
          /\ page' = [page EXCEPT !.form = IF kind = "update" THEN None ELSE @]
          /\ Send(Lists(1), calls \ {c})
      BY <1>5 DEF Saved
    <2>2. /\ box' \in Box /\ box'.modal = box.modal /\ ~box'.edit
      BY <1>4, <2>1 DEF PanelOpened, ReadOpened, Box
    <2>3. /\ page' \in Page /\ page'.forms /\ page'.mounted = page.mounted
      BY <1>4, <1>5, <2>1 DEF Page
    <2>4. k \in [Kinds -> KeyState]
      BY <1>1, <1>4, KeysTyped
    <2>5. \A x \in {"create", "update", "delete"} :
              k[x] = IF x = kind THEN InitialKey ELSE keys[x]
      BY <1>1, <1>4, KeysValue
    <2> HIDE DEF k, kind
    <2>6. keys' \in [Kinds -> KeyState]
      BY <1>4, <2>1, <2>4, KeysTyped
    <2>7. ASSUME NEW x \in {"create", "update", "delete"} PROVE keys'[x] = k[x]
      <3>1. x \in Kinds /\ x # "list"
        BY <1>4
      <3>2. QED
        BY <1>4, <2>1, <2>4, <3>1, KeysValue
    <2>8. /\ \A x \in {"create", "update"} : ~keys'[x].isSuccess
          /\ keys'["delete"] = keys["delete"]
          /\ \A x \in {"create", "update", "delete"} :
                 ~(keys'[x].isLoading /\ keys'[x].isSuccess)
      BY <1>1, <1>5, <2>5, <2>7, InitialKeyValue DEF PanelInv, Settled
    <2>9. Settled'
      BY <2>2, <2>3, <2>8 DEF PanelInv, Settled
    <2>10. FormsAgree'
      BY <1>3, <2>2, <2>8 DEF PanelInv, FormsAgree
    <2>11. QED
      BY <1>1, <1>3, <2>1, <2>2, <2>3, <2>6, <2>9, <2>10, ReceivedStep
  <1>6. CASE ~page.forms
    <2>1. /\ keys' = Succeeded(keys, kind, c.rows)
          /\ UNCHANGED box /\ UNCHANGED page
          /\ Send({}, calls \ {c})
      BY <1>6 DEF Saved
    <2> HIDE DEF kind
    <2>2. keys' \in [Kinds -> KeyState]
      BY <1>1, <1>2, <1>4, <2>1, SucceededValue
    <2>3. /\ \A x \in Kinds : x # kind => keys'[x] = keys[x]
          /\ keys'[kind].isSuccess /\ ~keys'[kind].isLoading
      BY <1>1, <1>2, <1>4, <2>1, SucceededValue
    <2>4. ~box.panel /\ ~box.read /\ ~box.edit
      BY <1>6 DEF PanelInv, Settled
    <2>5. /\ keys'["delete"] = keys["delete"]
          /\ \A x \in {"create", "update", "delete"} :
                 ~(keys'[x].isLoading /\ keys'[x].isSuccess)
      BY <1>1, <1>4, <2>3 DEF PanelInv, Settled
    <2>6. Settled'
      BY <1>3, <1>6, <2>1, <2>4, <2>5 DEF PanelInv, Settled
    <2>7. FormsAgree'
      BY <2>1, <2>4, <2>5 DEF PanelInv, FormsAgree
    <2>8. QED
      BY <1>1, <1>3, <1>4, <2>1, <2>2, <2>6, <2>7, ReceivedStep
  <1>7. QED
    BY <1>5, <1>6

LEMMA DeletedStep == ASSUME PanelInv, NEW c \in calls, Deleted(c) PROVE PanelInv'
  <1> DEFINE k == Succeeded(keys, "delete", {})
  <1>1. /\ keys \in [Kinds -> KeyState] /\ box \in Box /\ page \in Page
        /\ current \in Row \union {None}
        /\ {"create", "update", "delete"} \subseteq Kinds /\ "list" \in Kinds
        /\ {} \in SUBSET Row
    BY DEF PanelInv, Typed, Kinds
  <1>2. UNCHANGED <<current, page>> /\ Rest
    BY DEF Deleted
  <1>3. k \in [Kinds -> KeyState]
    BY <1>1, SucceededValue
  <1>4. /\ \A x \in Kinds : x # "delete" => k[x] = keys[x]
        /\ ~k["delete"].isLoading
    BY <1>1, SucceededValue
  <1>5. \/ /\ box' = [box EXCEPT !.modal = FALSE]
           /\ keys' = Loading(k, "list") /\ Send(Lists(1), calls \ {c})
        \/ /\ ~(page.mounted /\ ~keys["delete"].isSuccess)
           /\ keys' = k /\ box' = box /\ Send({}, calls \ {c})
    BY DEF Deleted
  <1> HIDE DEF k
  <1>6. keys' \in [Kinds -> KeyState]
    BY <1>1, <1>3, <1>5, KeysTyped
  <1>7. ASSUME NEW x \in {"create", "update", "delete"} PROVE keys'[x] = k[x]
    <2>1. x \in Kinds /\ x # "list"
      BY <1>1
    <2>2. QED
      BY <1>1, <1>3, <1>5, <2>1, KeysValue
  <1>8. /\ keys'["create"] = keys["create"] /\ keys'["update"] = keys["update"]
        /\ ~keys'["delete"].isLoading
    BY <1>1, <1>4, <1>7
  <1>9. /\ box' \in Box /\ ~box'.modal /\ box'.panel = box.panel
        /\ box'.read = box.read /\ box'.edit = box.edit
    <2>1. box.modal => page.mounted /\ ~keys["delete"].isSuccess
      BY DEF PanelInv, Settled
    <2>2. QED
      BY <1>1, <1>5, <2>1 DEF Box
  <1>10. Settled'
    BY <1>2, <1>8, <1>9 DEF PanelInv, Settled
  <1>11. FormsAgree'
    BY <1>2, <1>8, <1>9 DEF PanelInv, FormsAgree
  <1>12. QED
    BY <1>1, <1>2, <1>5, <1>6, <1>9, <1>10, <1>11, ReceivedStep

LEMMA ListedStep ==
    ASSUME PanelInv, NEW c \in calls, Listed(c) \/ Refused(c) PROVE PanelInv'
  <1> DEFINE rows == IF c.some THEN c.rows ELSE {}
  <1>1. /\ keys \in [Kinds -> KeyState] /\ box \in Box /\ page \in Page
        /\ current \in Row \union {None}
        /\ {"create", "update", "delete"} \subseteq Kinds /\ "list" \in Kinds
    BY DEF PanelInv, Typed, Kinds
  <1>2. c.kind \in Kinds /\ rows \in SUBSET Row
    BY DEF PanelInv, Typed, Call
  <1>3. UNCHANGED <<current, box, page>> /\ Rest /\ Send({}, calls \ {c})
    BY DEF Listed, Refused
  <1>4. keys' = Succeeded(keys, "list", rows) \/ keys' = Failed(keys, c.kind)
    BY DEF Listed, Refused
  <1> HIDE DEF rows
  <1>5. keys' \in [Kinds -> KeyState]
    BY <1>1, <1>2, <1>4, KeysTyped, SucceededValue
  <1>6. ASSUME NEW x \in {"create", "update", "delete"}
        PROVE  /\ keys'[x].current = keys[x].current
               /\ keys'[x].isSuccess => keys[x].isSuccess
               /\ ~(keys'[x].isLoading /\ keys'[x].isSuccess)
    <2>1. x \in Kinds /\ x # "list"
      BY <1>1
    <2>2. CASE keys' = Succeeded(keys, "list", rows)
      <3>1. keys'[x] = keys[x]
        BY <1>1, <1>2, <2>1, <2>2, SucceededValue
      <3>2. QED
        BY <3>1 DEF PanelInv, Settled
    <2>3. CASE keys' = Failed(keys, c.kind)
      <3>1. /\ keys'[x].current = keys[x].current
            /\ x # c.kind => keys'[x] = keys[x]
        <4>1. keys \in [Kinds -> KeyState] /\ c.kind \in Kinds /\ x \in Kinds
          BY <1>1, <1>2, <2>1
        <4>2. /\ Failed(keys, c.kind)[x].current = keys[x].current
              /\ x # c.kind => Failed(keys, c.kind)[x] = keys[x]
          BY <4>1 DEF Failed, KeyState
        <4>3. QED
          BY <2>3, <4>2
      <3>2. x = c.kind => ~keys'[x].isSuccess
        BY <1>1, <1>2, <2>3, KeysValue
      <3>3. QED
        BY <3>1, <3>2 DEF PanelInv, Settled
    <2>4. QED
      BY <1>4, <2>2, <2>3
  <1>7. Settled'
    BY <1>3, <1>6 DEF PanelInv, Settled
  <1>8. FormsAgree'
    BY <1>3, <1>6 DEF PanelInv, FormsAgree
  <1>9. QED
    BY <1>1, <1>3, <1>5, <1>7, <1>8, ReceivedStep

-----------------------------------------------------------------------------
LEMMA PanelInit == Init => PanelInv
  <1> SUFFICES ASSUME Init PROVE PanelInv
    OBVIOUS
  <1>1. /\ \A x \in {"create", "update", "delete"} : keys[x] = InitialKey
        /\ keys \in [Kinds -> KeyState]
    BY InitialKeyValue DEF Init, Kinds
  <1>2. Typed
    BY <1>1, InitialPanel, CrudAssumption DEF Init, Typed, InitialPage, Page
  <1>3. Answered
    BY DEF Init, Answered
  <1>4. Settled /\ FormsAgree
    BY <1>1, InitialPanel, InitialKeyValue DEF Init, Settled, FormsAgree
  <1>5. QED
    BY <1>2, <1>3, <1>4 DEF PanelInv

LEMMA PanelNext == PanelInv /\ [Next]_vars => PanelInv'
  <1> SUFFICES ASSUME PanelInv, [Next]_vars PROVE PanelInv'
    OBVIOUS
  <1>1. ASSUME User PROVE PanelInv'
    <2>1. ASSUME Mount \/ Leave PROVE PanelInv'
      BY <2>1, MountStep, LeaveStep
    <2>2. ASSUME NEW f \in Filters, Refresh(f) PROVE PanelInv'
      BY <2>2, RefreshStep
    <2>3. ASSUME NEW r \in Row, ReadRow(r) \/ EditRow(r) \/ DeleteRow(r)
          PROVE  PanelInv'
      BY <2>3, RowStep
    <2>4. ASSUME AddNew PROVE PanelInv'
      BY <2>4, AddNewStep
    <2>5. ASSUME ClosePanel \/ ToggleBox \/ CancelEdit \/ CancelDelete
          PROVE  PanelInv'
      BY <2>5, OpenCloseStep
    <2>6. ASSUME EditItem \/ RemoveItem PROVE PanelInv'
      BY <2>6, EditItemStep, RemoveItemStep
    <2>7. ASSUME NEW v \in Values, SubmitUpdate(v) \/ SubmitCreate(v)
          PROVE  PanelInv'
      BY <2>7, SubmitStep
    <2>8. ASSUME Confirm PROVE PanelInv'
      BY <2>8, ConfirmStep
    <2>9. QED
      BY <1>1, <2>1, <2>2, <2>3, <2>4, <2>5, <2>6, <2>7, <2>8 DEF User
  <1>2. ASSUME Receive PROVE PanelInv'
    <2>1. PICK c \in calls : Saved(c) \/ Deleted(c) \/ Listed(c) \/ Refused(c)
      BY <1>2 DEF Receive
    <2>2. QED
      BY <2>1, SavedStep, DeletedStep, ListedStep
  <1>3. ASSUME UNCHANGED vars PROVE PanelInv'
    <2>1. Typed' /\ Answered'
      BY <1>3 DEF vars, PanelInv, Typed, Answered
    <2>2. Settled' /\ FormsAgree'
      BY <1>3 DEF vars, PanelInv, Settled, FormsAgree
    <2>3. QED
      BY <2>1, <2>2 DEF PanelInv
  <1>4. QED
    BY <1>1, <1>2, <1>3, ServerStep DEF Next

LEMMA PanelAlways == Spec => []PanelInv
  BY PanelInit, PanelNext, PTL DEF Spec

\* Every state the page, the slice and the requests reach is well formed, and
\* a request that saves or deletes is never marked done and at work at once.
THEOREM TypeCorrect == Spec => []TypeOK
  <1>1. PanelInv => TypeOK
    BY DEF PanelInv, Typed, Settled, TypeOK
  <1>2. QED
    BY <1>1, PanelAlways, PTL

\* A submission or a confirmation acts on the item the page shows, whatever
\* answers came in between and whether or not the page was left meanwhile.
THEOREM FormsAlwaysAgree == Spec => []FormsAgree
  <1>1. PanelInv => FormsAgree
    BY DEF PanelInv
  <1>2. QED
    BY <1>1, PanelAlways, PTL

\* No update that the server still holds revives a document removed since.
THEOREM RemovalStands == Spec => RemovedStays
  <1>1. PanelInv /\ [Next]_vars =>
            [\A d \in Docs : docs[d] = "removed" => docs'[d] = "removed"]_docs
    BY RemovedStep DEF PanelInv, Typed
  <1>2. QED
    BY <1>1, PanelAlways, PTL DEF Spec, RemovedStays

-----------------------------------------------------------------------------
(***************************************************************************)
(* The table.  While the page is mounted and nothing was lost or overtook  *)
(* another request, one of three says that it will be fresh: a document    *)
(* was written and the answer, which makes the page ask again, is still    *)
(* out; a list is out that has, or will have, the documents asked for; or  *)
(* the table shows them.  For the first to be enough the page must hear    *)
(* the answer, with its forms mounted or its deletion not yet a success.   *)
(***************************************************************************)
Calm == page.mounted /\ ~raced /\ failures = 0

Good(c) ==
    /\ c.kind = "list" /\ c.filter = asked
    /\ c.status \in {"found", "ok"} => c.rows = Live(asked)
    /\ c.status \in {"counted", "ok"} => c.some = (Live(asked) # {})

Lone == \A c, d \in calls : c.kind = d.kind /\ c.kind \in {"list", "delete"} => c = d

Heard == \A c \in calls :
    /\ c.kind = "list" => c.filter = asked /\ c.status # "failed"
    /\ c.kind \in {"create", "update"} => page.forms
    /\ c.kind = "delete" => ~keys["delete"].isSuccess

Owed == \E c \in calls : c.kind # "list" /\ c.status = "ok"

Coming == \E c \in calls : Good(c)

Shown == (\A c \in calls : c.kind # "list") /\ keys["list"].result = Live(asked)

Fresh == Calm => Lone /\ Heard /\ (Owed \/ Coming \/ Shown)

\* The page stays, with what is mounted on it and the documents as they are.
Stays ==
    /\ page'.mounted => page.mounted
    /\ page.forms => page'.forms
    /\ Rest

\* Nothing in flight changes.
LEMMA QuietStep ==
    ASSUME Fresh, Stays, NothingSent,
           keys'["list"].result = keys["list"].result,
           keys'["delete"].isSuccess => keys["delete"].isSuccess
    PROVE  Fresh'
  <1> SUFFICES ASSUME Calm' PROVE (Lone /\ Heard /\ (Owed \/ Coming \/ Shown))'
    BY DEF Fresh
  <1>1. Calm
    BY DEF Calm, Stays, Rest, NothingSent
  <1>2. Lone /\ Heard /\ (Owed \/ Coming \/ Shown)
    BY <1>1 DEF Fresh
  <1>3. calls' = calls /\ asked' = asked /\ docs' = docs
    BY DEF Stays, Rest, NothingSent
  <1>4. Live(asked)' = Live(asked)
    BY <1>3 DEF Live
  <1>5. Lone' /\ Heard'
    BY <1>2, <1>3 DEF Lone, Heard, Stays
  <1>6. Owed => Owed'
    BY <1>3 DEF Owed
  <1>7. Coming => Coming'
    BY <1>3, <1>4 DEF Coming, Good
  <1>8. Shown => Shown'
    BY <1>3, <1>4 DEF Shown
  <1>9. QED
    BY <1>2, <1>5, <1>6, <1>7, <1>8

\* A list that is sent is the only one, or it raced.
LEMMA ListSent ==
    ASSUME Fresh, Stays, NEW sent, NEW others \in SUBSET calls, Send(sent, others),
           NEW l \in sent,
           \A d \in sent : d.kind = "list" /\ d.status = "sent" /\ d.filter = l.filter,
           keys'["delete"].isSuccess /\ (\E d \in others : d.kind = "delete") =>
               keys["delete"].isSuccess
    PROVE  Fresh'
  <1> SUFFICES ASSUME Calm' PROVE (Lone /\ Heard /\ (Owed \/ Coming \/ Shown))'
    BY DEF Fresh
  <1>1. calls' = others \union sent /\ ~raced' /\ raced' = (raced \/ Races(sent, others))
    BY DEF Send, Calm
  <1>2. Calm
    BY <1>1 DEF Calm, Stays, Rest
  <1>3. Lone /\ Heard
    BY <1>2 DEF Fresh
  <1>4. asked' = l.filter
    <2>1. \E c \in sent : c.kind = "list"
      OBVIOUS
    <2>2. (CHOOSE c \in sent : c.kind = "list") \in sent
      BY <2>1
    <2>3. asked' = (CHOOSE c \in sent : c.kind = "list").filter
      BY <2>1 DEF Send
    <2>4. QED
      BY <2>2, <2>3
  <1>5. \A c \in sent : \A d \in sent \union others : d.kind = "list" => c = d
    BY <1>1 DEF Races
  <1>6. \A d \in others : d.kind = "list" => d = l
    BY <1>5
  <1>7. Lone'
    BY <1>1, <1>3, <1>5 DEF Lone
  <1>8. Heard'
    <2>1. ASSUME NEW d \in others
          PROVE  /\ d.kind = "list" => d.filter = asked' /\ d.status # "failed"
                 /\ d.kind \in {"create", "update"} => page'.forms
                 /\ d.kind = "delete" => ~keys'["delete"].isSuccess
      BY <1>3, <1>4, <1>6 DEF Heard, Stays
    <2>2. QED
      BY <1>1, <1>4, <2>1 DEF Heard
  <1>9. Coming'
    BY <1>1, <1>4 DEF Coming, Good
  <1>10. QED
    BY <1>7, <1>8, <1>9

\* What is sent is no list.
LEMMA WriteSent ==
    ASSUME Fresh, Stays, NEW sent, Send(sent, calls),
           \A d \in sent : /\ d.kind # "list"
                           /\ d.kind \in {"create", "update"} => page'.forms
                           /\ d.kind = "delete" => ~keys'["delete"].isSuccess,
           keys'["list"].result = keys["list"].result,
           keys'["delete"].isSuccess => keys["delete"].isSuccess
    PROVE  Fresh'
  <1> SUFFICES ASSUME Calm' PROVE (Lone /\ Heard /\ (Owed \/ Coming \/ Shown))'
    BY DEF Fresh
  <1>1. /\ calls' = calls \union sent /\ asked' = asked
        /\ ~raced' /\ raced' = (raced \/ Races(sent, calls))
    BY DEF Send, Calm
  <1>2. Calm
    BY <1>1 DEF Calm, Stays, Rest
  <1>3. Lone /\ Heard /\ (Owed \/ Coming \/ Shown)
    BY <1>2 DEF Fresh
  <1>4. Live(asked)' = Live(asked)
    BY <1>1 DEF Live, Stays, Rest
  <1>5. Lone'
    BY <1>1, <1>3 DEF Lone, Races
  <1>6. Heard'
    BY <1>1, <1>3 DEF Heard, Stays
  <1>7. Owed => Owed'
    BY <1>1 DEF Owed
  <1>8. Coming => Coming'
    BY <1>1, <1>4 DEF Coming, Good
  <1>9. Shown => Shown'
    BY <1>1, <1>4 DEF Shown
  <1>10. QED
    BY <1>3, <1>5, <1>6, <1>7, <1>8, <1>9

\* An answer is taken and nothing is sent.
LEMMA TakenStep ==
    ASSUME Fresh, Stays, NEW c \in calls, Send({}, calls \ {c}),
           keys'["delete"].isSuccess /\ c.kind # "delete" => keys["delete"].isSuccess,
           Calm /\ Lone /\ Heard /\ (Owed \/ Coming \/ Shown) => (Owed \/ Coming \/ Shown)'
    PROVE  Fresh'
  <1> SUFFICES ASSUME Calm' PROVE (Lone /\ Heard /\ (Owed \/ Coming \/ Shown))'
    BY DEF Fresh
  <1>1. calls' = calls \ {c} /\ asked' = asked /\ ~raced' /\ (raced => raced')
    BY DEF Send, Calm
  <1>2. Calm
    BY <1>1 DEF Calm, Stays, Rest
  <1>3. Lone /\ Heard /\ (Owed \/ Coming \/ Shown)
    BY <1>2 DEF Fresh
  <1>4. Lone'
    BY <1>1, <1>3 DEF Lone
  <1>5. Heard'
    <2>1. \A d \in calls \ {c} : d.kind = "delete" => c.kind # "delete"
      BY <1>3 DEF Lone
    <2>2. QED
      BY <1>1, <1>3, <2>1 DEF Heard, Stays
  <1>6. QED
    BY <1>2, <1>3, <1>4, <1>5

LEMMA ResultKept ==
    ASSUME NEW k \in [Kinds -> KeyState], NEW kind \in Kinds, NEW x \in Kinds
    PROVE  /\ Loading(k, kind)[x].result = k[x].result
           /\ Failed(k, kind)[x].result = k[x].result
  BY DEF Loading, Failed, KeyState

LEMMA ListsAsk ==
    ASSUME NEW m \in 0 .. 2
    PROVE  /\ \A d \in Lists(m) : d.kind = "list" /\ d.status = "sent" /\ d.filter = Docs
           /\ m # 0 => Lists(m) # {}
           /\ m = 0 => Lists(m) = {}
  <1>1. \A d \in Lists(m) : \E i \in 0 .. m - 1 :
            d = NewCall(next + i, "list", None, None, Docs)
    BY DEF Lists
  <1>2. \A d \in Lists(m) : d.kind = "list" /\ d.status = "sent" /\ d.filter = Docs
    BY <1>1 DEF NewCall
  <1>3. m # 0 => 0 \in 0 .. m - 1
    OBVIOUS
  <1>4. m # 0 => NewCall(next + 0, "list", None, None, Docs) \in Lists(m)
    BY <1>3 DEF Lists
  <1>5. m = 0 => 0 .. m - 1 = {}
    OBVIOUS
  <1>6. m = 0 => Lists(m) = {}
    BY <1>5 DEF Lists
  <1>7. QED
    BY <1>2, <1>4, <1>6

LEMMA MountFresh == ASSUME PanelInv, Mount PROVE Fresh'
  <1> SUFFICES ASSUME Calm' PROVE (Lone /\ Heard /\ (Owed \/ Coming \/ Shown))'
    BY DEF Fresh
  <1>1. calls = {} /\ ~keys["delete"].isSuccess
    BY DEF Mount, Calm
  <1>2. calls' = Lists(1) /\ asked' = Docs
    BY <1>1 DEF Mount
  <1>3. /\ \A d \in Lists(1) : d.kind = "list" /\ d.status = "sent" /\ d.filter = Docs
        /\ Lists(1) # {}
    BY ListsAsk
  <1>4. Lone'
    <2>1. \A i \in 0 .. 1 - 1 : i = 0
      OBVIOUS
    <2>2. \A c, d \in Lists(1) : c = d
      BY <2>1 DEF Lists
    <2>3. QED
      BY <1>2, <2>2 DEF Lone
  <1>5. Heard' /\ Coming'
    BY <1>2, <1>3 DEF Heard, Coming, Good
  <1>6. QED
    BY <1>4, <1>5

\* The drawer opens: it sends lists, or nothing.
LEMMA OpenPanelFresh ==
    ASSUME PanelInv, Fresh, NEW k \in [Kinds -> KeyState], NEW b, NEW form,
           OpenPanel(k, b, form), Rest,
           k["list"].result = keys["list"].result,
           k["delete"].isSuccess = keys["delete"].isSuccess
    PROVE  Fresh'
  <1> DEFINE stale == {kind \in {"create", "update"} :
                           ~page.forms /\ k[kind].isSuccess}
             kept == [kind \in Kinds |-> IF kind \in stale THEN InitialKey
                                        ELSE k[kind]]
             m == Cardinality(stale)
  <1>1. /\ page' = [page EXCEPT !.forms = TRUE, !.form = form]
        /\ keys' = IF stale = {} THEN kept ELSE Loading(kept, "list")
        /\ Send(Lists(m), calls)
    BY DEF OpenPanel
  <1>2. m \in 0 .. 2 /\ (m = 0 <=> stale = {})
    BY FewStale
  <1>3. kept \in [Kinds -> KeyState]
    BY InitialKeyValue
  <1>4. {"list", "delete"} \subseteq Kinds
    BY DEF Kinds
  <1>5. kept["list"] = k["list"] /\ kept["delete"] = k["delete"]
    BY <1>4
  <1> HIDE DEF kept, stale, m
  <1>6. /\ keys'["list"].result = keys["list"].result
        /\ keys'["delete"].isSuccess = keys["delete"].isSuccess
    BY <1>1, <1>3, <1>4, <1>5, ResultKept, KeysValue
  <1>7. Stays
    BY <1>1 DEF Stays, PanelInv, Typed, Page
  <1>8. /\ \A d \in Lists(m) : d.kind = "list" /\ d.status = "sent" /\ d.filter = Docs
        /\ m # 0 => Lists(m) # {}
        /\ m = 0 => Lists(m) = {}
    BY <1>2, ListsAsk
  <1>9. CASE m = 0
    BY <1>1, <1>6, <1>7, <1>8, <1>9, WriteSent
  <1>10. CASE m # 0
    <2>1. PICK l \in Lists(m) : TRUE
      BY <1>8, <1>10
    <2> DEFINE sent == Lists(m)
    <2>2. \A d \in sent : d.kind = "list" /\ d.status = "sent" /\ d.filter = l.filter
      BY <1>8, <2>1
    <2>3. Send(sent, calls) /\ l \in sent
      BY <1>1, <2>1
    <2> HIDE DEF sent
    <2>4. QED
      BY <1>6, <1>7, <2>2, <2>3, ListSent
  <1>11. QED
    BY <1>9, <1>10

\* One request is started.
LEMMA StartFresh ==
    ASSUME PanelInv, Fresh, NEW kind \in Kinds, NEW id, NEW val, NEW f,
           Start(kind, id, val, f), Rest, UNCHANGED page,
           kind \in {"create", "update"} => page.forms,
           kind = "delete" => ~keys'["delete"].isSuccess,
           keys'["list"].result = keys["list"].result,
           keys'["delete"].isSuccess => keys["delete"].isSuccess
    PROVE  Fresh'
  <1> DEFINE c == NewCall(next, kind, id, val, f)
  <1>1. Send({c}, calls)
    BY DEF Start
  <1>2. c.kind = kind /\ c.status = "sent"
    BY DEF NewCall
  <1>3. Stays
    BY DEF Stays
  <1> HIDE DEF c
  <1>4. CASE kind = "list"
    BY <1>1, <1>2, <1>3, <1>4, ListSent
  <1>5. CASE kind # "list"
    BY <1>1, <1>2, <1>3, <1>5, WriteSent
  <1>6. QED
    BY <1>4, <1>5

LEMMA UserFresh == ASSUME PanelInv, Fresh, User PROVE Fresh'
  <1>0. /\ keys \in [Kinds -> KeyState] /\ box \in Box /\ page \in Page
        /\ current \in Row \union {None} /\ page.mounted \in BOOLEAN
        /\ {"create", "update", "delete", "list"} \subseteq Kinds
    BY DEF PanelInv, Typed, Page, Kinds
  <1>1. ASSUME NEW kind \in {"update", "delete"}, NEW row \in Row \union {None},
               keys' = ActingOn(keys, kind, row)
        PROVE  /\ keys'["list"].result = keys["list"].result
               /\ keys'["delete"].isSuccess => keys["delete"].isSuccess
    <2>1. \A x \in Kinds : x # kind => keys'[x] = keys[x]
      BY <1>0, <1>1, ActingValue
    <2>2. ~keys'[kind].isSuccess
      BY <1>0, <1>1, ActingValue
    <2>3. QED
      BY <1>0, <2>1, <2>2
  <1>2. ASSUME NEW kind \in Kinds, keys' = Loading(keys, kind)
        PROVE  /\ keys'["list"].result = keys["list"].result
               /\ keys'["delete"].isSuccess = keys["delete"].isSuccess
    BY <1>0, <1>2, ResultKept, KeysValue
  <1>3. ASSUME Leave PROVE Fresh'
    <2>1. ~page'.mounted
      BY <1>3 DEF Leave, InitialPage
    <2>2. QED
      BY <2>1 DEF Fresh, Calm
  <1>4. ASSUME NEW f \in Filters, Refresh(f) PROVE Fresh'
    BY <1>0, <1>2, <1>4, StartFresh DEF Refresh
  <1>5. ASSUME NEW r \in Row, ReadRow(r) PROVE Fresh'
    BY <1>0, <1>5, OpenPanelFresh DEF ReadRow
  <1>6. ASSUME NEW r \in Row, EditRow(r) PROVE Fresh'
    <2> DEFINE k == ActingOn(keys, "update", r)
    <2>1. k \in [Kinds -> KeyState] /\ \A x \in Kinds : x # "update" => k[x] = keys[x]
      BY <1>0, ActingValue
    <2>2. k["list"] = keys["list"] /\ k["delete"] = keys["delete"]
      BY <1>0, <2>1
    <2>3. OpenPanel(k, PanelOpened(EditOpened(box)), FormOf(r)) /\ Rest
      BY <1>6 DEF EditRow
    <2> HIDE DEF k
    <2>4. QED
      BY <2>1, <2>2, <2>3, OpenPanelFresh
  <1>7. ASSUME AddNew PROVE Fresh'
    BY <1>0, <1>7, OpenPanelFresh DEF AddNew
  <1>8. ASSUME ClosePanel \/ ToggleBox \/ CancelEdit \/ CancelDelete PROVE Fresh'
    BY <1>8, QuietStep DEF Stays, ClosePanel, ToggleBox, CancelEdit, CancelDelete
  <1>9. ASSUME NEW r \in Row, DeleteRow(r) PROVE Fresh'
    BY <1>1, <1>9, QuietStep DEF Stays, DeleteRow
  <1>10. ASSUME RemoveItem PROVE Fresh'
    BY <1>0, <1>1, <1>10, QuietStep DEF Stays, RemoveItem
  <1>11. ASSUME EditItem PROVE Fresh'
    <2>1. page'.mounted = page.mounted /\ page'.forms = page.forms
      BY <1>0, <1>11 DEF EditItem, Page
    <2>2. QED
      BY <1>0, <1>1, <1>11, <2>1, QuietStep DEF Stays, EditItem
  <1>12. ASSUME NEW v \in Values, SubmitUpdate(v) \/ SubmitCreate(v) PROVE Fresh'
    <2>1. page.forms
      BY <1>12 DEF SubmitUpdate, SubmitCreate, ItemUsable, PanelUsable, PanelInv, Settled
    <2>2. PICK kind \in {"create", "update"} : \E id :
              /\ Start(kind, id, v, Docs) /\ keys' = Loading(keys, kind)
              /\ UNCHANGED page /\ Rest
      BY <1>12 DEF SubmitUpdate, SubmitCreate
    <2>3. QED
      BY <1>0, <1>2, <2>1, <2>2, StartFresh
  <1>13. ASSUME Confirm PROVE Fresh'
    <2> DEFINE k == Reset(keys, "delete")
    <2>1. /\ k \in [Kinds -> KeyState]
          /\ k["list"] = keys["list"] /\ ~k["delete"].isSuccess
      <3>1. "list" \in Kinds /\ "delete" \in Kinds
        BY <1>0
      <3>2. k \in [Kinds -> KeyState]
        BY <1>0, <3>1, KeysTyped
      <3>3. k["list"] = keys["list"] /\ k["delete"] = InitialKey
        BY <1>0, <3>1, KeysValue
      <3>4. QED
        BY <3>2, <3>3, InitialKeyValue
    <2>2. keys' = Loading(k, "delete")
      BY <1>13 DEF Confirm, Deleting
    <2> HIDE DEF k
    <2>3. keys'["list"].result = keys["list"].result /\ ~keys'["delete"].isSuccess
      BY <1>0, <2>1, <2>2, ResultKept, KeysValue
    <2>4. QED
      BY <1>0, <1>13, <2>3, StartFresh DEF Confirm
  <1>14. QED
    BY <1>3, <1>4, <1>5, <1>6, <1>7, <1>8, <1>9, <1>10, <1>11, <1>12, <1>13, MountFresh
    DEF User

-----------------------------------------------------------------------------
\* A controller puts d in the place of c.
LEMMA ReplyFresh ==
    ASSUME Fresh, NEW c \in calls, NEW d, d.kind = c.kind, d.filter = c.filter,
           calls' = (calls \ {c}) \union {d},
           UNCHANGED <<keys, page, asked, raced, failures>>,
           d.status = "failed" => c.kind # "list" /\ c.status # "ok",
           c.kind # "list" /\ c.status = "ok" => d.status = "ok",
           docs' # docs => c.kind # "list" /\ d.status = "ok",
           docs' = docs /\ Good(c) => Good(d)'
    PROVE  Fresh'
  <1> SUFFICES ASSUME Calm' PROVE (Lone /\ Heard /\ (Owed \/ Coming \/ Shown))'
    BY DEF Fresh
  <1>1. Calm
    BY DEF Calm
  <1>2. Lone /\ Heard /\ (Owed \/ Coming \/ Shown)
    BY <1>1 DEF Fresh
  <1>3. Lone' /\ Heard'
    BY <1>2 DEF Lone, Heard
  <1>4. CASE docs' # docs
    BY <1>3, <1>4 DEF Owed
  <1>5. CASE docs' = docs
    <2>1. Live(asked)' = Live(asked)
      BY <1>5 DEF Live
    <2>2. Owed => Owed'
      BY DEF Owed
    <2>3. Coming => Coming'
      <3>1. \A x \in calls \ {c} : Good(x) => Good(x)'
        BY <2>1 DEF Good
      <3>2. QED
        BY <1>5, <3>1 DEF Coming
    <2>4. Shown => Shown'
      BY <2>1 DEF Shown
    <2>5. QED
      BY <1>2, <1>3, <2>2, <2>3, <2>4
  <1>6. QED
    BY <1>4, <1>5

LEMMA ServerFresh == ASSUME PanelInv, Fresh, Server PROVE Fresh'
  <1>1. PICK c \in calls :
            \/ ServeCreate(c) \/ ServeUpdate(c) \/ ServeDelete(c)
            \/ ListFind(c) \/ ListCount(c) \/ Lose(c)
    BY DEF Server
  <1>2. c \in Call
    BY DEF PanelInv, Typed
  <1>3. CASE ServeCreate(c) \/ ServeUpdate(c) \/ ServeDelete(c)
    <2>1. PICK status, rows :
              /\ c.kind \in {"create", "update", "delete"} /\ c.status = "sent"
              /\ Reply(c, status, rows)
              /\ docs' # docs => status = "ok"
      BY <1>3 DEF ServeCreate, ServeUpdate, ServeDelete
    <2> DEFINE d == [c EXCEPT !.status = status, !.rows = rows]
    <2>2. d.kind = c.kind /\ d.filter = c.filter /\ d.status = status
      BY <1>2 DEF Call
    <2>3. /\ calls' = (calls \ {c}) \union {d}
          /\ UNCHANGED <<keys, page, asked, raced, failures>>
      BY <2>1 DEF Reply
    <2>4. ~Good(c)
      BY <2>1 DEF Good
    <2> HIDE DEF d
    <2>5. QED
      BY <2>1, <2>2, <2>3, <2>4, ReplyFresh
  <1>4. CASE ListFind(c)
    <2>1. PICK d :
              d = [c EXCEPT !.status = IF c.status = "sent" THEN "found" ELSE "ok",
                            !.rows = Live(c.filter)]
      OBVIOUS
    <2>2. /\ c.kind = "list" /\ c.status \in {"sent", "counted"}
          /\ calls' = (calls \ {c}) \union {d}
          /\ UNCHANGED <<docs, keys, page, asked, raced, failures>>
      BY <1>4, <2>1 DEF ListFind, Reply
    <2>3. /\ d.kind = c.kind /\ d.filter = c.filter /\ d.some = c.some
          /\ d.status = IF c.status = "sent" THEN "found" ELSE "ok"
          /\ d.rows = Live(c.filter)
      BY <1>2, <2>1 DEF Call
    <2>4. Live(asked)' = Live(asked)
      BY <2>2 DEF Live
    <2>5. Good(c) => Good(d)'
      BY <2>2, <2>3, <2>4 DEF Good
    <2>6. QED
      BY <2>2, <2>3, <2>5, ReplyFresh
  <1>5. CASE ListCount(c)
    <2>1. PICK d :
              d = [c EXCEPT !.status = IF c.status = "sent" THEN "counted" ELSE "ok",
                            !.some = Live(c.filter) # {}]
      OBVIOUS
    <2>2. /\ c.kind = "list" /\ c.status \in {"sent", "found"}
          /\ calls' = (calls \ {c}) \union {d}
          /\ UNCHANGED <<docs, keys, page, asked, raced, failures>>
      BY <1>2, <1>5, <2>1 DEF ListCount, Call
    <2>3. /\ d.kind = c.kind /\ d.filter = c.filter /\ d.rows = c.rows
          /\ d.status = IF c.status = "sent" THEN "counted" ELSE "ok"
          /\ d.some = (Live(c.filter) # {})
      BY <1>2, <2>1 DEF Call
    <2>4. Live(asked)' = Live(asked)
      BY <2>2 DEF Live
    <2>5. Good(c) => Good(d)'
      BY <2>2, <2>3, <2>4 DEF Good
    <2>6. QED
      BY <2>2, <2>3, <2>5, ReplyFresh
  <1>6. CASE Lose(c)
    <2>1. failures' # 0
      BY <1>6 DEF Lose, PanelInv, Typed
    <2>2. QED
      BY <2>1 DEF Fresh, Calm
  <1>7. QED
    BY <1>1, <1>3, <1>4, <1>5, <1>6

-----------------------------------------------------------------------------
LEMMA SavedFresh == ASSUME PanelInv, Fresh, NEW c \in calls, Saved(c) PROVE Fresh'
  <1>0. /\ keys \in [Kinds -> KeyState] /\ page \in Page
        /\ {"create", "update", "delete", "list"} \subseteq Kinds
    BY DEF PanelInv, Typed, Kinds
  <1>1. c.kind \in {"create", "update"} /\ Rest
    BY DEF Saved
  <1>2. CASE page.forms
    <2> DEFINE k == Reset(keys, c.kind)
               sent == Lists(1)
    <2>1. /\ keys' = Loading(k, "list") /\ Send(sent, calls \ {c})
          /\ page'.mounted = page.mounted /\ page'.forms = page.forms
      BY <1>0, <1>2 DEF Saved, Page
    <2>2. k \in [Kinds -> KeyState] /\ k["delete"] = keys["delete"]
      BY <1>0, <1>1, KeysTyped, KeysValue
    <2> HIDE DEF k
    <2>3. keys'["delete"].isSuccess = keys["delete"].isSuccess
      BY <1>0, <2>1, <2>2, KeysValue
    <2>4. /\ \A d \in sent : d.kind = "list" /\ d.status = "sent" /\ d.filter = Docs
          /\ sent # {}
      BY ListsAsk
    <2> HIDE DEF sent
    <2>5. PICK l \in sent : TRUE
      BY <2>4
    <2>6. Stays
      BY <1>1, <2>1 DEF Stays
    <2>7. QED
      BY <2>1, <2>3, <2>4, <2>5, <2>6, ListSent
  <1>3. CASE ~page.forms
    <2>1. Send({}, calls \ {c}) /\ page' = page
      BY <1>3 DEF Saved
    <2>2. ASSUME Calm' PROVE FALSE
      <3>1. Calm
        BY <1>1, <2>1, <2>2 DEF Calm, Rest, Send
      <3>2. QED
        BY <1>1, <1>3, <3>1 DEF Fresh, Heard
    <2>3. QED
      BY <2>2 DEF Fresh
  <1>4. QED
    BY <1>2, <1>3

LEMMA DeletedFresh == ASSUME PanelInv, Fresh, NEW c \in calls, Deleted(c) PROVE Fresh'
  <1>1. c.kind = "delete" /\ page' = page /\ Rest
    BY DEF Deleted
  <1>2. Stays
    BY <1>1 DEF Stays
  <1>3. CASE page.mounted /\ ~keys["delete"].isSuccess
    <2> DEFINE sent == Lists(1)
    <2>1. Send(sent, calls \ {c})
      BY <1>3 DEF Deleted
    <2>2. /\ \A d \in sent : d.kind = "list" /\ d.status = "sent" /\ d.filter = Docs
          /\ sent # {}
      BY ListsAsk
    <2> HIDE DEF sent
    <2>3. PICK l \in sent : TRUE
      BY <2>2
    <2>4. ASSUME Calm' PROVE ~ \E d \in calls \ {c} : d.kind = "delete"
      <3>1. Calm
        BY <1>1, <2>1, <2>4 DEF Calm, Rest, Send
      <3>2. QED
        BY <1>1, <3>1 DEF Fresh, Lone
    <2>5. ASSUME Calm' PROVE Fresh'
      BY <1>2, <2>1, <2>2, <2>3, <2>4, <2>5, ListSent
    <2>6. QED
      BY <2>5 DEF Fresh
  <1>4. CASE ~(page.mounted /\ ~keys["delete"].isSuccess)
    <2>1. Send({}, calls \ {c})
      BY <1>4 DEF Deleted
    <2>2. ASSUME Calm' PROVE FALSE
      <3>1. Calm
        BY <1>1, <2>1, <2>2 DEF Calm, Rest, Send
      <3>2. QED
        BY <1>1, <1>4, <3>1 DEF Fresh, Heard, Calm
    <2>3. QED
      BY <2>2 DEF Fresh
  <1>5. QED
    BY <1>3, <1>4

\* The list that is answered was the only one.
LEMMA ListedFresh == ASSUME PanelInv, Fresh, NEW c \in calls, Listed(c) PROVE Fresh'
  <1> DEFINE rows == IF c.some THEN c.rows ELSE {}
  <1>1. /\ keys \in [Kinds -> KeyState] /\ {"delete", "list"} \subseteq Kinds
        /\ rows \in SUBSET Row /\ c.some \in BOOLEAN
    BY DEF PanelInv, Typed, Kinds, Call
  <1>2. /\ c.kind = "list" /\ c.status = "ok" /\ keys' = Succeeded(keys, "list", rows)
        /\ Send({}, calls \ {c}) /\ page' = page /\ Rest
    BY DEF Listed
  <1>3. keys'["delete"] = keys["delete"] /\ keys'["list"].result = rows
    BY <1>1, <1>2 DEF Succeeded, InitialKey
  <1>4. calls' = calls \ {c} /\ asked' = asked /\ docs' = docs
    BY <1>2 DEF Send, Rest
  <1>5. ASSUME Lone, Heard, Owed \/ Coming \/ Shown PROVE (Owed \/ Coming \/ Shown)'
    <2>1. Owed => Owed'
      BY <1>2, <1>4 DEF Owed
    <2>2. \A d \in calls' : d.kind # "list"
      BY <1>2, <1>4, <1>5 DEF Lone
    <2>3. Coming => Good(c)
      BY <1>2, <1>5 DEF Coming, Good, Lone
    <2>4. Good(c) => rows = Live(asked)
      BY <1>1, <1>2 DEF Good
    <2>5. Live(asked)' = Live(asked)
      BY <1>4 DEF Live
    <2>6. ~Shown
      BY <1>2 DEF Shown
    <2>7. QED
      BY <1>3, <1>5, <2>1, <2>2, <2>3, <2>4, <2>5, <2>6 DEF Shown
  <1>6. Stays
    BY <1>2 DEF Stays
  <1>7. QED
    BY <1>2, <1>3, <1>5, <1>6, TakenStep

LEMMA RefusedFresh == ASSUME PanelInv, Fresh, NEW c \in calls, Refused(c) PROVE Fresh'
  <1>1. /\ keys \in [Kinds -> KeyState] /\ {"delete", "list"} \subseteq Kinds
        /\ c.kind \in Kinds
    BY DEF PanelInv, Typed, Kinds, Call
  <1>2. /\ c.status = "failed" /\ keys' = Failed(keys, c.kind)
        /\ Send({}, calls \ {c}) /\ page' = page /\ Rest
    BY DEF Refused
  <1>3. /\ keys'["list"].result = keys["list"].result
        /\ keys'["delete"].isSuccess => keys["delete"].isSuccess
    BY <1>1, <1>2, ResultKept, KeysValue
  <1>4. calls' = calls \ {c} /\ asked' = asked /\ docs' = docs
    BY <1>2 DEF Send, Rest
  <1>5. ASSUME Heard, Owed \/ Coming \/ Shown PROVE (Owed \/ Coming \/ Shown)'
    <2>1. c.kind # "list"
      BY <1>2, <1>5 DEF Heard
    <2>2. Live(asked)' = Live(asked)
      BY <1>4 DEF Live
    <2>3. Owed => Owed'
      BY <1>2, <1>4 DEF Owed
    <2>4. Coming => Coming'
      BY <1>4, <2>1, <2>2 DEF Coming, Good
    <2>5. Shown => Shown'
      BY <1>3, <1>4, <2>2 DEF Shown
    <2>6. QED
      BY <1>5, <2>3, <2>4, <2>5
  <1>6. Stays
    BY <1>2 DEF Stays
  <1>7. QED
    BY <1>2, <1>3, <1>5, <1>6, TakenStep

LEMMA FreshNext == PanelInv /\ Fresh /\ [Next]_vars => Fresh'
  <1> SUFFICES ASSUME PanelInv, Fresh, [Next]_vars PROVE Fresh'
    OBVIOUS
  <1>1. ASSUME Receive PROVE Fresh'
    BY <1>1, SavedFresh, DeletedFresh, ListedFresh, RefusedFresh DEF Receive
  <1>2. ASSUME UNCHANGED vars PROVE Fresh'
    BY <1>2, QuietStep DEF vars, Stays, Rest, NothingSent
  <1>3. QED
    BY <1>1, <1>2, UserFresh, ServerFresh DEF Next

\* Once every request is answered the table shows the documents it was last
\* asked for, whatever was written meanwhile, for any collection and any number
\* of requests, unless one was lost or may have overtaken another.
THEOREM TableComesFresh == Spec => []ListFresh
  <1>1. Init => Fresh
    BY DEF Init, InitialPage, Fresh, Calm
  <1>2. PanelInv /\ Fresh => ListFresh
    BY DEF Fresh, Calm, Owed, Coming, Shown, ListFresh
  <1>3. QED
    BY <1>1, <1>2, FreshNext, PanelAlways, PTL DEF Spec
=============================================================================
