------------------------------ MODULE CrudPanel ------------------------------
(***************************************************************************)
(* The page of a collection (customers): its table, side panel, forms and  *)
(* delete modal, the redux slice "crud" and the panel's context they share, *)
(* and the generic controllers that answer their requests.                 *)
(*                                                                         *)
(* A step of the browser is one handler with the effects its dispatches    *)
(* trigger; React runs those before the next event of the user, who clicks *)
(* only what is visible and not under a mask.  A controller makes one call *)
(* to the database; list makes two.                                        *)
(***************************************************************************)
EXTENDS Integers, FiniteSets

CONSTANTS
    Docs,           \* identifiers
    Values,         \* contents of a document
    Filters,        \* what a text typed by the user selects: sets of Docs
    None,
    MaxCalls,       \* bound on requests: the user starts none beyond it
    MaxFailures     \* bound on requests and answers that are lost

ASSUME CrudAssumption ==
    /\ Filters \subseteq SUBSET Docs /\ Docs \in Filters
    /\ {"absent", "removed"} \intersect Values = {}
    /\ None \notin Docs \union Values \union (Docs \X Values)
    /\ MaxCalls \in Nat /\ MaxFailures \in Nat

VARIABLES
    docs,           \* the collection: a value, "absent" or "removed"
    keys, current,  \* the slice: a state per kind of request; the item shown
    box,            \* the context: what is open
    page,           \* what is mounted, the form's document
    calls, next,    \* requests in flight, numbered
    asked,          \* history: the filter of the last list requested
    raced,          \* history: requests may have overtaken each other
    failures

vars == <<docs, keys, current, box, page, calls, next, asked, raced, failures>>

Row == Docs \X Values
Kinds == {"list", "create", "update", "delete"}

KeyState == [current : Row \union {None}, result : SUBSET Row,
             isLoading : BOOLEAN, isSuccess : BOOLEAN]

\* A list is "ok" when it is both found and counted.
Call == [n : Nat, kind : Kinds, id : Docs \union {None},
         val : Values \union {None}, filter : Filters,
         status : {"sent", "found", "counted", "ok", "failed"},
         rows : SUBSET Row, some : BOOLEAN]

\* top: the collapse box shows the read and edit boxes, not the create form.
Box == [modal : BOOLEAN, panel : BOOLEAN, top : BOOLEAN, read : BOOLEAN,
        edit : BOOLEAN]

\* forms: the drawer was opened and its content is mounted since.
Page == [mounted : BOOLEAN, forms : BOOLEAN, form : Docs \union {None}]

InitialKey == [current |-> None, result |-> {}, isLoading |-> FALSE,
               isSuccess |-> FALSE]
InitialBox == [modal |-> FALSE, panel |-> FALSE, top |-> FALSE, read |-> FALSE,
               edit |-> FALSE]
InitialPage == [mounted |-> FALSE, forms |-> FALSE, form |-> None]

Live(filter) == {r \in Row : r[1] \in filter /\ docs[r[1]] = r[2]}

-----------------------------------------------------------------------------
(* crudReducer *)

Loading(k, kind) == [k EXCEPT ![kind].isLoading = TRUE]

\* A slip: the rest of the state is kept, as REQUEST_FAILED does.
SucceededOver(k, kind, rows) ==
    [k EXCEPT ![kind].result = rows, ![kind].isSuccess = TRUE]

\* The key is replaced: its current is gone.
Succeeded(k, kind, rows) ==
    [k EXCEPT ![kind] = [InitialKey EXCEPT !.result = rows, !.isSuccess = TRUE]]

Failed(k, kind) ==
    [k EXCEPT ![kind].isLoading = FALSE, ![kind].isSuccess = FALSE]

ActingOn(k, kind, row) == [k EXCEPT ![kind] = [InitialKey EXCEPT !.current = row]]

Reset(k, kind) == [k EXCEPT ![kind] = InitialKey]

(* contextReducer *)

\* A slip: the edit box stays open.
ReadOpenedOver(b) == [b EXCEPT !.read = TRUE]

ReadOpened(b) == [b EXCEPT !.read = TRUE, !.edit = FALSE]
EditOpened(b) == [b EXCEPT !.edit = TRUE, !.read = FALSE]
PanelOpened(b) == [b EXCEPT !.panel = TRUE, !.top = TRUE]

-----------------------------------------------------------------------------
NewCall(n, kind, id, val, filter) ==
    [n |-> n, kind |-> kind, id |-> id, val |-> val, filter |-> filter,
     status |-> "sent", rows |-> {}, some |-> FALSE]

\* m lists, of the whole collection.
Lists(m) == {NewCall(next + i, "list", None, None, Docs) : i \in 0 .. m - 1}

\* Answers of lists are taken as they come; of two deletions only the first
\* that succeeds asks for a list.
Races(sent, others) ==
    \E c \in sent, d \in sent \union others :
        c # d /\ c.kind = d.kind /\ c.kind \in {"list", "delete"}

Send(sent, others) ==
    /\ calls' = others \union sent
    /\ next' = next + Cardinality(sent)
    /\ asked' = IF \E c \in sent : c.kind = "list"
                THEN (CHOOSE c \in sent : c.kind = "list").filter ELSE asked
    /\ raced' = (raced \/ Races(sent, others))

Start(kind, id, val, filter) ==
    next < MaxCalls /\ Send({NewCall(next, kind, id, val, filter)}, calls)

Rest == UNCHANGED <<docs, failures>>
NothingSent == UNCHANGED <<calls, next, asked, raced>>

\* The drawer opens with the slice k.  Its forms, if they are mounted only
\* now, find what succeeded while they were not: they act on it.
OpenPanel(k, b, form) ==
    LET stale == {kind \in {"create", "update"} : ~page.forms /\ k[kind].isSuccess}
        kept == [kind \in Kinds |-> IF kind \in stale THEN InitialKey ELSE k[kind]]
    IN  /\ page' = [page EXCEPT !.forms = TRUE, !.form = form]
        /\ keys' = IF stale = {} THEN kept ELSE Loading(kept, "list")
        /\ box' = IF stale = {} THEN b ELSE PanelOpened(ReadOpened(b))
        /\ Send(Lists(Cardinality(stale)), calls)

\* The redux action of a deletion drops the document before it sends.
Deleting(k) == Loading(Reset(k, "delete"), "delete")

\* The edit form takes the fields of the item that is acted on.
FormOf(row) == IF row = None THEN None ELSE row[1]

TableUsable == page.mounted /\ ~box.panel /\ ~box.modal
PanelUsable == page.mounted /\ box.panel /\ ~box.modal
TableRows == IF TableUsable /\ ~keys["list"].isLoading THEN keys["list"].result ELSE {}
ItemUsable == PanelUsable /\ box.top /\ (box.read \/ box.edit)

-----------------------------------------------------------------------------
(* The page *)

\* CrudModule resets the slice before the effects of its parts run; a
\* deletion that had succeeded makes the modal ask for a list, too.
Mount ==
    /\ ~page.mounted /\ next < MaxCalls
    /\ page' = [InitialPage EXCEPT !.mounted = TRUE]
    /\ box' = InitialBox
    /\ keys' = Loading([kind \in Kinds |-> InitialKey], "list")
    /\ current' = None
    /\ LET m == IF keys["delete"].isSuccess THEN 2 ELSE 1 IN
           /\ calls' = calls \union Lists(m)
           /\ next' = next + m
    /\ asked' = Docs
    /\ raced' = (raced \/ calls # {} \/ keys["delete"].isSuccess)
    /\ Rest

Leave ==
    /\ page.mounted
    /\ page' = InitialPage /\ box' = InitialBox
    /\ UNCHANGED <<keys, current>> /\ NothingSent /\ Rest

\* The table is refreshed, or filtered as the user types.
Refresh(filter) ==
    /\ TableUsable
    /\ keys' = Loading(keys, "list")
    /\ Start("list", None, None, filter)
    /\ UNCHANGED <<current, box, page>> /\ Rest

ReadRow(r) ==
    /\ r \in TableRows
    /\ current' = r
    /\ OpenPanel(keys, PanelOpened(ReadOpened(box)), page.form)
    /\ Rest

EditRow(r) ==
    /\ r \in TableRows
    /\ current' = r
    /\ OpenPanel(ActingOn(keys, "update", r), PanelOpened(EditOpened(box)), FormOf(r))
    /\ Rest

DeleteRow(r) ==
    /\ r \in TableRows
    /\ keys' = ActingOn(keys, "delete", r)
    /\ box' = [box EXCEPT !.modal = TRUE]
    /\ UNCHANGED <<current, page>> /\ NothingSent /\ Rest

AddNew ==
    /\ TableUsable
    /\ OpenPanel(keys, [box EXCEPT !.panel = TRUE, !.top = FALSE], page.form)
    /\ UNCHANGED current /\ Rest

ClosePanel ==
    /\ PanelUsable
    /\ box' = [box EXCEPT !.panel = FALSE]
    /\ UNCHANGED <<keys, current, page>> /\ NothingSent /\ Rest

ToggleBox ==
    /\ PanelUsable
    /\ box' = [box EXCEPT !.top = ~@]
    /\ UNCHANGED <<keys, current, page>> /\ NothingSent /\ Rest

EditItem ==
    /\ ItemUsable
    /\ keys' = ActingOn(keys, "update", current)
    /\ box' = EditOpened(box)
    /\ page' = [page EXCEPT !.form = FormOf(current)]
    /\ UNCHANGED current /\ NothingSent /\ Rest

RemoveItem ==
    /\ ItemUsable
    /\ keys' = ActingOn(keys, "delete", current)
    /\ box' = [box EXCEPT !.modal = TRUE]
    /\ UNCHANGED <<current, page>> /\ NothingSent /\ Rest

CancelEdit ==
    /\ ItemUsable /\ box.edit
    /\ box' = ReadOpened(box)
    /\ UNCHANGED <<keys, current, page>> /\ NothingSent /\ Rest

SubmitUpdate(v) ==
    /\ ItemUsable /\ box.edit
    /\ ~keys["update"].isLoading /\ keys["update"].current # None
    /\ Start("update", keys["update"].current[1], v, Docs)
    /\ keys' = Loading(keys, "update")
    /\ UNCHANGED <<current, box, page>> /\ Rest

SubmitCreate(v) ==
    /\ PanelUsable /\ ~box.top /\ ~keys["create"].isLoading
    /\ Start("create", None, v, Docs)
    /\ keys' = Loading(keys, "create")
    /\ UNCHANGED <<current, box, page>> /\ Rest

Confirm ==
    /\ page.mounted /\ box.modal /\ keys["delete"].current # None
    /\ Start("delete", keys["delete"].current[1], None, Docs)
    /\ keys' = Deleting(keys)
    /\ box' = [box EXCEPT !.read = FALSE, !.modal = FALSE, !.panel = FALSE]
    /\ UNCHANGED <<current, page>> /\ Rest

CancelDelete ==
    /\ page.mounted /\ box.modal /\ ~keys["delete"].isLoading
    /\ box' = [box EXCEPT !.modal = FALSE]
    /\ UNCHANGED <<keys, current, page>> /\ NothingSent /\ Rest

-----------------------------------------------------------------------------
(* The controllers *)

Reply(c, status, rows) ==
    /\ calls' = (calls \ {c}) \union {[c EXCEPT !.status = status, !.rows = rows]}
    /\ UNCHANGED <<keys, current, box, page, next, asked, raced, failures>>

ServeCreate(c) == \E d \in Docs :
    /\ c.kind = "create" /\ c.status = "sent" /\ docs[d] = "absent"
    /\ docs' = [docs EXCEPT ![d] = c.val]
    /\ Reply(c, "ok", {<<d, c.val>>})

\* A slip: the filter does not ask for documents that are not removed, and
\* the body's removed is false.
ServeUpdateAny(c) ==
    /\ c.kind = "update" /\ c.status = "sent"
    /\ docs' = [docs EXCEPT ![c.id] = c.val]
    /\ Reply(c, "ok", {<<c.id, c.val>>})

ServeUpdate(c) ==
    /\ c.kind = "update" /\ c.status = "sent"
    /\ IF docs[c.id] \in Values
       THEN /\ docs' = [docs EXCEPT ![c.id] = c.val]
            /\ Reply(c, "ok", {<<c.id, c.val>>})
       ELSE UNCHANGED docs /\ Reply(c, "failed", {})

\* A document that was removed is removed again.
ServeDelete(c) ==
    /\ c.kind = "delete" /\ c.status = "sent"
    /\ docs' = [docs EXCEPT ![c.id] = "removed"]
    /\ Reply(c, "ok", {})

ListFind(c) ==
    /\ c.kind = "list" /\ c.status \in {"sent", "counted"}
    /\ Reply(c, IF c.status = "sent" THEN "found" ELSE "ok", Live(c.filter))
    /\ UNCHANGED docs

ListCount(c) ==
    /\ c.kind = "list" /\ c.status \in {"sent", "found"}
    /\ calls' = (calls \ {c}) \union
           {[c EXCEPT !.status = IF @ = "sent" THEN "counted" ELSE "ok",
                      !.some = Live(c.filter) # {}]}
    /\ UNCHANGED <<docs, keys, current, box, page, next, asked, raced, failures>>

\* The request or its answer is lost.
Lose(c) ==
    /\ c.status # "failed"
    /\ failures < MaxFailures /\ failures' = failures + 1
    /\ calls' = (calls \ {c}) \union {[c EXCEPT !.status = "failed"]}
    /\ UNCHANGED <<docs, keys, current, box, page, next, asked, raced>>

-----------------------------------------------------------------------------
(* What comes back *)

\* A slip: the table is not asked for.
SavedQuietly(c) ==
    /\ c.kind \in {"create", "update"} /\ c.status = "ok"
    /\ current' = CHOOSE r \in c.rows : TRUE
    /\ IF page.forms
       THEN /\ box' = PanelOpened(ReadOpened(box))
            /\ keys' = Reset(keys, c.kind)
            /\ page' = [page EXCEPT !.form = IF c.kind = "update" THEN None ELSE @]
       ELSE /\ keys' = Succeeded(keys, c.kind, c.rows)
            /\ UNCHANGED <<box, page>>
    /\ Send({}, calls \ {c})
    /\ Rest

\* The form that is mounted resets its key, shows the item and asks for a list.
Saved(c) ==
    /\ c.kind \in {"create", "update"} /\ c.status = "ok"
    /\ current' = CHOOSE r \in c.rows : TRUE
    /\ IF page.forms
       THEN /\ box' = PanelOpened(ReadOpened(box))
            /\ keys' = Loading(Reset(keys, c.kind), "list")
            /\ page' = [page EXCEPT !.form = IF c.kind = "update" THEN None ELSE @]
            /\ Send(Lists(1), calls \ {c})
       ELSE /\ keys' = Succeeded(keys, c.kind, c.rows)
            /\ UNCHANGED <<box, page>>
            /\ Send({}, calls \ {c})
    /\ Rest

\* The modal acts when isSuccess turns TRUE.
Deleted(c) ==
    /\ c.kind = "delete" /\ c.status = "ok"
    /\ LET k == Succeeded(keys, "delete", {}) IN
           IF page.mounted /\ ~keys["delete"].isSuccess
           THEN /\ box' = [box EXCEPT !.modal = FALSE]
                /\ keys' = Loading(k, "list")
                /\ Send(Lists(1), calls \ {c})
           ELSE /\ keys' = k
                /\ UNCHANGED box
                /\ Send({}, calls \ {c})
    /\ UNCHANGED <<current, page>> /\ Rest

Listed(c) ==
    /\ c.kind = "list" /\ c.status = "ok"
    /\ keys' = Succeeded(keys, "list", IF c.some THEN c.rows ELSE {})
    /\ Send({}, calls \ {c})
    /\ UNCHANGED <<current, box, page>> /\ Rest

Refused(c) ==
    /\ c.status = "failed"
    /\ keys' = Failed(keys, c.kind)
    /\ Send({}, calls \ {c})
    /\ UNCHANGED <<current, box, page>> /\ Rest

-----------------------------------------------------------------------------
Init ==
    /\ docs \in [Docs -> Values \union {"absent"}]
    /\ keys = [kind \in Kinds |-> InitialKey] /\ current = None
    /\ box = InitialBox /\ page = InitialPage
    /\ calls = {} /\ next = 0
    /\ asked = Docs /\ raced = FALSE /\ failures = 0

User ==
    \/ Mount \/ Leave
    \/ \E f \in Filters : Refresh(f)
    \/ \E r \in Row : ReadRow(r) \/ EditRow(r) \/ DeleteRow(r)
    \/ AddNew \/ ClosePanel \/ ToggleBox
    \/ EditItem \/ RemoveItem \/ CancelEdit
    \/ \E v \in Values : SubmitUpdate(v) \/ SubmitCreate(v)
    \/ Confirm \/ CancelDelete

Server == \E c \in calls :
    \/ ServeCreate(c) \/ ServeUpdate(c) \/ ServeDelete(c)
    \/ ListFind(c) \/ ListCount(c)
    \/ Lose(c)

Receive == \E c \in calls :
    Saved(c) \/ Deleted(c) \/ Listed(c) \/ Refused(c)

Next == User \/ Server \/ Receive

Spec == Init /\ [][Next]_vars
-----------------------------------------------------------------------------
\* A key that saves or deletes is not both done and at work.
TypeOK ==
    /\ docs \in [Docs -> Values \union {"absent", "removed"}]
    /\ keys \in [Kinds -> KeyState] /\ current \in Row \union {None}
    /\ \A kind \in {"create", "update", "delete"} :
           ~(keys[kind].isLoading /\ keys[kind].isSuccess)
    /\ box \in Box /\ page \in Page
    /\ calls \subseteq Call /\ next \in Nat
    /\ asked \in Filters /\ raced \in BOOLEAN /\ failures \in Nat

\* What the user confirms or submits is what is on the screen: an open modal
\* has a document to delete, the edit form has the values of the document it
\* will write, and that one is the item the panel names.
FormsAgree ==
    /\ box.modal => keys["delete"].current # None
    /\ box.read \/ box.edit => current # None
    /\ box.edit => /\ keys["update"].current = current
                   /\ page.form = current[1]

\* When every request is answered, none was lost and none could overtake
\* another, the table shows the documents it was last asked for.
ListFresh ==
    calls = {} /\ page.mounted /\ ~raced /\ failures = 0 =>
        keys["list"].result = Live(asked)

\* No update, however late, brings back a document that was removed.
RemovedStays ==
    [][\A d \in Docs : docs[d] = "removed" => docs'[d] = "removed"]_docs
=============================================================================
