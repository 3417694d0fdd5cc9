------------------------------ MODULE ErpPages ------------------------------
(***************************************************************************)
(* The pages of invoices and quotes (list, document, update, create, record *)
(* a payment) and the links of the dashboard, over the one redux slice     *)
(* "erp" that they all share and the route they are mounted at.            *)
(*                                                                         *)
(* A step is one handler of the user or one answer, with every effect that *)
(* React runs because of it, the pages it mounts on the way included.      *)
(* What the server answers is left open: other users change the documents  *)
(* at any time, so a call may find its document or not, and a list is any  *)
(* set of documents.  A document is its identifier.                        *)
(***************************************************************************)
EXTENDS Integers, Functions

CONSTANTS
    Docs,       \* identifiers of documents
    None,
    MaxOut      \* bound on calls that are out: the user waits at it

ASSUME ErpAssumption == None \notin Docs /\ MaxOut \in Nat

VARIABLE app    \* the slice, the page and the calls that are out

Ids == Docs \union {None}
Kinds == {"list", "create", "read", "update", "delete", "pay"}
Calls == ({"list", "create"} \X {None})
             \union ({"read", "update", "delete", "pay"} \X Docs)
Routes == {"home", "list", "create", "read", "update", "pay"}

\* result: of read and create, whose results are looked at; of the others None.
Key == [current : Ids, result : Ids, isLoading : BOOLEAN, isSuccess : BOOLEAN]

\* stray, history: the last document the page took is not the one of its route.
Page == [kind : Routes, id : Ids, stray : BOOLEAN]

\* items: list.result.items; calls: how many of each are out.
App == [keys : [Kinds -> Key], current : Ids, items : SUBSET Docs,
        page : Page, modal : BOOLEAN, calls : [Calls -> Nat]]

InitialKey == [current |-> None, result |-> None, isLoading |-> FALSE,
               isSuccess |-> FALSE]

InitialApp ==
    [keys |-> [kind \in Kinds |-> InitialKey], current |-> None, items |-> {},
     page |-> [kind |-> "home", id |-> None, stray |-> FALSE],
     modal |-> FALSE, calls |-> [c \in Calls |-> 0]]

-----------------------------------------------------------------------------
(* erpReducer: what a dispatch makes of the state w. *)

ResetState(w) ==
    [w EXCEPT !.keys = InitialApp.keys, !.current = None, !.items = {}]

ResetAction(w, kind) == [w EXCEPT !.keys[kind] = InitialKey]

CurrentItem(w, d) == [w EXCEPT !.current = d]

\* The rest of the key stays, isSuccess included.
CurrentAction(w, kind, d) == [w EXCEPT !.keys[kind].current = d]

\* The key is replaced: its current is gone.
Succeeded(w, kind, d) ==
    [w EXCEPT !.keys[kind] = [InitialKey EXCEPT !.result = d, !.isSuccess = TRUE]]

Failed(w, kind) ==
    [w EXCEPT !.keys[kind].isLoading = FALSE, !.keys[kind].isSuccess = FALSE]

\* REQUEST_LOADING, and the call goes out.
Request(w, kind, id) ==
    [w EXCEPT !.keys[kind].isLoading = TRUE, !.calls[<<kind, id>>] = @ + 1]

-----------------------------------------------------------------------------
(* Pages: the state once the page is mounted and its effects have run. *)

\* The context with the modal belongs to the layout of one page.
At(w, kind, id) ==
    [w EXCEPT !.page = [kind |-> kind, id |-> id, stray |-> FALSE],
              !.modal = FALSE]

\* ErpPanel resets the slice before DataTable lists; DeleteItem still sees the
\* deletion that succeeded before, and lists too.
OpenList(w) ==
    LET listed == Request(At(ResetState(w), "list", None), "list", None)
    IN  IF w.keys["delete"].isSuccess THEN Request(listed, "list", None)
        ELSE listed

OpenRead(w, d) == Request(At(w, "read", d), "read", d)

\* A document page shows its loader, its document, or that there is none.
Shown(w) == w.keys["read"].isSuccess /\ ~w.keys["read"].isLoading

\* UpdateItem, when the update has succeeded: to the document's page.
Saved(w) == OpenRead(ResetAction(w, "update"), w.page.id)

\* The document read last is put into the form before the answer comes; an
\* UpdateItem that is rendered before the loader runs its effects.
OpenUpdate(w, d) ==
    LET asked == Request(At(w, "update", d), "read", d)
        filled == IF w.page.kind # "update" /\ w.keys["read"].result # None
                  THEN CurrentAction(asked, "update", w.keys["read"].result)
                  ELSE asked
    IN  IF Shown(w) /\ w.keys["update"].isSuccess THEN Saved(filled) ELSE filled

\* A slip: the result is read after the key was reset.
CreatedLate(w) ==
    LET reset == ResetAction(w, "create")
    IN  OpenRead(reset, reset.keys["create"].result)

\* CreateItem, when the creation has succeeded: to the new document's page.
Created(w) == OpenRead(ResetAction(w, "create"), w.keys["create"].result)

\* A slip: the page does not look at the key when it is mounted.
OpenCreateAnyway(w) == At(w, "create", None)

OpenCreate(w) ==
    IF w.keys["create"].isSuccess THEN Created(w) ELSE At(w, "create", None)

\* RecordPayment, when the payment has succeeded: to the list.
Paid(w) == OpenList(Request(ResetAction(w, "pay"), "list", None))

\* RecordPayment is mounted as soon as there is a document to show.
PayShown(w) ==
    IF w.current # None /\ w.keys["pay"].isSuccess THEN Paid(w) ELSE w

\* The document is taken from the table if it is there, and else asked for;
\* whatever the slice shows is paid.
OpenPay(w, d) ==
    PayShown(IF d \in w.items
             THEN CurrentAction(CurrentItem(At(w, "pay", d), d), "pay", d)
             ELSE CurrentAction(Request(At(w, "pay", d), "read", d),
                                "pay", w.current))

\* The dashboard, or any page that does not use the slice.
OpenHome(w) == At(w, "home", None)

-----------------------------------------------------------------------------
(* Answers: the state once the effects of the page have run. *)

Seen(w, d) == [CurrentItem(w, d) EXCEPT !.page.stray = d # w.page.id]

\* CURRENT_ITEM: the pay page follows it, and the update form does not.
Came(w, d) ==
    CASE w.page.kind = "pay" -> PayShown(CurrentAction(Seen(w, d), "pay", d))
      [] w.page.kind = "update" -> CurrentItem(w, d)
      [] OTHER -> Seen(w, d)

\* A slip: the form is left as it was mounted.
ReadOkUnfilled(w, d) ==
    LET read == Succeeded(w, "read", d)
        form == Seen(read, d)
    IN  IF w.page.kind # "update" THEN Came(read, d)
        ELSE IF w.keys["update"].isSuccess THEN Saved(form) ELSE form

\* The update page puts what was read into its form; a form mounted by it
\* finds an update that succeeded meanwhile.
ReadOk(w, d) ==
    LET read == Succeeded(w, "read", d)
        form == CurrentAction(Seen(read, d), "update", d)
    IN  IF w.page.kind # "update" THEN Came(read, d)
        ELSE IF w.keys["update"].isSuccess THEN Saved(form) ELSE form

UpdateOk(w, d) ==
    LET updated == Came(Succeeded(w, "update", None), d)
    IN  IF w.page.kind = "update" /\ Shown(w) THEN Saved(updated) ELSE updated

CreateOk(w, d) ==
    LET created == Came(Succeeded(w, "create", d), d)
    IN  IF w.page.kind = "create" THEN Created(created) ELSE created

\* The answer to a payment carries its invoice.
PayOk(w, d) == Came(Succeeded(w, "pay", None), d)

\* The pay page looks for its document in the table again.
ListOk(w, docs) ==
    LET listed == [Succeeded(w, "list", None) EXCEPT !.items = docs]
    IN  CASE w.page.kind = "pay" /\ w.page.id \in docs -> Came(listed, w.page.id)
          [] w.page.kind = "pay" /\ w.page.id \in w.items \ docs ->
                 Request(listed, "read", w.page.id)
          [] OTHER -> listed

\* DeleteItem's effect, when isSuccess or current changed: the modal closes.
DeleteOk(w) ==
    LET deleted == Succeeded(w, "delete", None)
        key == w.keys["delete"]
    IN  IF w.page.kind = "list" /\ (~key.isSuccess \/ key.current # None)
        THEN Request([deleted EXCEPT !.modal = FALSE], "list", None)
        ELSE deleted

\* Call c is answered, or not: errorHandler then makes a failure of it.
Answer(c) ==
    /\ app.calls[c] > 0
    /\ LET w == [app EXCEPT !.calls[c] = @ - 1] IN
       \/ app' = Failed(w, c[1])
       \/ c[1] = "read" /\ app' = ReadOk(w, c[2])
       \/ c[1] = "update" /\ app' = UpdateOk(w, c[2])
       \/ c[1] = "create" /\ \E d \in Docs : app' = CreateOk(w, d)
       \/ c[1] = "pay" /\ app' = PayOk(w, c[2])
       \/ c[1] = "list" /\ \E docs \in SUBSET Docs : app' = ListOk(w, docs)
       \/ c[1] = "delete" /\ app' = DeleteOk(w)

-----------------------------------------------------------------------------
(* The user, who sees a page of a kind unless the modal is over it. *)

Sees(kind) == app.page.kind = kind /\ ~app.modal

\* A row of the table, which is masked while it loads, or of the dashboard.
SeesRow(d) ==
    \/ Sees("list") /\ ~app.keys["list"].isLoading /\ d \in app.items
    \/ Sees("home")

ReadRow(d) == SeesRow(d) /\ app' = OpenRead(CurrentItem(app, d), d)

EditRow(d) ==
    SeesRow(d) /\ app' = OpenUpdate(CurrentAction(app, "update", d), d)

RecordPayment(d) ==
    /\ Sees("list") /\ SeesRow(d)
    /\ app' = OpenPay(CurrentItem(app, d), d)

\* The effect runs since current changed: after a deletion that succeeded it
\* closes the modal again, and lists.
DeleteRow(d) ==
    /\ Sees("list") /\ SeesRow(d)
    /\ LET marked == CurrentAction(app, "delete", d) IN
       app' = IF app.keys["delete"].isSuccess THEN Request(marked, "list", None)
              ELSE [marked EXCEPT !.modal = TRUE]

Confirm ==
    /\ app.modal /\ ~app.keys["delete"].isLoading
    /\ LET closed == [ResetAction(app, "delete") EXCEPT !.modal = FALSE] IN
       app' = Request(closed, "delete", app.keys["delete"].current)

Cancel ==
    /\ app.modal /\ ~app.keys["delete"].isLoading
    /\ app' = [app EXCEPT !.modal = FALSE]

\* The filter, the pages of the table and its refresh button.
Relist == Sees("list") /\ app' = Request(app, "list", None)

AddNew == Sees("list") /\ app' = OpenCreate(app)

EditShown ==
    /\ Sees("read") /\ Shown(app)
    /\ app' = OpenUpdate(CurrentAction(app, "update", app.current), app.current)

\* The button is not under the spinner: a second click sends again.
SubmitUpdate ==
    /\ Sees("update") /\ Shown(app)
    /\ app' = Request(app, "update", app.page.id)

SubmitCreate == Sees("create") /\ app' = Request(app, "create", None)

SubmitPay ==
    /\ Sees("pay") /\ app.current # None /\ ~app.keys["pay"].isLoading
    /\ app' = Request(app, "pay", app.keys["pay"].current)

\* The menu with the lists of both collections, and what closes a page.
Menu == ~app.modal /\ (app' = OpenList(app) \/ app' = OpenHome(app))

\* Back and forward lead to any page that was visited before.
History(kind, d) ==
    /\ app.page.kind # kind \/ app.page.id # d
    /\ \/ kind = "read" /\ app' = OpenRead(app, d)
       \/ kind = "update" /\ app' = OpenUpdate(app, d)
       \/ kind = "pay" /\ app' = OpenPay(app, d)
       \/ kind = "create" /\ app' = OpenCreate(app)
       \/ kind = "list" /\ app' = OpenList(app)

-----------------------------------------------------------------------------
\* The application is loaded at any of its routes.
Init ==
    \/ app = InitialApp
    \/ app = OpenList(InitialApp)
    \/ app = OpenCreate(InitialApp)
    \/ \E d \in Docs : \/ app = OpenRead(InitialApp, d)
                       \/ app = OpenUpdate(InitialApp, d)
                       \/ app = OpenPay(InitialApp, d)

Row(d) == ReadRow(d) \/ EditRow(d) \/ RecordPayment(d) \/ DeleteRow(d)

Out == FoldFunction(LAMBDA n, m : n + m, 0, app.calls)

User ==
    /\ Out < MaxOut
    /\ \/ \E d \in Docs : Row(d)
       \/ Confirm \/ Cancel \/ Relist \/ AddNew
       \/ EditShown \/ SubmitUpdate \/ SubmitCreate \/ SubmitPay
       \/ Menu
       \/ \E kind \in Routes, d \in Docs : History(kind, d)

Next == User \/ \E c \in Calls : Answer(c)

Spec == Init /\ [][Next]_app
-----------------------------------------------------------------------------
(* Properties *)

\* The slice, the route and the calls are of the shapes the pages rely on: a
\* page of a document has one, wherever the way to it was found.
TypeOK ==
    /\ app \in App
    /\ app.page.kind \in {"read", "update", "pay"} <=> app.page.id # None

\* A page that took its own document last shows it, edits it and pays it: the
\* update form is filled with the document the update is sent to, the document
\* page shows the one of its route, and the pay page the one it came for; and
\* a payment is always recorded for the invoice that is shown.
FormsAgree ==
    LET page == app.page
        put == Shown(app) /\ ~page.stray
    IN  /\ page.kind = "read" /\ put => app.current = page.id
        /\ page.kind = "update" /\ put => app.keys["update"].current = page.id
        /\ page.kind = "pay" =>
               /\ app.keys["pay"].current = app.current
               /\ put \/ (page.id \in app.items /\ ~page.stray) =>
                      app.current = page.id

\* A success is never left over on the page that waits for one, where the
\* effects on isSuccess would not run for the next: saving always leaves.
SuccessLeaves ==
    /\ app.page.kind = "create" => ~app.keys["create"].isSuccess
    /\ app.page.kind = "update" /\ Shown(app) => ~app.keys["update"].isSuccess
    /\ app.page.kind = "pay" /\ app.current # None =>
           ~app.keys["pay"].isSuccess

\* A modal that can be confirmed has a document to delete, also when the answer
\* to another deletion comes while it is open.
ModalAsks ==
    app.modal => /\ app.page.kind = "list"
                 /\ app.keys["delete"].current # None
                 /\ ~app.keys["delete"].isSuccess

\* No spinner or loader outlives the calls of its kind, wherever the answers
\* land and whichever resets happened before them.
NothingLoads ==
    \A kind \in Kinds : app.keys[kind].isLoading =>
        \E c \in Calls : c[1] = kind /\ app.calls[c] > 0

\* "Do you want delete : " is asked whenever the user wants to delete a row.
DeleteAsks == [][\A d \in Docs : DeleteRow(d) => app'.modal]_app
=============================================================================
