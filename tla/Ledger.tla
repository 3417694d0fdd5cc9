------------------------------- MODULE Ledger -------------------------------
(***************************************************************************)
(* Invoices and the payments recorded against them: the handlers of        *)
(* invoiceController and paymentController of the backend.                 *)
(*                                                                         *)
(* A handler is an async function; between two awaits on MongoDB any other *)
(* request may run, so each handler is one action per database call, with  *)
(* what it read kept in its request slot.  A call on one document is       *)
(* atomic, a handler is not: there are no transactions.                    *)
(*                                                                         *)
(* Amounts are whole numbers, on which the arithmetic of currency.js and   *)
(* of doubles is exact; the body of an update may carry none.  (A null, or *)
(* a text for 0, is stored and posted as 0 alike, and not modelled.)  An   *)
(* invoice's discount is always 0: the schema of the create and update     *)
(* bodies rejects it.                                                      *)
(***************************************************************************)
EXTENDS Sums

CONSTANTS
    Invoices,       \* document ids of invoices
    Payments,       \* document ids of payments
    Requests,       \* slots for requests being served at the same time
    Totals,         \* invoice totals the items of a body can add up to
    Amounts,        \* payment amounts a body can carry
    None,           \* no document, no amount
    MaxFailures,    \* bound on database calls that fail
    MaxCredit,      \* bound on credit: beyond it no request is begun
    MaxWaived,      \* bound on waived: beyond it every body carries an amount
    Exclusive       \* TRUE: no two requests in flight write one payment

ASSUME LedgerAssumption ==
    /\ None \notin Invoices \union Payments
    /\ IsFiniteSet(Invoices) /\ IsFiniteSet(Payments)
    /\ Totals \subseteq Int
    /\ Amounts \subseteq Int
    /\ MaxFailures \in Nat /\ MaxCredit \in Nat /\ MaxWaived \in Nat
    /\ Exclusive \in BOOLEAN

VARIABLES
    invoice,    \* the Invoice collection
    payment,    \* the Payment collection
    req,        \* what each slot is doing and what its handler has read
    failures,   \* database calls that have failed
    posted,     \* history: the net credit requests posted for a payment
    waived,     \* history: what updates without an amount took off of it
    lost        \* history: payments a failed request was working on

vars == <<invoice, payment, req, failures, posted, waived, lost>>

-----------------------------------------------------------------------------
(* Documents and requests. *)

PaymentStatus == {"unpaid", "partially", "paid"}

InvoiceDoc == [state : {"absent", "live", "removed"}, total : Int,
               credit : Int, status : PaymentStatus, list : SUBSET Payments]

PaymentDoc == [state : {"absent", "live", "removed"},
               invoice : Invoices \union {None}, amount : Int]

Stage == {"idle", "invoiceWrite", "invoiceCascade",
          "createInsert", "createPost",
          "updatePopulate", "updateWrite", "updatePost",
          "removePopulate", "removeWrite", "removePost"}

Request == [pc : Stage, inv : Invoices \union {None},
            pay : Payments \union {None}, new : Int, old : Int,
            total : Int, credit : Int]

IdleRequest == [pc |-> "idle", inv |-> None, pay |-> None, new |-> 0,
                old |-> 0, total |-> 0, credit |-> 0]

Idle(r) == req[r].pc = "idle"

\* The paymentStatus a handler derives from a total and a credit.
StatusOf(total, credit) ==
    IF total = credit THEN "paid"
    ELSE IF credit > 0 THEN "partially" ELSE "unpaid"

\* A request is under way that will write payment p.
InHand(p) == \E r \in Requests : req[r].pay = p

MayWrite(p) == Exclusive => ~InHand(p)

\* Slot r answers its client and is free again.
Answer(r) == req' = [req EXCEPT ![r] = IdleRequest]

-----------------------------------------------------------------------------
(* invoiceController *)

\* create: validated, priced and saved; the pdf name set afterwards and the
\* counter of invoice numbers are not part of this module's state.
InvoiceCreate(i, t) ==
    /\ invoice[i].state = "absent"
    /\ invoice' = [invoice EXCEPT ![i] =
           [state |-> "live", total |-> t, credit |-> 0, list |-> {},
            status |-> IF t = 0 THEN "paid" ELSE "unpaid"]]
    /\ UNCHANGED <<payment, req, failures, posted, waived, lost>>

\* update: the credit is read; a removed invoice makes the handler throw.
InvoiceUpdateRead(r, i, t) ==
    /\ Idle(r)
    /\ invoice[i].state = "live"
    /\ req' = [req EXCEPT ![r] =
           [IdleRequest EXCEPT !.pc = "invoiceWrite", !.inv = i, !.total = t,
                               !.credit = invoice[i].credit]]
    /\ UNCHANGED <<invoice, payment, failures, posted, waived, lost>>

\* A slip: the status is left as it was.
InvoiceUpdateWriteTotal(r) ==
    /\ req[r].pc = "invoiceWrite"
    /\ invoice' = [invoice EXCEPT ![req[r].inv].total =
           IF invoice[req[r].inv].state = "live" THEN req[r].total ELSE @]
    /\ Answer(r)
    /\ UNCHANGED <<payment, failures, posted, waived, lost>>

\* update: total and status are written if the invoice is still there.
InvoiceUpdateWrite(r) == LET q == req[r] IN
    /\ q.pc = "invoiceWrite"
    /\ invoice' = [invoice EXCEPT ![q.inv] =
           IF @.state = "live"
           THEN [@ EXCEPT !.total = q.total,
                          !.status = StatusOf(q.total, q.credit)]
           ELSE @]
    /\ Answer(r)
    /\ UNCHANGED <<payment, failures, posted, waived, lost>>

\* remove: the invoice is marked removed.
InvoiceRemove(r, i) ==
    /\ Idle(r)
    /\ invoice[i].state = "live"
    /\ invoice' = [invoice EXCEPT ![i].state = "removed"]
    /\ req' = [req EXCEPT ![r] =
           [IdleRequest EXCEPT !.pc = "invoiceCascade", !.inv = i]]
    /\ UNCHANGED <<payment, failures, posted, waived, lost>>

\* A slip: the payments are left alone.
InvoiceCascadeNothing(r) ==
    /\ req[r].pc = "invoiceCascade"
    /\ Answer(r)
    /\ UNCHANGED <<invoice, payment, failures, posted, waived, lost>>

\* remove: then every payment that names it is.
InvoiceCascade(r) ==
    /\ req[r].pc = "invoiceCascade"
    /\ payment' = [p \in Payments |->
           IF payment[p].invoice = req[r].inv
           THEN [payment[p] EXCEPT !.state = "removed"] ELSE payment[p]]
    /\ Answer(r)
    /\ UNCHANGED <<invoice, failures, posted, waived, lost>>

-----------------------------------------------------------------------------
(* paymentController/create *)

\* The invoice is read; amounts of 0 and above what is left are refused.
\* The id of the document to insert is drawn by the driver, fresh.
PaymentCreateRead(r, i, p, a) ==
    /\ Idle(r)
    /\ payment[p].state = "absent" /\ ~InHand(p)
    /\ a # 0
    /\ invoice[i].state = "live"
    /\ a <= invoice[i].total - invoice[i].credit
    /\ req' = [req EXCEPT ![r] =
           [IdleRequest EXCEPT !.pc = "createInsert", !.inv = i, !.pay = p,
                               !.new = a, !.total = invoice[i].total,
                               !.credit = invoice[i].credit]]
    /\ UNCHANGED <<invoice, payment, failures, posted, waived, lost>>

\* A slip: the handler answers without touching the invoice.
PaymentCreateInsertOnly(r) == LET q == req[r] IN
    /\ q.pc = "createInsert"
    /\ payment' = [payment EXCEPT ![q.pay] =
           [state |-> "live", invoice |-> q.inv, amount |-> q.new]]
    /\ Answer(r)
    /\ UNCHANGED <<invoice, failures, posted, waived, lost>>

\* The payment is inserted; its pdf name follows.
PaymentCreateInsert(r) == LET q == req[r] IN
    /\ q.pc = "createInsert"
    /\ payment' = [payment EXCEPT ![q.pay] =
           [state |-> "live", invoice |-> q.inv, amount |-> q.new]]
    /\ req' = [req EXCEPT ![r].pc = "createPost"]
    /\ UNCHANGED <<invoice, failures, posted, waived, lost>>

\* A slip: the credit read earlier is written back instead of incremented.
PostBySet(r, i, p, d, list) ==
    /\ invoice' = [invoice EXCEPT
           ![i].credit = req[r].credit + d,
           ![i].list = list,
           ![i].status = StatusOf(req[r].total, req[r].credit + d)]
    /\ posted' = [posted EXCEPT ![p] = @ + d]
    /\ Answer(r)
    /\ UNCHANGED <<payment, failures, lost>>

\* Invoice i receives amount d for payment p; its status is the one the
\* handler derived from the total and the credit it read at its start.
Post(r, i, p, d, list) ==
    /\ invoice' = [invoice EXCEPT
           ![i].credit = @ + d,
           ![i].list = list,
           ![i].status = StatusOf(req[r].total, req[r].credit + d)]
    /\ posted' = [posted EXCEPT ![p] = @ + d]
    /\ Answer(r)
    /\ UNCHANGED <<payment, failures, lost>>

\* A slip: the invoice's own id is pushed on its list.
PaymentCreatePostOfInvoice(r) == LET q == req[r] IN
    /\ q.pc = "createPost"
    /\ Post(r, q.inv, q.pay, q.new, invoice[q.inv].list \union {q.inv})
    /\ UNCHANGED waived

PaymentCreatePost(r) == LET q == req[r] IN
    /\ q.pc = "createPost"
    /\ Post(r, q.inv, q.pay, q.new, invoice[q.inv].list \union {q.pay})
    /\ UNCHANGED waived

-----------------------------------------------------------------------------
(* paymentController/update *)

\* An amount of 0 is refused, and an absent one, which sub() takes for 0, is
\* not: new is 0 in the request of a body that carries none.
PaymentUpdateRead(r, p, a) ==
    /\ Idle(r)
    /\ MayWrite(p)
    /\ a # 0
    /\ payment[p].state = "live"
    /\ req' = [req EXCEPT ![r] =
           [IdleRequest EXCEPT !.pc = "updatePopulate", !.pay = p,
                               !.new = IF a = None THEN 0 ELSE a,
                               !.inv = payment[p].invoice,
                               !.old = payment[p].amount]]
    /\ UNCHANGED <<invoice, payment, failures, posted, waived, lost>>

\* A slip: the raise is held against the total, not what is left of it.
PaymentUpdatePopulateByTotal(r) == LET q == req[r] doc == invoice[q.inv] IN
    /\ q.pc = "updatePopulate"
    /\ \/ /\ q.new - q.old > doc.total
          /\ Answer(r)
       \/ /\ q.new - q.old <= doc.total
          /\ req' = [req EXCEPT ![r] = [q EXCEPT !.pc = "updateWrite",
                         !.total = doc.total, !.credit = doc.credit]]
    /\ UNCHANGED <<invoice, payment, failures, posted, waived, lost>>

\* mongoose-autopopulate fetches the invoice with a query of its own, removed
\* or not; a raise by more than what is left is refused.
PaymentUpdatePopulate(r) == LET q == req[r] doc == invoice[q.inv] IN
    /\ q.pc = "updatePopulate"
    /\ \/ /\ q.new - q.old > doc.total - doc.credit
          /\ Answer(r)
       \/ /\ q.new - q.old <= doc.total - doc.credit
          /\ req' = [req EXCEPT ![r] = [q EXCEPT !.pc = "updateWrite",
                         !.total = doc.total, !.credit = doc.credit]]
    /\ UNCHANGED <<invoice, payment, failures, posted, waived, lost>>

\* $set leaves out what the body does not carry.
Written(q, amount) == IF q.new = 0 THEN amount ELSE q.new

\* A slip: the filter on removed payments is forgotten.
PaymentUpdateWriteAny(r) == LET q == req[r] IN
    /\ q.pc = "updateWrite"
    /\ payment' = [payment EXCEPT ![q.pay].amount = Written(q, @)]
    /\ req' = [req EXCEPT ![r].pc = "updatePost"]
    /\ UNCHANGED <<invoice, failures, posted, waived, lost>>

\* The amount is written if the payment is still there, else the handler
\* throws on the null result before it reaches the invoice.
PaymentUpdateWrite(r) == LET q == req[r] IN
    /\ q.pc = "updateWrite"
    /\ \/ /\ payment[q.pay].state = "live"
          /\ payment' = [payment EXCEPT ![q.pay].amount = Written(q, @)]
          /\ req' = [req EXCEPT ![r].pc = "updatePost"]
       \/ /\ payment[q.pay].state # "live"
          /\ Answer(r)
          /\ UNCHANGED payment
    /\ UNCHANGED <<invoice, failures, posted, waived, lost>>

\* A slip: the new amount is posted on top of the old one.
PaymentUpdatePostWhole(r) == LET q == req[r] IN
    /\ q.pc = "updatePost"
    /\ Post(r, q.inv, q.pay, q.new, invoice[q.inv].list)
    /\ UNCHANGED waived

\* The difference is posted: without an amount all of the old one comes off
\* the credit, of a payment that stands at it.
PaymentUpdatePost(r) == LET q == req[r] IN
    /\ q.pc = "updatePost"
    /\ Post(r, q.inv, q.pay, q.new - q.old, invoice[q.inv].list)
    /\ waived' = [waived EXCEPT ![q.pay] = IF q.new = 0 THEN @ + q.old ELSE @]

-----------------------------------------------------------------------------
(* paymentController/remove *)

PaymentRemoveRead(r, p) ==
    /\ Idle(r)
    /\ MayWrite(p)
    /\ payment[p].state = "live"
    /\ req' = [req EXCEPT ![r] =
           [IdleRequest EXCEPT !.pc = "removePopulate", !.pay = p,
                               !.inv = payment[p].invoice,
                               !.old = payment[p].amount]]
    /\ UNCHANGED <<invoice, payment, failures, posted, waived, lost>>

PaymentRemovePopulate(r) == LET doc == invoice[req[r].inv] IN
    /\ req[r].pc = "removePopulate"
    /\ req' = [req EXCEPT ![r] = [@ EXCEPT !.pc = "removeWrite",
                   !.total = doc.total, !.credit = doc.credit]]
    /\ UNCHANGED <<invoice, payment, failures, posted, waived, lost>>

\* The update matches live payments only, but its result is not looked at:
\* the handler goes on when it matched nothing.
PaymentRemoveWrite(r) == LET p == req[r].pay IN
    /\ req[r].pc = "removeWrite"
    /\ payment' = [payment EXCEPT ![p].state = "removed"]
    /\ req' = [req EXCEPT ![r].pc = "removePost"]
    /\ UNCHANGED <<invoice, failures, posted, waived, lost>>

\* A slip: the payment is not pulled from the list.
PaymentRemovePostUnpulled(r) == LET q == req[r] IN
    /\ q.pc = "removePost"
    /\ Post(r, q.inv, q.pay, -q.old, invoice[q.inv].list)
    /\ UNCHANGED waived

\* A slip: the payment is pulled but its amount stays in the credit.
PaymentRemovePostUndeducted(r) == LET q == req[r] IN
    /\ q.pc = "removePost"
    /\ Post(r, q.inv, q.pay, 0, invoice[q.inv].list \ {q.pay})
    /\ UNCHANGED waived

PaymentRemovePost(r) == LET q == req[r] IN
    /\ q.pc = "removePost"
    /\ Post(r, q.inv, q.pay, -q.old, invoice[q.inv].list \ {q.pay})
    /\ UNCHANGED waived

-----------------------------------------------------------------------------
(* A call fails or the process dies: the rest of the handler never runs. *)
RequestFail(r) ==
    /\ ~Idle(r)
    /\ failures < MaxFailures
    /\ failures' = failures + 1
    /\ lost' = lost \union ({req[r].pay} \ {None})
    /\ Answer(r)
    /\ UNCHANGED <<invoice, payment, posted, waived>>

-----------------------------------------------------------------------------
Init ==
    /\ invoice = [i \in Invoices |-> [state |-> "absent", total |-> 0,
                     credit |-> 0, status |-> "unpaid", list |-> {}]]
    /\ payment = [p \in Payments |-> [state |-> "absent", invoice |-> None,
                                      amount |-> 0]]
    /\ req = [r \in Requests |-> IdleRequest]
    /\ failures = 0
    /\ posted = [p \in Payments |-> 0]
    /\ waived = [p \in Payments |-> 0]
    /\ lost = {}

\* A client sends slot r a request.
Begin(r) ==
    /\ \A i \in Invoices : invoice[i].credit \in -MaxCredit..MaxCredit
    /\ \/ \E i \in Invoices, t \in Totals : InvoiceUpdateRead(r, i, t)
       \/ \E i \in Invoices : InvoiceRemove(r, i)
       \/ \E i \in Invoices, p \in Payments, a \in Amounts :
              PaymentCreateRead(r, i, p, a)
       \/ \E p \in Payments, a \in Amounts \union {None} :
              /\ a = None => waived[p] \in -MaxWaived..MaxWaived
              /\ PaymentUpdateRead(r, p, a)
       \/ \E p \in Payments : PaymentRemoveRead(r, p)

\* The handler in slot r makes its next database call.
Continue(r) ==
    \/ InvoiceUpdateWrite(r)
    \/ InvoiceCascade(r)
    \/ PaymentCreateInsert(r)
    \/ PaymentCreatePost(r)
    \/ PaymentUpdatePopulate(r)
    \/ PaymentUpdateWrite(r)
    \/ PaymentUpdatePost(r)
    \/ PaymentRemovePopulate(r)
    \/ PaymentRemoveWrite(r)
    \/ PaymentRemovePost(r)

Next ==
    \/ \E i \in Invoices, t \in Totals : InvoiceCreate(i, t)
    \/ \E r \in Requests : Begin(r) \/ Continue(r) \/ RequestFail(r)

Spec == Init /\ [][Next]_vars

\* A handler that is waiting on the database is resumed.
Fairness == \A r \in Requests : WF_vars(Continue(r))

FairSpec == Spec /\ Fairness
-----------------------------------------------------------------------------
(* What the dashboard shows: the summaries of the two collections. *)

LiveInvoices == {i \in Invoices : invoice[i].state = "live"}
LivePayments == {p \in Payments : payment[p].state = "live"}
PaymentsOf(i) == {p \in LivePayments : payment[p].invoice = i}

AmountOf(ps) == SumOver([p \in Payments |-> payment[p].amount], ps)

\* invoice/summary: total.
TotalInvoiced == SumOver([i \in Invoices |-> invoice[i].total], LiveInvoices)

\* invoice/summary: total_undue.
TotalUndue ==
    SumOver([i \in Invoices |-> invoice[i].total - invoice[i].credit],
        {i \in LiveInvoices : invoice[i].status \in {"unpaid", "partially"}})

\* payment/summary: total.
TotalReceived == AmountOf(LivePayments)

\* What updates without an amount took off the credit of invoice i.
WaivedOf(i) == SumOver(waived, {p \in Payments : payment[p].invoice = i})

-----------------------------------------------------------------------------
(* Properties. *)

\* Every document and request is one the schemas and handlers can produce.
TypeOK ==
    /\ invoice \in [Invoices -> InvoiceDoc]
    /\ payment \in [Payments -> PaymentDoc]
    /\ req \in [Requests -> Request]
    /\ failures \in Nat
    /\ posted \in [Payments -> Int]
    /\ waived \in [Payments -> Int]
    /\ lost \subseteq Payments

Quiet == \A r \in Requests : Idle(r)

\* With no request in flight, the credit of a live invoice is the sum of its
\* live payments, less exactly what updates without an amount took off it, and
\* its payment list names exactly those payments, except on invoices one of
\* whose payments a failed request was working on.  The handlers keep credit,
\* list and payment documents in step by separate writes.
LedgerAgrees ==
    Quiet => \A i \in LiveInvoices :
        (\A p \in lost : payment[p].invoice # i)
            => /\ invoice[i].list = PaymentsOf(i)
               /\ invoice[i].credit = AmountOf(PaymentsOf(i)) - WaivedOf(i)

\* With no request in flight, the status of a live invoice is the one its
\* total and its credit call for, whichever of the five handlers wrote last.
StatusAgrees ==
    Quiet => \A i \in LiveInvoices : LET doc == invoice[i] IN
        /\ doc.status = "paid" <=> doc.total = doc.credit
        /\ doc.status = "partially" => doc.credit > 0
        /\ doc.status = "unpaid" => doc.credit <= 0

\* With no request in flight, the three totals of the dashboard add up while no
\* call failed: what is due and what was received make what was invoiced and
\* what updates without an amount took off the invoices that are there.
DashboardAddsUp ==
    Quiet /\ failures = 0 =>
        TotalUndue + TotalReceived =
            TotalInvoiced + SumOver([i \in Invoices |-> WaivedOf(i)], LiveInvoices)

\* A payment that is recorded or corrected does not raise the credit of an
\* invoice above its total, the maximum those handlers quote when they refuse
\* an amount.  (Removing a refund may: it is not a payment.)
NoOverpayment ==
    [][\A r \in Requests :
           /\ req[r].pc \in {"createPost", "updatePost"}
           /\ invoice'[req[r].inv].credit > invoice[req[r].inv].credit
           /\ Idle(r)'
           => invoice'[req[r].inv].credit <= invoice[req[r].inv].total]_vars

RemovedKept ==
    /\ \A i \in Invoices : invoice[i].state = "removed" =>
           /\ invoice'[i].state = "removed"
           /\ invoice'[i].total = invoice[i].total
    /\ \A p \in Payments :
           payment[p].state = "removed" => payment'[p] = payment[p]

\* What is removed stays removed and keeps its amounts, even when a handler
\* that read it before it was removed writes afterwards.
RemovedIsFinal == [][RemovedKept]_vars

\* What stands for payment p on its invoice, but for what was waived.
Entered(p) == posted[p] + waived[p]

Entries == [p \in Payments |-> Entered(p)]

\* Between requests, what was posted for a payment is its amount while it is
\* live and nothing once it is removed from a live invoice, less what updates
\* without an amount took off; only payments a failed request was working on
\* may differ.
Accounted ==
    \A p \in Payments \ lost : ~InHand(p) =>
        /\ payment[p].state = "live" => Entered(p) = payment[p].amount
        /\ payment[p].state = "absent" => Entered(p) = 0
        /\ /\ payment[p].state = "removed"
           /\ invoice[payment[p].invoice].state = "live"
           => Entered(p) = 0

\* payment/remove, "If no results found, return document not found": a remove
\* whose update matched no live payment answers and posts nothing.
NotFoundIsAnswered ==
    [][\A r \in Requests :
           /\ req[r].pc = "removeWrite"
           /\ payment[req[r].pay].state # "live"
           /\ req'[r] # req[r]
           => req'[r].pc = "idle"]_vars

\* A live payment gets on the list of its invoice, or is removed.
PaymentsGetListed ==
    \A p \in Payments : payment[p].state = "live"
        ~> \/ \E i \in Invoices : p \in invoice[i].list
           \/ payment[p].state = "removed"

\* The book the documents keep: a struck payment is off every list, and no
\* request is left that could still put it on one.
Struck == {p \in Payments :
    /\ payment[p].state = "removed"
    /\ ~InHand(p)
    /\ \A i \in Invoices : p \notin invoice[i].list}

Book == INSTANCE LedgerBook WITH
    page <- [i \in Invoices |-> invoice[i].list],
    balance <- [i \in Invoices |-> invoice[i].credit],
    entry <- Entries,
    struck <- Struck

\* The handlers implement the book: every write to an invoice enters, corrects,
\* waives or strikes one payment, once, at the amount that stands for it.
BookSpec == Book!BookSpec
=============================================================================
