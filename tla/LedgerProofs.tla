---------------------------- MODULE LedgerProofs ----------------------------
(***************************************************************************)
(* Theorems about Ledger, for every set of documents and requests.         *)
(***************************************************************************)
EXTENDS Ledger, SumsProofs

-----------------------------------------------------------------------------
(* Types, strengthened: a handler past its first step holds real documents. *)

PaymentStage == {"createInsert", "createPost",
                 "updatePopulate", "updateWrite", "updatePost",
                 "removePopulate", "removeWrite", "removePost"}

\* A request record a handler can have built.
Fits(q) ==
    /\ q \in Request
    /\ q.pc = "idle" => q.pay = None
    /\ q.pc \in {"invoiceWrite", "invoiceCascade"} =>
           q.inv \in Invoices /\ q.pay = None
    /\ q.pc \in PaymentStage => q.inv \in Invoices /\ q.pay \in Payments

PaymentOK == \A p \in Payments :
    payment[p].state = "live" => payment[p].invoice \in Invoices

Typed == TypeOK /\ PaymentOK /\ \A r \in Requests : Fits(req[r])

LEMMA IdleFits == Fits(IdleRequest) /\ IdleRequest.pc = "idle"
  BY DEF Fits, IdleRequest, Request, Stage, PaymentStage

LEMMA InitTyped == Init => Typed
  BY LedgerAssumption, IdleFits DEF Init, Typed, TypeOK, PaymentOK,
     InvoiceDoc, PaymentDoc, PaymentStatus, Fits

LEMMA StatusType == \A t, c : StatusOf(t, c) \in PaymentStatus
  BY DEF StatusOf, PaymentStatus

\* A step that moves one request, each collection keeping its types.
LEMMA StepTyped ==
    ASSUME Typed, NEW r \in Requests, NEW q, Fits(q),
           req' = [req EXCEPT ![r] = q],
           invoice' \in [Invoices -> InvoiceDoc],
           payment' \in [Payments -> PaymentDoc], PaymentOK',
           failures' \in Nat, posted' \in [Payments -> Int],
           waived' \in [Payments -> Int], lost' \in SUBSET Payments
    PROVE  Typed'
  BY DEF Typed, TypeOK, Fits

\* Reading only: the collections stay as they are.
LEMMA ReadTyped ==
    ASSUME Typed, NEW r \in Requests, NEW q, Fits(q),
           req' = [req EXCEPT ![r] = q],
           UNCHANGED <<invoice, payment, failures, posted, waived, lost>>
    PROVE  Typed'
  BY StepTyped DEF Typed, TypeOK, PaymentOK

\* What the payment handlers do to the invoice keeps the types.
LEMMA PostTyped ==
    ASSUME Typed, NEW r \in Requests, NEW i \in Invoices, NEW p \in Payments,
           NEW d \in Int, NEW l \in SUBSET Payments, Post(r, i, p, d, l),
           waived' \in [Payments -> Int]
    PROVE  Typed'
  <1>1. invoice' \in [Invoices -> InvoiceDoc]
    <2> DEFINE st == StatusOf(req[r].total, req[r].credit + d)
               c == invoice[i].credit + d
    <2>1. st \in PaymentStatus /\ c \in Int
      BY StatusType DEF Typed, TypeOK, InvoiceDoc
    <2>2. invoice' = [invoice EXCEPT ![i].credit = c, ![i].list = l,
                                     ![i].status = st]
      BY DEF Post
    <2> HIDE DEF st, c
    <2>3. invoice[i] \in InvoiceDoc
      BY DEF Typed, TypeOK
    <2>4. [invoice[i] EXCEPT !.credit = c, !.list = l, !.status = st]
              \in InvoiceDoc
      BY <2>1, <2>3 DEF InvoiceDoc
    <2>5. QED
      BY <2>2, <2>4 DEF Typed, TypeOK
  <1>2. posted' \in [Payments -> Int]
    BY DEF Typed, TypeOK, Post
  <1>3. QED
    BY <1>1, <1>2, StepTyped, IdleFits
    DEF Typed, TypeOK, PaymentOK, Post, Answer

LEMMA NextTyped == Typed /\ [Next]_vars => Typed'
  <1> SUFFICES ASSUME Typed, [Next]_vars PROVE Typed'
    OBVIOUS
  <1>1. ASSUME NEW i \in Invoices, NEW t \in Totals, InvoiceCreate(i, t)
        PROVE  Typed'
    <2> DEFINE s == IF t = 0 THEN "paid" ELSE "unpaid"
               doc == [state |-> "live", total |-> t, credit |-> 0,
                       list |-> {}, status |-> s]
    <2>0. t \in Int /\ s \in PaymentStatus /\ {} \in SUBSET Payments
      BY LedgerAssumption DEF PaymentStatus
    <2> HIDE DEF s
    <2>1. doc \in InvoiceDoc
      BY <2>0 DEF InvoiceDoc
    <2>2. invoice' = [invoice EXCEPT ![i] = doc]
      BY <1>1 DEF InvoiceCreate, s
    <2> HIDE DEF doc
    <2>3. TypeOK'
      BY <1>1, <2>1, <2>2 DEF InvoiceCreate, Typed, TypeOK
    <2>4. QED
      BY <1>1, <2>3 DEF InvoiceCreate, Typed, PaymentOK, Fits
  <1> USE LedgerAssumption
  <1>2. ASSUME NEW r \in Requests, NEW i \in Invoices, NEW t \in Totals,
               InvoiceUpdateRead(r, i, t)
        PROVE  Typed'
    <2> DEFINE q == [IdleRequest EXCEPT !.pc = "invoiceWrite", !.inv = i,
                         !.total = t, !.credit = invoice[i].credit]
    <2>1. Fits(q)
      <3>1. invoice[i].total \in Int /\ invoice[i].credit \in Int
        BY DEF Typed, TypeOK, InvoiceDoc
      <3>2. QED
        BY <3>1, IdleFits DEF Fits, Request, Stage, PaymentStage
    <2>2. QED
      BY <1>2, <2>1, ReadTyped DEF InvoiceUpdateRead
  <1>3. ASSUME NEW r \in Requests, InvoiceUpdateWrite(r)
        PROVE  Typed'
    <2> DEFINE i == req[r].inv
               t == req[r].total
               st == StatusOf(t, req[r].credit)
               doc == [invoice[i] EXCEPT !.total = t, !.status = st]
    <2>1. i \in Invoices /\ t \in Int /\ st \in PaymentStatus
      BY <1>3, StatusType DEF InvoiceUpdateWrite, Typed, TypeOK, Fits, Request
    <2>2. invoice' = [invoice EXCEPT ![i] =
              IF invoice[i].state = "live" THEN doc ELSE invoice[i]]
      BY <1>3 DEF InvoiceUpdateWrite
    <2> HIDE DEF i, t, st
    <2>3. doc \in InvoiceDoc
      BY <2>1 DEF Typed, TypeOK, InvoiceDoc
    <2> HIDE DEF doc
    <2>4. invoice' \in [Invoices -> InvoiceDoc]
      BY <2>1, <2>2, <2>3 DEF Typed, TypeOK
    <2>5. QED
      BY <1>3, <2>4, StepTyped, IdleFits
      DEF InvoiceUpdateWrite, Answer, Typed, TypeOK, PaymentOK
  <1>4. ASSUME NEW r \in Requests, NEW i \in Invoices, InvoiceRemove(r, i)
        PROVE  Typed'
    <2> DEFINE q == [IdleRequest EXCEPT !.pc = "invoiceCascade", !.inv = i]
    <2>1. Fits(q)
      BY IdleFits DEF Fits, Request, Stage, PaymentStage
    <2>2. invoice' \in [Invoices -> InvoiceDoc]
      BY <1>4 DEF InvoiceRemove, Typed, TypeOK, InvoiceDoc
    <2>3. QED
      BY <1>4, <2>1, <2>2, StepTyped
      DEF InvoiceRemove, Typed, TypeOK, PaymentOK
  <1>5. ASSUME NEW r \in Requests, InvoiceCascade(r)
        PROVE  Typed'
    <2>1. payment' \in [Payments -> PaymentDoc] /\ PaymentOK'
      BY <1>5 DEF InvoiceCascade, Typed, TypeOK, PaymentOK, PaymentDoc, Fits
    <2>2. QED
      BY <1>5, <2>1, StepTyped, IdleFits
      DEF InvoiceCascade, Answer, Typed, TypeOK
  <1>6. ASSUME NEW r \in Requests, NEW i \in Invoices, NEW p \in Payments,
               NEW a \in Amounts, PaymentCreateRead(r, i, p, a)
        PROVE  Typed'
    <2> DEFINE q == [IdleRequest EXCEPT !.pc = "createInsert", !.inv = i,
                         !.pay = p, !.new = a, !.total = invoice[i].total,
                         !.credit = invoice[i].credit]
    <2>1. Fits(q)
      <3>1. invoice[i].total \in Int /\ invoice[i].credit \in Int
        BY DEF Typed, TypeOK, InvoiceDoc
      <3>2. QED
        BY <3>1, IdleFits DEF Fits, Request, Stage, PaymentStage
    <2>2. QED
      BY <1>6, <2>1, ReadTyped DEF PaymentCreateRead
  <1>7. ASSUME NEW r \in Requests, PaymentCreateInsert(r)
        PROVE  Typed'
    <2> DEFINE q == [req[r] EXCEPT !.pc = "createPost"]
    <2>1. Fits(q)
      BY <1>7 DEF PaymentCreateInsert, Typed, TypeOK, Fits, Request, Stage,
         PaymentStage
    <2>2. payment' \in [Payments -> PaymentDoc] /\ PaymentOK'
      BY <1>7 DEF PaymentCreateInsert, Typed, TypeOK, PaymentOK, PaymentDoc,
         Fits, Request, PaymentStage
    <2>3. QED
      BY <1>7, <2>1, <2>2, StepTyped DEF PaymentCreateInsert, Typed, TypeOK
  <1>8. ASSUME NEW r \in Requests, PaymentCreatePost(r)
        PROVE  Typed'
    <2>1. /\ req[r].inv \in Invoices /\ req[r].pay \in Payments
          /\ req[r].new \in Int
          /\ invoice[req[r].inv].list \union {req[r].pay} \in SUBSET Payments
      BY <1>8 DEF PaymentCreatePost, Typed, TypeOK, Fits, PaymentStage,
         InvoiceDoc, Request
    <2>2. QED
      BY <1>8, <2>1, PostTyped DEF PaymentCreatePost, Typed, TypeOK
  <1>9. ASSUME NEW r \in Requests, NEW p \in Payments,
               NEW a \in Amounts \union {None}, PaymentUpdateRead(r, p, a)
        PROVE  Typed'
    <2> DEFINE new == IF a = None THEN 0 ELSE a
               q == [IdleRequest EXCEPT !.pc = "updatePopulate", !.pay = p,
                         !.new = new, !.inv = payment[p].invoice,
                         !.old = payment[p].amount]
    <2>1. Fits(q)
      <3>1. payment[p].invoice \in Invoices /\ payment[p].amount \in Int
            /\ new \in Int
        BY <1>9 DEF PaymentUpdateRead, Typed, TypeOK, PaymentOK, PaymentDoc
      <3> HIDE DEF new
      <3>2. QED
        BY <3>1, IdleFits DEF Fits, Request, Stage, PaymentStage
    <2>2. QED
      BY <1>9, <2>1, ReadTyped DEF PaymentUpdateRead
  <1>10. ASSUME NEW r \in Requests, PaymentUpdatePopulate(r)
         PROVE  Typed'
    <2> DEFINE doc == invoice[req[r].inv]
               q == [req[r] EXCEPT !.pc = "updateWrite", !.total = doc.total,
                                   !.credit = doc.credit]
    <2>1. Fits(q)
      BY <1>10 DEF PaymentUpdatePopulate, Typed, TypeOK, InvoiceDoc, Fits,
         Request, Stage, PaymentStage
    <2>2. CASE Answer(r)
      BY <1>10, <2>2, ReadTyped, IdleFits DEF PaymentUpdatePopulate, Answer
    <2>3. CASE req' = [req EXCEPT ![r] = q]
      BY <1>10, <2>1, <2>3, ReadTyped DEF PaymentUpdatePopulate
    <2>4. QED
      BY <1>10, <2>2, <2>3 DEF PaymentUpdatePopulate
  <1>11. ASSUME NEW r \in Requests, PaymentUpdateWrite(r)
         PROVE  Typed'
    <2> DEFINE q == [req[r] EXCEPT !.pc = "updatePost"]
    <2>1. CASE UNCHANGED payment /\ Answer(r)
      BY <1>11, <2>1, ReadTyped, IdleFits DEF PaymentUpdateWrite, Answer
    <2> DEFINE new == Written(req[r], payment[req[r].pay].amount)
    <2>2. CASE /\ payment' = [payment EXCEPT ![req[r].pay].amount = new]
               /\ req' = [req EXCEPT ![r].pc = "updatePost"]
      <3>0. new \in Int /\ req[r].pay \in Payments
        BY <1>11 DEF PaymentUpdateWrite, Typed, TypeOK, Fits, PaymentStage,
           Request, Written, PaymentDoc
      <3> HIDE DEF new
      <3>1. Fits(q)
        BY <1>11 DEF PaymentUpdateWrite, Typed, TypeOK, Fits, Request, Stage,
           PaymentStage
      <3>2. payment' \in [Payments -> PaymentDoc] /\ PaymentOK'
        BY <2>2, <3>0 DEF Typed, TypeOK, PaymentOK, PaymentDoc
      <3>3. QED
        BY <1>11, <2>2, <3>1, <3>2, StepTyped
        DEF PaymentUpdateWrite, Typed, TypeOK
    <2>3. QED
      BY <1>11, <2>1, <2>2 DEF PaymentUpdateWrite
  <1>12. ASSUME NEW r \in Requests, PaymentUpdatePost(r)
         PROVE  Typed'
    <2>1. /\ req[r].inv \in Invoices /\ req[r].pay \in Payments
          /\ req[r].new - req[r].old \in Int
          /\ invoice[req[r].inv].list \in SUBSET Payments
      BY <1>12 DEF PaymentUpdatePost, Typed, TypeOK, Fits, PaymentStage,
         InvoiceDoc, Request
    <2>2. req[r].old \in Int
      BY DEF Typed, TypeOK, Request
    <2>3. waived' \in [Payments -> Int]
      BY <1>12, <2>1, <2>2 DEF PaymentUpdatePost, Typed, TypeOK
    <2>4. QED
      BY <1>12, <2>1, <2>3, PostTyped DEF PaymentUpdatePost
  <1>13. ASSUME NEW r \in Requests, NEW p \in Payments, PaymentRemoveRead(r, p)
         PROVE  Typed'
    <2> DEFINE q == [IdleRequest EXCEPT !.pc = "removePopulate", !.pay = p,
                         !.inv = payment[p].invoice, !.old = payment[p].amount]
    <2>1. Fits(q)
      <3>1. payment[p].invoice \in Invoices /\ payment[p].amount \in Int
        BY <1>13 DEF PaymentRemoveRead, Typed, TypeOK, PaymentOK, PaymentDoc
      <3>2. QED
        BY <3>1, IdleFits DEF Fits, Request, Stage, PaymentStage
    <2>2. QED
      BY <1>13, <2>1, ReadTyped DEF PaymentRemoveRead
  <1>14. ASSUME NEW r \in Requests, PaymentRemovePopulate(r)
         PROVE  Typed'
    <2> DEFINE doc == invoice[req[r].inv]
               q == [req[r] EXCEPT !.pc = "removeWrite", !.total = doc.total,
                                   !.credit = doc.credit]
    <2>1. Fits(q)
      BY <1>14 DEF PaymentRemovePopulate, Typed, TypeOK, InvoiceDoc, Fits,
         Request, Stage, PaymentStage
    <2>2. req' = [req EXCEPT ![r] = q]
      BY <1>14 DEF PaymentRemovePopulate
    <2>3. QED
      BY <1>14, <2>1, <2>2, ReadTyped DEF PaymentRemovePopulate
  <1>15. ASSUME NEW r \in Requests, PaymentRemoveWrite(r)
         PROVE  Typed'
    <2> DEFINE q == [req[r] EXCEPT !.pc = "removePost"]
    <2>1. Fits(q)
      BY <1>15 DEF PaymentRemoveWrite, Typed, TypeOK, Fits, Request, Stage,
         PaymentStage
    <2>2. req[r].pay \in Payments
      BY <1>15 DEF PaymentRemoveWrite, Typed, Fits, PaymentStage
    <2>3. payment' \in [Payments -> PaymentDoc]
      BY <1>15, <2>2 DEF PaymentRemoveWrite, Typed, TypeOK, PaymentDoc
    <2>4. PaymentOK'
      BY <1>15, <2>2, <2>3 DEF PaymentRemoveWrite, Typed, TypeOK, PaymentOK,
         PaymentDoc
    <2>5. QED
      BY <1>15, <2>1, <2>3, <2>4, StepTyped DEF PaymentRemoveWrite, Typed, TypeOK
  <1>16. ASSUME NEW r \in Requests, PaymentRemovePost(r)
         PROVE  Typed'
    <2>1. /\ req[r].inv \in Invoices /\ req[r].pay \in Payments
          /\ -req[r].old \in Int
          /\ invoice[req[r].inv].list \ {req[r].pay} \in SUBSET Payments
      BY <1>16 DEF PaymentRemovePost, Typed, TypeOK, Fits, PaymentStage,
         InvoiceDoc, Request
    <2>2. QED
      BY <1>16, <2>1, PostTyped DEF PaymentRemovePost, Typed, TypeOK
  <1>17. ASSUME NEW r \in Requests, RequestFail(r)
         PROVE  Typed'
    <2>1. lost' \in SUBSET Payments
      BY <1>17 DEF RequestFail, Typed, TypeOK, Request
    <2>2. failures' \in Nat /\ PaymentOK'
      BY <1>17 DEF RequestFail, Typed, TypeOK, PaymentOK
    <2>3. QED
      BY <1>17, <2>1, <2>2, StepTyped, IdleFits
      DEF RequestFail, Answer, Typed, TypeOK
  <1>18. CASE UNCHANGED vars
    BY <1>18 DEF vars, Typed, TypeOK, PaymentOK
  <1>19. QED
    BY <1>1, <1>2, <1>3, <1>4, <1>5, <1>6, <1>7, <1>8, <1>9, <1>10, <1>11,
       <1>12, <1>13, <1>14, <1>15, <1>16, <1>17, <1>18
    DEF Next, Begin, Continue

LEMMA SpecTyped == Spec => []Typed
  BY InitTyped, NextTyped, PTL DEF Spec

\* Every reachable state has the types the schemas and handlers give it.
THEOREM TypeCorrect == Spec => []TypeOK
  <1>1. Typed => TypeOK
    BY DEF Typed
  <1>2. QED
    BY <1>1, SpecTyped, PTL

-----------------------------------------------------------------------------
(* What the second read of a payment handler leaves in its request: the    *)
(* payment, invoice and amounts it had, and the invoice's current figures. *)

Populates(r, stage) == LET q == req[r] IN
    /\ \A s \in Requests \ {r} : req'[s] = req[s]
    /\ req'[r].pc = stage /\ req'[r].pay = q.pay /\ req'[r].inv = q.inv
    /\ req'[r].new = q.new /\ req'[r].old = q.old
    /\ req'[r].total = invoice[q.inv].total
    /\ req'[r].credit = invoice[q.inv].credit

LEMMA PopulateFields ==
    ASSUME Typed, NEW r \in Requests, NEW stage, NEW t, NEW c,
           req' = [req EXCEPT ![r] = [req[r] EXCEPT !.pc = stage,
                                          !.total = t, !.credit = c]],
           t = invoice[req[r].inv].total, c = invoice[req[r].inv].credit
    PROVE  Populates(r, stage)
  BY DEF Populates, Typed, TypeOK, Request

LEMMA UpdatePopulated ==
    ASSUME Typed, NEW r \in Requests, PaymentUpdatePopulate(r)
    PROVE  /\ req[r].pc = "updatePopulate"
           /\ UNCHANGED <<invoice, payment, failures, posted, waived, lost>>
           /\ \/ Answer(r)
              \/ /\ Populates(r, "updateWrite")
                 /\ req[r].new - req[r].old <= invoice[req[r].inv].total
                                                - invoice[req[r].inv].credit
  <1> DEFINE doc == invoice[req[r].inv]
  <1>1. CASE Answer(r)
    BY <1>1 DEF PaymentUpdatePopulate
  <1>2. CASE /\ req[r].new - req[r].old <= doc.total - doc.credit
             /\ req' = [req EXCEPT ![r] = [req[r] EXCEPT !.pc = "updateWrite",
                            !.total = doc.total, !.credit = doc.credit]]
    <2>1. Populates(r, "updateWrite")
      BY <1>2, PopulateFields
    <2>2. QED
      BY <1>2, <2>1 DEF PaymentUpdatePopulate
  <1>3. QED
    BY <1>1, <1>2 DEF PaymentUpdatePopulate

LEMMA RemovePopulated ==
    ASSUME Typed, NEW r \in Requests, PaymentRemovePopulate(r)
    PROVE  /\ req[r].pc = "removePopulate"
           /\ UNCHANGED <<invoice, payment, failures, posted, waived, lost>>
           /\ Populates(r, "removeWrite")
  BY PopulateFields DEF PaymentRemovePopulate

-----------------------------------------------------------------------------
(* The id a create request has drawn is not yet a document's, and no other *)
(* request holds it.                                                       *)

Fresh ==
    /\ \A p \in Payments :
           payment[p].state = "absent" => payment[p].invoice = None
    /\ \A r \in Requests : req[r].pc = "createInsert" =>
           /\ payment[req[r].pay].state = "absent"
           /\ \A s \in Requests \ {r} : req[s].pay # req[r].pay

\* Only create draws an id; every other step keeps the request's payment or
\* drops it, or takes up a payment that is live.
LEMMA FreshKept ==
    ASSUME Typed, Fresh, NEW r \in Requests,
           \A s \in Requests \ {r} : req'[s] = req[s],
           req'[r].pc # "createInsert",
           \/ req'[r].pay = req[r].pay
           \/ req'[r].pay = None
           \/ payment[req'[r].pay].state # "absent",
           \A p \in Payments : payment[p].state = "absent"
               => payment'[p] = payment[p] \/ req[r].pay = p,
           \A p \in Payments : payment'[p].state = "absent"
               => payment[p].state = "absent" /\ payment'[p] = payment[p]
    PROVE  Fresh'
  <1>1. ASSUME NEW s \in Requests, req'[s].pc = "createInsert"
        PROVE  /\ payment'[req'[s].pay].state = "absent"
               /\ \A u \in Requests \ {s} : req'[u].pay # req'[s].pay
    <2>1. s # r /\ req'[s] = req[s] /\ req[s].pay \in Payments
      BY <1>1 DEF Typed, Fits, PaymentStage
    <2>2. /\ payment[req[s].pay].state = "absent"
          /\ req[r].pay # req[s].pay
      BY <1>1, <2>1 DEF Fresh
    <2>3. payment'[req[s].pay] = payment[req[s].pay]
      BY <2>1, <2>2
    <2>4. req'[r].pay # req[s].pay
      BY <2>1, <2>2, LedgerAssumption
    <2>5. QED
      BY <1>1, <2>1, <2>2, <2>3, <2>4 DEF Fresh
  <1>2. QED
    BY <1>1 DEF Fresh
LEMMA NextFresh == Typed /\ Fresh /\ [Next]_vars => Fresh'
  <1> SUFFICES ASSUME Typed, Fresh, [Next]_vars PROVE Fresh'
    OBVIOUS
  <1> USE DEF Idle, Answer, IdleRequest
  <1>1. ASSUME NEW i \in Invoices, NEW t \in Totals, InvoiceCreate(i, t)
        PROVE  Fresh'
    BY <1>1 DEF InvoiceCreate, Fresh
  <1>2. ASSUME NEW r \in Requests, NEW i \in Invoices, NEW t \in Totals,
               InvoiceUpdateRead(r, i, t)
        PROVE  Fresh'
    BY <1>2, FreshKept DEF InvoiceUpdateRead, Typed, TypeOK
  <1>3. ASSUME NEW r \in Requests, InvoiceUpdateWrite(r)
        PROVE  Fresh'
    BY <1>3, FreshKept DEF InvoiceUpdateWrite, Typed, TypeOK
  <1>4. ASSUME NEW r \in Requests, NEW i \in Invoices, InvoiceRemove(r, i)
        PROVE  Fresh'
    BY <1>4, FreshKept DEF InvoiceRemove, Typed, TypeOK
  <1>5. ASSUME NEW r \in Requests, InvoiceCascade(r)
        PROVE  Fresh'
    <2>1. req[r].inv \in Invoices
      BY <1>5 DEF InvoiceCascade, Typed, Fits
    <2>2. ASSUME NEW p \in Payments
          PROVE  /\ payment[p].state = "absent" => payment'[p] = payment[p]
                 /\ payment'[p].state = "absent" =>
                        payment[p].state = "absent" /\ payment'[p] = payment[p]
      BY <1>5, <2>1, LedgerAssumption
      DEF InvoiceCascade, Fresh, Typed, TypeOK, PaymentDoc
    <2>3. QED
      BY <1>5, <2>2, FreshKept DEF InvoiceCascade, Typed, TypeOK
  <1>6. ASSUME NEW r \in Requests, NEW i \in Invoices, NEW p \in Payments,
               NEW a \in Amounts, PaymentCreateRead(r, i, p, a)
        PROVE  Fresh'
    <2>1. /\ UNCHANGED payment /\ payment[p].state = "absent"
          /\ req'[r].pay = p
          /\ \A s \in Requests : req[s].pay # p
          /\ \A s \in Requests \ {r} : req'[s] = req[s]
      BY <1>6 DEF PaymentCreateRead, InHand, Typed, TypeOK
    <2>2. QED
      BY <2>1 DEF Fresh
  <1>7. ASSUME NEW r \in Requests, PaymentCreateInsert(r)
        PROVE  Fresh'
    <2>1. req[r].pay \in Payments /\ req[r].inv \in Invoices
      BY <1>7 DEF PaymentCreateInsert, Typed, Fits, PaymentStage
    <2>2. /\ \A s \in Requests \ {r} : req'[s] = req[s]
          /\ req'[r].pc = "createPost" /\ req'[r].pay = req[r].pay
      BY <1>7 DEF PaymentCreateInsert, Typed, TypeOK, Request
    <2>3. ASSUME NEW p \in Payments
          PROVE  /\ payment[p].state = "absent" =>
                        payment'[p] = payment[p] \/ req[r].pay = p
                 /\ payment'[p].state = "absent" =>
                        payment[p].state = "absent" /\ payment'[p] = payment[p]
      BY <1>7, <2>1 DEF PaymentCreateInsert, Typed, TypeOK
    <2>4. QED
      BY <2>2, <2>3, FreshKept
  <1>8. ASSUME NEW r \in Requests, NEW i, NEW p, NEW d, NEW l,
               Post(r, i, p, d, l)
        PROVE  Fresh'
    BY <1>8, FreshKept DEF Post, Typed, TypeOK
  <1>9. ASSUME NEW r \in Requests, NEW p \in Payments,
               NEW a \in Amounts \union {None}, PaymentUpdateRead(r, p, a)
        PROVE  Fresh'
    <2>1. /\ req'[r].pay = p /\ req'[r].pc = "updatePopulate"
          /\ payment[p].state = "live" /\ UNCHANGED payment
          /\ \A s \in Requests \ {r} : req'[s] = req[s]
      BY <1>9 DEF PaymentUpdateRead, Typed, TypeOK
    <2>2. QED
      BY <2>1, FreshKept
  <1>10. ASSUME NEW r \in Requests, PaymentUpdatePopulate(r)
         PROVE  Fresh'
    <2>1. /\ UNCHANGED payment
          /\ req'[r].pay \in {None, req[r].pay} /\ req'[r].pc # "createInsert"
          /\ \A s \in Requests \ {r} : req'[s] = req[s]
      BY <1>10, UpdatePopulated DEF Populates, Typed, TypeOK
    <2>2. QED
      BY <2>1, FreshKept
  <1>11. ASSUME NEW r \in Requests, PaymentUpdateWrite(r)
         PROVE  Fresh'
    <2>1. /\ req'[r].pay \in {None, req[r].pay} /\ req'[r].pc # "createInsert"
          /\ \A s \in Requests \ {r} : req'[s] = req[s]
      BY <1>11 DEF PaymentUpdateWrite, Typed, TypeOK, Request
    <2>2. ASSUME NEW p \in Payments
          PROVE  /\ payment[p].state = "absent" => payment'[p] = payment[p]
                 /\ payment'[p].state = "absent" =>
                        payment[p].state = "absent" /\ payment'[p] = payment[p]
      BY <1>11 DEF PaymentUpdateWrite, Typed, TypeOK, PaymentDoc
    <2>3. QED
      BY <2>1, <2>2, FreshKept
  <1>12. ASSUME NEW r \in Requests, NEW p \in Payments, PaymentRemoveRead(r, p)
         PROVE  Fresh'
    <2>1. /\ req'[r].pay = p /\ req'[r].pc = "removePopulate"
          /\ payment[p].state = "live" /\ UNCHANGED payment
          /\ \A s \in Requests \ {r} : req'[s] = req[s]
      BY <1>12 DEF PaymentRemoveRead, Typed, TypeOK
    <2>2. QED
      BY <2>1, FreshKept
  <1>13. ASSUME NEW r \in Requests, PaymentRemovePopulate(r)
         PROVE  Fresh'
    <2>1. /\ UNCHANGED payment
          /\ req'[r].pay = req[r].pay /\ req'[r].pc = "removeWrite"
          /\ \A s \in Requests \ {r} : req'[s] = req[s]
      BY <1>13, RemovePopulated DEF Populates
    <2>2. QED
      BY <2>1, FreshKept
  <1>14. ASSUME NEW r \in Requests, PaymentRemoveWrite(r)
         PROVE  Fresh'
    <2>1. /\ req'[r].pay = req[r].pay /\ req'[r].pc = "removePost"
          /\ \A s \in Requests \ {r} : req'[s] = req[s]
      BY <1>14 DEF PaymentRemoveWrite, Typed, TypeOK, Request
    <2>2. ASSUME NEW p \in Payments
          PROVE  /\ payment'[p] = payment[p] \/ req[r].pay = p
                 /\ payment'[p].state = "absent" =>
                        payment[p].state = "absent" /\ payment'[p] = payment[p]
      BY <1>14 DEF PaymentRemoveWrite, Typed, TypeOK, PaymentDoc
    <2>3. QED
      BY <2>1, <2>2, FreshKept
  <1>15. ASSUME NEW r \in Requests, RequestFail(r)
         PROVE  Fresh'
    BY <1>15, FreshKept DEF RequestFail, Typed, TypeOK
  <1>16. CASE UNCHANGED vars
    BY <1>16 DEF vars, Fresh
  <1>17. QED
    BY <1>1, <1>2, <1>3, <1>4, <1>5, <1>6, <1>7, <1>8, <1>9, <1>10, <1>11,
       <1>12, <1>13, <1>14, <1>15, <1>16
    DEF Next, Begin, Continue, PaymentCreatePost, PaymentUpdatePost,
        PaymentRemovePost

LEMMA SpecFresh == Spec => []Fresh
  <1>1. Init => Fresh
    BY DEF Init, Fresh, IdleRequest
  <1>2. QED
    BY <1>1, NextFresh, SpecTyped, PTL DEF Spec
-----------------------------------------------------------------------------
(* Removal is final. *)

LEMMA PostKeepsInvoice ==
    ASSUME Typed, NEW r \in Requests, NEW j \in Invoices, NEW p, NEW d,
           NEW l, Post(r, j, p, d, l), NEW i \in Invoices
    PROVE  invoice'[i].state = invoice[i].state
               /\ invoice'[i].total = invoice[i].total
  BY DEF Post, Typed, TypeOK, InvoiceDoc

LEMMA NextKeepsRemoved == Typed /\ Fresh /\ [Next]_vars => RemovedKept
  <1> SUFFICES ASSUME Typed, Fresh, [Next]_vars PROVE RemovedKept
    OBVIOUS
  <1>1. ASSUME NEW i \in Invoices, NEW t \in Totals, InvoiceCreate(i, t)
        PROVE  RemovedKept
    BY <1>1 DEF InvoiceCreate, RemovedKept, Typed, TypeOK
  <1>2. ASSUME NEW r \in Requests, InvoiceUpdateWrite(r)
        PROVE  RemovedKept
    BY <1>2 DEF InvoiceUpdateWrite, RemovedKept, Typed, TypeOK, InvoiceDoc
  <1>3. ASSUME NEW r \in Requests, NEW i \in Invoices, InvoiceRemove(r, i)
        PROVE  RemovedKept
    BY <1>3 DEF InvoiceRemove, RemovedKept, Typed, TypeOK, InvoiceDoc
  <1>4. ASSUME NEW r \in Requests, InvoiceCascade(r)
        PROVE  RemovedKept
    <2>1. ASSUME NEW p \in Payments, payment[p].state = "removed"
          PROVE  payment'[p] = payment[p]
      BY <1>4, <2>1 DEF InvoiceCascade, Typed, TypeOK, PaymentDoc
    <2>2. QED
      BY <1>4, <2>1 DEF InvoiceCascade, RemovedKept
  <1>5. ASSUME NEW r \in Requests, PaymentCreateInsert(r)
        PROVE  RemovedKept
    BY <1>5 DEF PaymentCreateInsert, RemovedKept, Typed, TypeOK, Fresh
  <1>6. ASSUME NEW r \in Requests, NEW p, NEW d, NEW l,
               req[r].pc \in PaymentStage, Post(r, req[r].inv, p, d, l)
        PROVE  RemovedKept
    <2>1. req[r].inv \in Invoices
      BY <1>6 DEF Typed, Fits
    <2>2. QED
      BY <1>6, <2>1, PostKeepsInvoice DEF Post, RemovedKept
  <1>7. ASSUME NEW r \in Requests, PaymentUpdateWrite(r)
        PROVE  RemovedKept
    BY <1>7 DEF PaymentUpdateWrite, RemovedKept, Typed, TypeOK
  <1>8. ASSUME NEW r \in Requests, PaymentRemoveWrite(r)
        PROVE  RemovedKept
    <2>1. ASSUME NEW p \in Payments, payment[p].state = "removed"
          PROVE  payment'[p] = payment[p]
      BY <1>8, <2>1 DEF PaymentRemoveWrite, Typed, TypeOK, PaymentDoc
    <2>2. QED
      BY <1>8, <2>1 DEF PaymentRemoveWrite, RemovedKept
  <1>9. CASE UNCHANGED <<invoice, payment>>
    BY <1>9 DEF RemovedKept
  <1>10. ASSUME NEW r \in Requests, Begin(r)
         PROVE  RemovedKept
    BY <1>10, <1>3, <1>9 DEF Begin, InvoiceUpdateRead, PaymentCreateRead,
       PaymentUpdateRead, PaymentRemoveRead
  <1>11. ASSUME NEW r \in Requests,
                PaymentCreatePost(r) \/ PaymentUpdatePost(r)
                    \/ PaymentRemovePost(r)
         PROVE  RemovedKept
    BY <1>11, <1>6 DEF PaymentCreatePost, PaymentUpdatePost,
       PaymentRemovePost, PaymentStage
  <1>12. ASSUME NEW r \in Requests,
                PaymentUpdatePopulate(r) \/ PaymentRemovePopulate(r)
                    \/ RequestFail(r)
         PROVE  RemovedKept
    BY <1>12, <1>9 DEF PaymentUpdatePopulate, PaymentRemovePopulate,
       RequestFail
  <1>13. CASE UNCHANGED vars
    BY <1>13, <1>9 DEF vars
  <1>14. QED
    BY <1>1, <1>2, <1>4, <1>5, <1>7, <1>8, <1>10, <1>11, <1>12, <1>13
    DEF Next, Continue

\* Whatever is in flight, what is removed is never edited or revived: the
\* filters on removed in the write calls, and the fresh ids, are enough.
THEOREM RemovalIsFinal == Spec => RemovedIsFinal
  BY NextKeepsRemoved, SpecTyped, SpecFresh, PTL DEF Spec, RemovedIsFinal

-----------------------------------------------------------------------------
(* The accounting of payments when no two requests write one payment at    *)
(* the same time: what is posted for a payment is its amount, and Ledger   *)
(* implements LedgerBook.                                                  *)

\* No two requests in flight write one payment: there is one slot, or the
\* clients see to it.
Orderly == Exclusive \/ \A r, s \in Requests : r = s

LEMMA Unheld ==
    ASSUME Typed, Orderly, NEW r \in Requests, Idle(r), NEW p \in Payments,
           MayWrite(p)
    PROVE  ~InHand(p)
  <1>1. req[r].pay # p
    BY LedgerAssumption DEF Idle, Typed, Fits
  <1>2. QED
    BY <1>1 DEF Orderly, MayWrite, InHand

Listed(p) == \E i \in Invoices : p \in invoice[i].list

\* A payment is on no list but its own invoice's.
ListOK(p) == \A i \in Invoices : p \in invoice[i].list => payment[p].invoice = i

\* A payment no request has in hand.
Rest(p) == LET doc == payment[p] IN
    /\ doc.state = "absent" => Entered(p) = 0 /\ ~Listed(p)
    /\ doc.state # "absent" => doc.invoice \in Invoices
    /\ doc.state = "live" =>
           Entered(p) = doc.amount /\ p \in invoice[doc.invoice].list
    /\ doc.state = "removed" /\ invoice[doc.invoice].state # "removed" =>
           Entered(p) = 0 /\ ~Listed(p)

\* A payment request r has in hand: what the handler holds of it is still so,
\* unless its invoice has been removed under the handler.
Held(r) == LET q == req[r] p == q.pay doc == payment[p] IN
    /\ q.pc = "createInsert" =>
           doc.state = "absent" /\ Entered(p) = 0 /\ ~Listed(p)
    /\ q.pc # "createInsert" => doc.state # "absent" /\ doc.invoice = q.inv
    /\ q.pc = "createPost" =>
           Entered(p) = 0 /\ doc.amount = q.new /\ ~Listed(p)
    /\ q.pc \in {"updatePopulate", "updateWrite", "updatePost",
                 "removePopulate", "removeWrite", "removePost"} =>
           Entered(p) = q.old /\ p \in invoice[q.inv].list
    /\ q.pc \in {"updatePopulate", "updateWrite"} /\ doc.state = "live" =>
           doc.amount = q.old
    /\ q.pc = "updatePost" => doc.amount = Written(q, q.old)
    /\ q.pc = "removePost" => doc.state = "removed"
    /\ q.pc # "removePost" /\ doc.state = "removed" =>
           invoice[q.inv].state = "removed"

Kept(p) ==
    /\ ListOK(p)
    /\ ~InHand(p) => Rest(p)
    /\ \A r \in Requests : req[r].pay = p => Held(r)

\* One request at most has a payment in hand.
Solo == \A r, s \in Requests :
    req[r].pay # None /\ req[s].pay = req[r].pay => r = s

\* Requests are about invoices that exist; a cascade's has been removed.
InvoiceHeld ==
    /\ \A r \in Requests :
           /\ req[r].pc = "invoiceCascade" =>
                  invoice[req[r].inv].state = "removed"
           /\ req[r].pc \in PaymentStage => invoice[req[r].inv].state # "absent"
           /\ req[r].pc \in PaymentStage
                  \ {"removePopulate", "removeWrite", "removePost"} =>
                  req[r].new \in Amounts \union {0}
           /\ req[r].pc \in {"createInsert", "createPost"} =>
                  req[r].new \in Amounts
    /\ \A i \in Invoices : invoice[i].state = "absent" =>
           invoice[i].list = {} /\ invoice[i].credit = 0
    /\ \A p \in Payments : payment[p].state = "live" =>
           invoice[payment[p].invoice].state # "absent"

AccountInv ==
    /\ Solo
    /\ InvoiceHeld
    /\ \A p \in Payments \ lost : Kept(p)

BookInv == Typed /\ Fresh /\ AccountInv

-----------------------------------------------------------------------------
(* How a payment stays Kept: untouched by the step, held on by the request *)
(* that moves, or released by it.                                          *)

LEMMA Untouched ==
    ASSUME Typed, NEW p \in Payments, Kept(p),
           \A s \in Requests : req[s].pay = p \/ req'[s].pay = p
               => req'[s] = req[s],
           payment'[p] = payment[p], posted'[p] = posted[p],
           waived'[p] = waived[p],
           \A i \in Invoices :
               /\ p \in invoice'[i].list <=> p \in invoice[i].list
               /\ invoice[i].state = "removed" => invoice'[i].state = "removed"
    PROVE  Kept(p)'
  <1>1. ListOK(p)'
    BY DEF Kept, ListOK
  <1>2. ~InHand(p)' => Rest(p)'
    BY DEF Kept, InHand, Rest, Entered, Listed
  <1>3. ASSUME NEW r \in Requests, req'[r].pay = p PROVE Held(r)'
    <2>1. /\ req'[r] = req[r] /\ req[r].pay = p /\ Held(r)
          /\ req[r].pc # "idle" => req[r].inv \in Invoices
      BY <1>3, LedgerAssumption
      DEF Kept, Typed, TypeOK, Fits, Request, Stage, PaymentStage
    <2>2. req[r].pc # "idle"
      BY <2>1, LedgerAssumption DEF Typed, Fits
    <2>3. QED
      BY <2>1, <2>2 DEF Held, Entered, Listed
  <1>4. QED
    BY <1>1, <1>2, <1>3 DEF Kept

LEMMA HeldOn ==
    ASSUME NEW p \in Payments, NEW r \in Requests, req'[r].pay = p,
           Solo', ListOK(p)', Held(r)'
    PROVE  Kept(p)'
  BY LedgerAssumption DEF Kept, InHand, Solo

LEMMA Released ==
    ASSUME NEW p \in Payments, NEW r \in Requests, req[r].pay = p, Solo,
           req'[r].pay = None, \A s \in Requests \ {r} : req'[s] = req[s],
           ListOK(p)', Rest(p)'
    PROVE  Kept(p)'
  <1>1. \A s \in Requests : req'[s].pay # p
    BY LedgerAssumption DEF Solo
  <1>2. QED
    BY <1>1 DEF Kept

LEMMA SoloKept ==
    ASSUME Solo, NEW r \in Requests,
           \A s \in Requests \ {r} : req'[s] = req[s],
           \/ req'[r].pay \in {None, req[r].pay}
           \/ ~InHand(req'[r].pay)
    PROVE  Solo'
  BY DEF Solo, InHand

LEMMA InvoiceHeldKept ==
    ASSUME Typed, InvoiceHeld, NEW r \in Requests,
           \A s \in Requests \ {r} : req'[s] = req[s],
           \A i \in Invoices :
               /\ invoice[i].state = "removed" => invoice'[i].state = "removed"
               /\ invoice[i].state # "absent" => invoice'[i].state # "absent"
               /\ invoice'[i].state = "absent" => invoice'[i] = invoice[i],
           \A p \in Payments : payment'[p].state = "live" =>
               \/ /\ payment[p].state = "live"
                  /\ payment'[p].invoice = payment[p].invoice
               \/ invoice'[payment'[p].invoice].state # "absent",
           req'[r].pc = "invoiceCascade" =>
               invoice'[req'[r].inv].state = "removed",
           req'[r].pc \in PaymentStage =>
               invoice'[req'[r].inv].state # "absent",
           req'[r].pc \in PaymentStage
               \ {"removePopulate", "removeWrite", "removePost"} =>
               req'[r].new \in Amounts \union {0},
           req'[r].pc \in {"createInsert", "createPost"} =>
               req'[r].new \in Amounts
    PROVE  InvoiceHeld'
  <1>1. ASSUME NEW s \in Requests \ {r}
        PROVE  /\ req[s].pc = "invoiceCascade" =>
                      invoice'[req[s].inv].state = "removed"
               /\ req[s].pc \in PaymentStage =>
                      invoice'[req[s].inv].state # "absent"
    BY <1>1 DEF InvoiceHeld, Typed, Fits
  <1>2. \A p \in Payments : payment'[p].state = "live" =>
            invoice'[payment'[p].invoice].state # "absent"
    BY DEF InvoiceHeld, Typed, PaymentOK
  <1>3. QED
    BY <1>1, <1>2 DEF InvoiceHeld

\* What the last write of a payment handler changes.
LEMMA PostEffect ==
    ASSUME Typed, NEW r \in Requests, NEW i \in Invoices, NEW p \in Payments,
           NEW d \in Int, NEW l \in SUBSET Payments, Post(r, i, p, d, l)
    PROVE  /\ \A j \in Invoices : invoice'[j].state = invoice[j].state
           /\ \A j \in Invoices \ {i} : invoice'[j] = invoice[j]
           /\ invoice'[i].list = l
           /\ invoice'[i].credit = invoice[i].credit + d
           /\ posted'[p] = posted[p] + d
           /\ \A x \in Payments \ {p} : posted'[x] = posted[x]
           /\ UNCHANGED <<payment, lost>>
           /\ req'[r] = IdleRequest
           /\ \A s \in Requests \ {r} : req'[s] = req[s]
  <1>1. \A j \in Invoices : invoice'[j].state = invoice[j].state
    BY DEF Post, Typed, TypeOK, InvoiceDoc
  <1>2. /\ invoice'[i].list = l
        /\ invoice'[i].credit = invoice[i].credit + d
    BY DEF Post, Typed, TypeOK, InvoiceDoc
  <1>3. QED
    BY <1>1, <1>2 DEF Post, Answer, Typed, TypeOK
-----------------------------------------------------------------------------
(* invoiceController keeps the accounts. *)

LEMMA AccountInvoiceCreate ==
    ASSUME BookInv, NEW i \in Invoices, NEW t \in Totals, InvoiceCreate(i, t)
    PROVE  AccountInv'
  <1>1. /\ UNCHANGED <<payment, req, posted, waived, lost>>
        /\ invoice[i].state = "absent"
        /\ invoice'[i].state = "live" /\ invoice'[i].list = {}
        /\ \A j \in Invoices \ {i} : invoice'[j] = invoice[j]
    BY DEF InvoiceCreate, BookInv, Typed, TypeOK
  <1>2. InvoiceHeld'
    BY <1>1 DEF BookInv, AccountInv, InvoiceHeld, Typed, Fits, PaymentOK
  <1>3. ASSUME NEW p \in Payments \ lost PROVE Kept(p)'
    BY <1>1, <1>3, Untouched DEF BookInv, AccountInv, InvoiceHeld
  <1>4. QED
    BY <1>1, <1>2, <1>3 DEF BookInv, AccountInv, Solo

LEMMA AccountInvoiceUpdateRead ==
    ASSUME BookInv, NEW r \in Requests, NEW i \in Invoices, NEW t \in Totals,
           InvoiceUpdateRead(r, i, t)
    PROVE  AccountInv'
  <1>1. /\ UNCHANGED <<invoice, payment, posted, waived, lost>>
        /\ req[r].pay = None /\ req'[r].pay = None
        /\ req'[r].pc = "invoiceWrite"
        /\ \A s \in Requests \ {r} : req'[s] = req[s]
    BY DEF InvoiceUpdateRead, Idle, BookInv, Typed, TypeOK, Fits, IdleRequest
  <1>2. Solo' /\ InvoiceHeld'
    BY <1>1, SoloKept, InvoiceHeldKept
    DEF BookInv, AccountInv, PaymentStage
  <1>3. ASSUME NEW p \in Payments \ lost PROVE Kept(p)'
    BY <1>1, <1>3, Untouched, LedgerAssumption DEF BookInv, AccountInv
  <1>4. QED
    BY <1>1, <1>2, <1>3 DEF AccountInv

LEMMA AccountInvoiceUpdateWrite ==
    ASSUME BookInv, NEW r \in Requests, InvoiceUpdateWrite(r)
    PROVE  AccountInv'
  <1>1. /\ UNCHANGED <<payment, posted, waived, lost>>
        /\ req[r].pay = None /\ req'[r] = IdleRequest
        /\ \A s \in Requests \ {r} : req'[s] = req[s]
    BY DEF InvoiceUpdateWrite, Answer, BookInv, Typed, TypeOK, Fits
  <1>2. \A i \in Invoices :
            /\ invoice'[i].state = invoice[i].state
            /\ invoice'[i].list = invoice[i].list
            /\ invoice[i].state = "absent" => invoice'[i] = invoice[i]
    BY DEF InvoiceUpdateWrite, BookInv, Typed, TypeOK, InvoiceDoc
  <1>3. Solo' /\ InvoiceHeld'
    BY <1>1, <1>2, SoloKept, InvoiceHeldKept
    DEF BookInv, AccountInv, PaymentStage, IdleRequest
  <1>4. ASSUME NEW p \in Payments \ lost PROVE Kept(p)'
    BY <1>1, <1>2, <1>4, Untouched, LedgerAssumption
    DEF BookInv, AccountInv, IdleRequest
  <1>5. QED
    BY <1>1, <1>3, <1>4 DEF AccountInv

LEMMA AccountInvoiceRemove ==
    ASSUME BookInv, NEW r \in Requests, NEW i \in Invoices, InvoiceRemove(r, i)
    PROVE  AccountInv'
  <1>1. /\ UNCHANGED <<payment, posted, waived, lost>>
        /\ req[r].pay = None /\ req'[r].pay = None
        /\ req'[r].pc = "invoiceCascade" /\ req'[r].inv = i
        /\ \A s \in Requests \ {r} : req'[s] = req[s]
    BY DEF InvoiceRemove, Idle, BookInv, Typed, TypeOK, Fits, IdleRequest
  <1>2. /\ invoice'[i].state = "removed" /\ invoice[i].state = "live"
        /\ invoice'[i].list = invoice[i].list
        /\ \A j \in Invoices \ {i} : invoice'[j] = invoice[j]
    BY DEF InvoiceRemove, BookInv, Typed, TypeOK, InvoiceDoc
  <1>3. Solo' /\ InvoiceHeld'
    BY <1>1, <1>2, SoloKept, InvoiceHeldKept
    DEF BookInv, AccountInv, PaymentStage
  <1>4. ASSUME NEW p \in Payments \ lost PROVE Kept(p)'
    BY <1>1, <1>2, <1>4, Untouched, LedgerAssumption DEF BookInv, AccountInv
  <1>5. QED
    BY <1>1, <1>3, <1>4 DEF AccountInv

\* The cascade removes payments under the handlers that have them in hand.
LEMMA AccountInvoiceCascade ==
    ASSUME BookInv, NEW r \in Requests, InvoiceCascade(r)
    PROVE  AccountInv'
  <1> DEFINE i == req[r].inv
  <1>1. /\ UNCHANGED <<invoice, posted, waived, lost>>
        /\ req[r].pay = None /\ req'[r] = IdleRequest
        /\ \A s \in Requests \ {r} : req'[s] = req[s]
        /\ i \in Invoices /\ invoice[i].state = "removed"
    BY DEF InvoiceCascade, Answer, BookInv, Typed, TypeOK, Fits, AccountInv,
       InvoiceHeld
  <1>0. \A p \in Payments : payment'[p].state = "live" =>
            payment'[p] = payment[p]
    BY DEF InvoiceCascade, BookInv, Typed, TypeOK, PaymentDoc
  <1>2. Solo' /\ InvoiceHeld'
    BY <1>1, <1>0, SoloKept, InvoiceHeldKept
    DEF BookInv, AccountInv, PaymentStage, IdleRequest
  <1>3. ASSUME NEW p \in Payments \ lost PROVE Kept(p)'
    <2>1. /\ payment'[p].invoice = payment[p].invoice
          /\ payment'[p].amount = payment[p].amount
          /\ payment[p].invoice # i => payment'[p] = payment[p]
          /\ payment[p].invoice = i => payment'[p].state = "removed"
      BY DEF InvoiceCascade, BookInv, Typed, TypeOK, PaymentDoc
    <2>2. CASE payment[p].invoice # i
      BY <1>1, <2>1, <2>2, Untouched, LedgerAssumption
      DEF BookInv, AccountInv, IdleRequest
    <2>3. CASE payment[p].invoice = i
      <3>1. Kept(p) /\ payment[p].state # "absent"
        BY <1>1, <2>3, LedgerAssumption DEF BookInv, AccountInv, Fresh
      <3>2. ListOK(p)'
        BY <1>1, <2>1, <3>1 DEF Kept, ListOK
      <3>3. ~InHand(p)' => Rest(p)'
        BY <1>1, <2>1, <2>3 DEF Rest, Entered
      <3>4. ASSUME NEW s \in Requests, req'[s].pay = p PROVE Held(s)'
        <4>1. req'[s] = req[s] /\ req[s].pay = p /\ Held(s)
          BY <1>1, <3>1, <3>4, LedgerAssumption DEF Kept, IdleRequest
        <4>2. req[s].pc # "createInsert" /\ req[s].inv = i
          BY <2>3, <3>1, <4>1 DEF Held, Entered
        <4>3. QED
          BY <1>1, <2>1, <2>3, <4>1, <4>2 DEF Held, Entered, Listed
      <3>5. QED
        BY <3>2, <3>3, <3>4 DEF Kept
    <2>4. QED
      BY <2>2, <2>3
  <1>4. QED
    BY <1>1, <1>2, <1>3 DEF AccountInv
-----------------------------------------------------------------------------
(* paymentController/create keeps the accounts. *)

LEMMA AccountCreateRead ==
    ASSUME BookInv, NEW r \in Requests, NEW i \in Invoices,
           NEW x \in Payments, NEW a \in Amounts, PaymentCreateRead(r, i, x, a)
    PROVE  AccountInv'
  <1>1. /\ UNCHANGED <<invoice, payment, posted, waived, lost>>
        /\ req[r].pay = None /\ req'[r].pay = x /\ req'[r].inv = i
        /\ req'[r].pc = "createInsert" /\ req'[r].new = a
        /\ \A s \in Requests \ {r} : req'[s] = req[s]
        /\ invoice[i].state = "live"
        /\ payment[x].state = "absent" /\ ~InHand(x)
    BY DEF PaymentCreateRead, Idle, BookInv, Typed, TypeOK, Fits, IdleRequest
  <1>2. Solo' /\ InvoiceHeld'
    BY <1>1, SoloKept, InvoiceHeldKept
    DEF BookInv, AccountInv, PaymentStage
  <1>3. ASSUME NEW p \in Payments \ lost PROVE Kept(p)'
    <2>1. CASE p # x
      BY <1>1, <1>3, <2>1, Untouched, LedgerAssumption
      DEF BookInv, AccountInv
    <2>2. CASE p = x
      <3>1. Rest(p) /\ ListOK(p)
        BY <1>1, <2>2 DEF BookInv, AccountInv, Kept
      <3>2. ListOK(p)' /\ Held(r)'
        BY <1>1, <2>2, <3>1 DEF Rest, Entered, ListOK, Held, Listed
      <3>3. QED
        BY <1>1, <1>2, <2>2, <3>2, HeldOn
    <2>3. QED
      BY <2>1, <2>2
  <1>4. QED
    BY <1>1, <1>2, <1>3 DEF AccountInv

LEMMA AccountCreateInsert ==
    ASSUME BookInv, NEW r \in Requests, PaymentCreateInsert(r)
    PROVE  AccountInv'
  <1> DEFINE x == req[r].pay
  <1>1. /\ UNCHANGED <<invoice, posted, waived, lost>>
        /\ x \in Payments /\ req[r].inv \in Invoices
        /\ req[r].pc = "createInsert"
        /\ req'[r].pay = x /\ req'[r].inv = req[r].inv
        /\ req'[r].pc = "createPost" /\ req'[r].new = req[r].new
        /\ \A s \in Requests \ {r} : req'[s] = req[s]
        /\ payment'[x] = [state |-> "live", invoice |-> req[r].inv,
                          amount |-> req[r].new]
        /\ \A p \in Payments \ {x} : payment'[p] = payment[p]
    BY DEF PaymentCreateInsert, BookInv, Typed, TypeOK, Fits, PaymentStage,
       Request
  <1>2. Solo' /\ InvoiceHeld'
    BY <1>1, SoloKept, InvoiceHeldKept
    DEF BookInv, AccountInv, InvoiceHeld, PaymentStage
  <1>3. ASSUME NEW p \in Payments \ lost PROVE Kept(p)'
    <2>1. CASE p # x
      BY <1>1, <1>3, <2>1, Untouched DEF BookInv, AccountInv
    <2>2. CASE p = x
      <3>1. Held(r) /\ ListOK(p)
        BY <1>1, <2>2 DEF BookInv, AccountInv, Kept
      <3>2. ListOK(p)' /\ Held(r)'
        BY <1>1, <2>2, <3>1 DEF ListOK, Held, Entered, Listed
      <3>3. QED
        BY <1>1, <1>2, <2>2, <3>2, HeldOn
    <2>3. QED
      BY <2>1, <2>2
  <1>4. QED
    BY <1>1, <1>2, <1>3 DEF AccountInv

\* What every last write of a payment handler has to show: that the payment
\* it posts is accounted for when the handler lets go of it.
LEMMA AccountPost ==
    ASSUME BookInv, NEW r \in Requests, req[r].pc \in PaymentStage,
           NEW x \in Payments, x = req[r].pay,
           NEW d \in Int, NEW l \in SUBSET Payments,
           Post(r, req[r].inv, x, d, l),
           \A p \in Payments \ {x} : waived'[p] = waived[p],
           \A p \in Payments \ {x} : p \in l <=> p \in invoice[req[r].inv].list,
           x \notin lost => ListOK(x)' /\ Rest(x)'
    PROVE  AccountInv'
  <1> DEFINE i == req[r].inv
  <1>1. i \in Invoices
    BY DEF BookInv, Typed, Fits
  <1>2. /\ \A j \in Invoices : invoice'[j].state = invoice[j].state
        /\ \A j \in Invoices \ {i} : invoice'[j] = invoice[j]
        /\ invoice'[i].list = l
        /\ \A p \in Payments \ {x} : posted'[p] = posted[p]
        /\ UNCHANGED <<payment, lost>>
        /\ req'[r] = IdleRequest
        /\ \A s \in Requests \ {r} : req'[s] = req[s]
    BY <1>1, PostEffect DEF BookInv
  <1>3. invoice[i].state # "absent"
    BY DEF BookInv, AccountInv, InvoiceHeld
  <1>4. Solo' /\ InvoiceHeld'
    BY <1>2, <1>3, SoloKept, InvoiceHeldKept
    DEF BookInv, AccountInv, PaymentStage, IdleRequest
  <1>5. ASSUME NEW p \in Payments \ lost PROVE Kept(p)'
    <2>1. CASE p # x
      <3>1. \A j \in Invoices : p \in invoice'[j].list <=> p \in invoice[j].list
        BY <1>2, <2>1
      <3>2. QED
        BY <1>1, <1>2, <1>5, <2>1, <3>1, Untouched, LedgerAssumption
        DEF BookInv, AccountInv, IdleRequest
    <2>2. CASE p = x
      <3>1. ListOK(p)' /\ Rest(p)'
        BY <1>5, <2>2
      <3>2. QED
        BY <1>2, <2>2, <3>1, Released DEF BookInv, AccountInv, IdleRequest
    <2>3. QED
      BY <2>1, <2>2
  <1>6. QED
    BY <1>2, <1>4, <1>5 DEF AccountInv
LEMMA AccountCreatePost ==
    ASSUME BookInv, NEW r \in Requests, PaymentCreatePost(r)
    PROVE  AccountInv'
  <1> DEFINE i == req[r].inv
  <1>1. PICK x \in Payments : x = req[r].pay
    BY DEF PaymentCreatePost, BookInv, Typed, Fits, PaymentStage
  <1> DEFINE l == invoice[i].list \union {x}
  <1>2. /\ i \in Invoices /\ req[r].new \in Int /\ l \in SUBSET Payments
        /\ req[r].pc = "createPost" /\ Post(r, i, x, req[r].new, l)
        /\ UNCHANGED waived
    BY <1>1 DEF PaymentCreatePost, BookInv, Typed, TypeOK, Fits, PaymentStage,
       Request, InvoiceDoc
  <1>3. /\ \A j \in Invoices : invoice'[j].state = invoice[j].state
        /\ \A j \in Invoices \ {i} : invoice'[j] = invoice[j]
        /\ invoice'[i].list = l
        /\ posted'[x] = posted[x] + req[r].new
        /\ UNCHANGED payment
    BY <1>2, PostEffect DEF BookInv
  <1>4. x \notin lost => ListOK(x)' /\ Rest(x)'
    <2> SUFFICES ASSUME x \notin lost PROVE ListOK(x)' /\ Rest(x)'
      OBVIOUS
    <2>1. Held(r) /\ ListOK(x)
      BY <1>1 DEF BookInv, AccountInv, Kept
    <2>2. /\ payment[x].state # "absent" /\ payment[x].invoice = i
          /\ Entered(x) = 0 /\ payment[x].amount = req[r].new
          /\ payment[x].state = "removed" => invoice[i].state = "removed"
      BY <1>1, <1>2, <2>1 DEF Held
    <2>6. Entered(x)' = payment[x].amount
      BY <1>2, <1>3, <2>2 DEF Entered, BookInv, Typed, TypeOK
    <2>3. ListOK(x)'
      BY <1>3, <2>1, <2>2 DEF ListOK
    <2>4. Rest(x)'
      BY <1>2, <1>3, <2>2, <2>6 DEF Rest
    <2>5. QED
      BY <2>3, <2>4
  <1>5. /\ req[r].pc \in PaymentStage
        /\ \A p \in Payments \ {x} : p \in l <=> p \in invoice[i].list
    BY <1>2 DEF PaymentStage
  <1> HIDE DEF l
  <1>6. QED
    BY <1>1, <1>2, <1>4, <1>5, AccountPost
-----------------------------------------------------------------------------
(* paymentController/update and remove keep the accounts. *)

LEMMA AccountUpdateRead ==
    ASSUME BookInv, Orderly, NEW r \in Requests, NEW x \in Payments,
           NEW a \in Amounts \union {None}, PaymentUpdateRead(r, x, a)
    PROVE  AccountInv'
  <1>1. /\ UNCHANGED <<invoice, payment, posted, waived, lost>>
        /\ req[r].pay = None /\ req'[r].pay = x
        /\ req'[r].inv = payment[x].invoice
        /\ req'[r].old = payment[x].amount
        /\ req'[r].new \in Amounts \union {0}
        /\ req'[r].pc = "updatePopulate"
        /\ \A s \in Requests \ {r} : req'[s] = req[s]
        /\ payment[x].state = "live" /\ ~InHand(x)
        /\ payment[x].invoice \in Invoices
    BY Unheld DEF PaymentUpdateRead, Idle, BookInv, Typed, TypeOK, Fits,
       IdleRequest, PaymentOK
  <1>2. Solo'
    BY <1>1, SoloKept DEF BookInv, AccountInv
  <1>3. InvoiceHeld'
    <2>1. invoice[payment[x].invoice].state # "absent"
      BY <1>1 DEF BookInv, AccountInv, InvoiceHeld
    <2>2. QED
      BY <1>1, <2>1, InvoiceHeldKept DEF BookInv, AccountInv, PaymentStage
  <1>4. ASSUME NEW p \in Payments \ lost PROVE Kept(p)'
    <2>1. CASE p # x
      BY <1>1, <1>4, <2>1, Untouched, LedgerAssumption
      DEF BookInv, AccountInv
    <2>2. CASE p = x
      <3>1. Rest(p) /\ ListOK(p)
        BY <1>1, <2>2 DEF BookInv, AccountInv, Kept
      <3>2. ListOK(p)' /\ Held(r)'
        BY <1>1, <2>2, <3>1 DEF Rest, Entered, ListOK, Held, Listed
      <3>3. QED
        BY <1>1, <1>2, <2>2, <3>2, HeldOn
    <2>3. QED
      BY <2>1, <2>2
  <1>5. QED
    BY <1>1, <1>2, <1>3, <1>4 DEF AccountInv

LEMMA AccountRemoveRead ==
    ASSUME BookInv, Orderly, NEW r \in Requests, NEW x \in Payments,
           PaymentRemoveRead(r, x)
    PROVE  AccountInv'
  <1>1. /\ UNCHANGED <<invoice, payment, posted, waived, lost>>
        /\ req[r].pay = None /\ req'[r].pay = x
        /\ req'[r].inv = payment[x].invoice
        /\ req'[r].old = payment[x].amount
        /\ req'[r].pc = "removePopulate"
        /\ \A s \in Requests \ {r} : req'[s] = req[s]
        /\ payment[x].state = "live" /\ ~InHand(x)
        /\ payment[x].invoice \in Invoices
    BY Unheld DEF PaymentRemoveRead, Idle, BookInv, Typed, TypeOK, Fits,
       IdleRequest, PaymentOK
  <1>2. Solo'
    BY <1>1, SoloKept DEF BookInv, AccountInv
  <1>3. InvoiceHeld'
    <2>1. invoice[payment[x].invoice].state # "absent"
      BY <1>1 DEF BookInv, AccountInv, InvoiceHeld
    <2>2. QED
      BY <1>1, <2>1, InvoiceHeldKept DEF BookInv, AccountInv, PaymentStage
  <1>4. ASSUME NEW p \in Payments \ lost PROVE Kept(p)'
    <2>1. CASE p # x
      BY <1>1, <1>4, <2>1, Untouched, LedgerAssumption
      DEF BookInv, AccountInv
    <2>2. CASE p = x
      <3>1. Rest(p) /\ ListOK(p)
        BY <1>1, <2>2 DEF BookInv, AccountInv, Kept
      <3>2. ListOK(p)' /\ Held(r)'
        BY <1>1, <2>2, <3>1 DEF Rest, Entered, ListOK, Held, Listed
      <3>3. QED
        BY <1>1, <1>2, <2>2, <3>2, HeldOn
    <2>3. QED
      BY <2>1, <2>2
  <1>5. QED
    BY <1>1, <1>2, <1>3, <1>4 DEF AccountInv

LEMMA AccountUpdatePopulate ==
    ASSUME BookInv, NEW r \in Requests, PaymentUpdatePopulate(r)
    PROVE  AccountInv'
  <1>1. PICK x \in Payments : x = req[r].pay
    BY UpdatePopulated DEF BookInv, Typed, Fits, PaymentStage
  <1>2. /\ UNCHANGED <<invoice, payment, posted, waived, lost>>
        /\ \A s \in Requests \ {r} : req'[s] = req[s]
        /\ req[r].pc = "updatePopulate"
        /\ \/ req'[r] = IdleRequest
           \/ /\ req'[r].pc = "updateWrite" /\ req'[r].pay = x
              /\ req'[r].inv = req[r].inv
              /\ req'[r].new = req[r].new /\ req'[r].old = req[r].old
    BY <1>1, UpdatePopulated DEF BookInv, Typed, TypeOK, Populates, Answer
  <1>3. req[r].inv \in Invoices
    BY <1>2 DEF BookInv, Typed, Fits, PaymentStage
  <1>4. Solo' /\ InvoiceHeld'
    BY <1>1, <1>2, SoloKept, InvoiceHeldKept
    DEF BookInv, AccountInv, InvoiceHeld, PaymentStage, IdleRequest
  <1>5. ASSUME NEW p \in Payments \ lost PROVE Kept(p)'
    <2>1. CASE p # x
      BY <1>1, <1>2, <1>5, <2>1, Untouched, LedgerAssumption
      DEF BookInv, AccountInv, IdleRequest
    <2>2. CASE p = x
      <3>1. Held(r) /\ ListOK(p)
        BY <1>1, <2>2 DEF BookInv, AccountInv, Kept
      <3>2. ListOK(p)'
        BY <1>2, <3>1 DEF ListOK
      <3>3. CASE req'[r] = IdleRequest
        <4>1. Rest(p)'
          BY <1>1, <1>2, <1>3, <2>2, <3>1 DEF Held, Entered, Rest
        <4>2. QED
          BY <1>1, <1>2, <2>2, <3>2, <3>3, <4>1, Released
          DEF BookInv, AccountInv, IdleRequest
      <3>4. CASE req'[r].pc = "updateWrite"
        <4>1. req'[r].pay = x
          BY <1>2, <3>4 DEF IdleRequest
        <4>2. Held(r)'
          BY <1>1, <1>2, <2>2, <3>1, <3>4, <4>1 DEF Held, Entered, Listed, IdleRequest,
             Written
        <4>3. QED
          BY <1>4, <2>2, <3>2, <4>1, <4>2, HeldOn
      <3>5. QED
        BY <1>2, <3>3, <3>4
    <2>3. QED
      BY <2>1, <2>2
  <1>6. QED
    BY <1>2, <1>4, <1>5 DEF AccountInv

LEMMA AccountRemovePopulate ==
    ASSUME BookInv, NEW r \in Requests, PaymentRemovePopulate(r)
    PROVE  AccountInv'
  <1>1. PICK x \in Payments : x = req[r].pay
    BY RemovePopulated DEF BookInv, Typed, Fits, PaymentStage
  <1>2. /\ UNCHANGED <<invoice, payment, posted, waived, lost>>
        /\ \A s \in Requests \ {r} : req'[s] = req[s]
        /\ req[r].pc = "removePopulate"
        /\ /\ req'[r].pc = "removeWrite" /\ req'[r].pay = x
           /\ req'[r].inv = req[r].inv /\ req'[r].old = req[r].old
    BY <1>1, RemovePopulated DEF BookInv, Typed, TypeOK, Populates, Answer
  <1>3. req[r].inv \in Invoices
    BY <1>2 DEF BookInv, Typed, Fits, PaymentStage
  <1>4. Solo' /\ InvoiceHeld'
    BY <1>1, <1>2, SoloKept, InvoiceHeldKept
    DEF BookInv, AccountInv, InvoiceHeld, PaymentStage, IdleRequest
  <1>5. ASSUME NEW p \in Payments \ lost PROVE Kept(p)'
    <2>1. CASE p # x
      BY <1>1, <1>2, <1>5, <2>1, Untouched, LedgerAssumption
      DEF BookInv, AccountInv, IdleRequest
    <2>2. CASE p = x
      <3>1. Held(r) /\ ListOK(p)
        BY <1>1, <2>2 DEF BookInv, AccountInv, Kept
      <3>2. ListOK(p)'
        BY <1>2, <3>1 DEF ListOK
      <3>3. Held(r)'
        BY <1>1, <1>2, <2>2, <3>1 DEF Held, Entered, Listed
      <3>4. QED
        BY <1>2, <1>4, <2>2, <3>2, <3>3, HeldOn
    <2>3. QED
      BY <2>1, <2>2
  <1>6. QED
    BY <1>2, <1>4, <1>5 DEF AccountInv
LEMMA AccountUpdateWrite ==
    ASSUME BookInv, NEW r \in Requests, PaymentUpdateWrite(r)
    PROVE  AccountInv'
  <1>1. PICK x \in Payments : x = req[r].pay
    BY DEF PaymentUpdateWrite, BookInv, Typed, Fits, PaymentStage
  <1>2. /\ UNCHANGED <<invoice, posted, waived, lost>>
        /\ \A s \in Requests \ {r} : req'[s] = req[s]
        /\ \A p \in Payments \ {x} : payment'[p] = payment[p]
        /\ req[r].pc = "updateWrite" /\ req[r].inv \in Invoices
        /\ \/ /\ payment[x].state = "live"
              /\ payment'[x].state = "live"
              /\ payment'[x].invoice = payment[x].invoice
              /\ payment'[x].amount = Written(req[r], payment[x].amount)
              /\ req'[r].pc = "updatePost" /\ req'[r].pay = x
              /\ req'[r].inv = req[r].inv
              /\ req'[r].new = req[r].new /\ req'[r].old = req[r].old
           \/ /\ payment[x].state # "live" /\ payment'[x] = payment[x]
              /\ req'[r] = IdleRequest
    BY <1>1 DEF PaymentUpdateWrite, Answer, BookInv, Typed, TypeOK, Fits,
       PaymentStage, Request, PaymentDoc
  <1>3. Solo' /\ InvoiceHeld'
    <2>1. /\ req'[r].pc \in {"idle", "updatePost"}
          /\ req'[r].pay \in {None, req[r].pay}
      BY <1>1, <1>2 DEF IdleRequest
    <2>2. req'[r].pc = "updatePost" =>
              /\ req'[r].inv = req[r].inv
              /\ req'[r].new \in Amounts \union {0}
              /\ invoice[req[r].inv].state # "absent"
      BY <1>2 DEF BookInv, AccountInv, InvoiceHeld, PaymentStage, IdleRequest
    <2>3. \A p \in Payments : payment'[p].state = "live" =>
              payment[p].state = "live" /\ payment'[p].invoice = payment[p].invoice
      BY <1>2
    <2>4. Solo'
      BY <1>2, <2>1, SoloKept DEF BookInv, AccountInv
    <2>5. InvoiceHeld'
      BY <1>2, <2>1, <2>2, <2>3, InvoiceHeldKept
      DEF BookInv, AccountInv, PaymentStage
    <2>6. QED
      BY <2>4, <2>5
  <1>4. ASSUME NEW p \in Payments \ lost PROVE Kept(p)'
    <2>1. CASE p # x
      BY <1>1, <1>2, <1>4, <2>1, Untouched, LedgerAssumption
      DEF BookInv, AccountInv, IdleRequest
    <2>2. CASE p = x
      <3>1. Held(r) /\ ListOK(p)
        BY <1>1, <2>2 DEF BookInv, AccountInv, Kept
      <3>2. ListOK(p)'
        BY <1>2, <2>2, <3>1 DEF ListOK
      <3>3. CASE req'[r] = IdleRequest
        <4>1. payment'[x] = payment[x] /\ payment[x].state # "live"
          BY <1>2, <3>3, <1>1, LedgerAssumption DEF IdleRequest
        <4>2. Rest(p)'
          BY <1>1, <1>2, <2>2, <3>1, <4>1 DEF Held, Entered, Rest
        <4>3. QED
          BY <1>1, <1>2, <2>2, <3>2, <3>3, <4>2, Released
          DEF BookInv, AccountInv, IdleRequest
      <3>4. CASE req'[r].pc = "updatePost"
        <4>1. req'[r].pay = x /\ payment[x].state = "live"
          BY <1>2, <3>4 DEF IdleRequest
        <4>2. Held(r)'
          BY <1>1, <1>2, <2>2, <3>1, <3>4, <4>1 DEF Held, Entered, Listed, IdleRequest,
             Written
        <4>3. QED
          BY <1>3, <2>2, <3>2, <4>1, <4>2, HeldOn
      <3>5. QED
        BY <1>2, <3>3, <3>4
    <2>3. QED
      BY <2>1, <2>2
  <1>5. QED
    BY <1>2, <1>3, <1>4 DEF AccountInv

LEMMA AccountUpdatePost ==
    ASSUME BookInv, NEW r \in Requests, PaymentUpdatePost(r)
    PROVE  AccountInv'
  <1> DEFINE i == req[r].inv
             l == invoice[i].list
             d == req[r].new - req[r].old
  <1>1. PICK x \in Payments : x = req[r].pay
    BY DEF PaymentUpdatePost, BookInv, Typed, Fits, PaymentStage
  <1>2. /\ i \in Invoices /\ d \in Int /\ l \in SUBSET Payments
        /\ req[r].pc = "updatePost" /\ Post(r, i, x, d, l)
        /\ req[r].new \in Int /\ req[r].old \in Int
        /\ waived' = [waived EXCEPT ![x] =
               IF req[r].new = 0 THEN waived[x] + req[r].old ELSE waived[x]]
    BY <1>1 DEF PaymentUpdatePost, BookInv, Typed, TypeOK, Fits, PaymentStage,
       Request, InvoiceDoc
  <1>3. /\ \A j \in Invoices : invoice'[j].state = invoice[j].state
        /\ \A j \in Invoices : invoice'[j].list = invoice[j].list
        /\ posted'[x] = posted[x] + d
        /\ UNCHANGED payment
    BY <1>2, PostEffect DEF BookInv
  <1>4. x \notin lost => ListOK(x)' /\ Rest(x)'
    <2> SUFFICES ASSUME x \notin lost PROVE ListOK(x)' /\ Rest(x)'
      OBVIOUS
    <2>1. Held(r) /\ ListOK(x)
      BY <1>1 DEF BookInv, AccountInv, Kept
    <2>2. /\ payment[x].state # "absent" /\ payment[x].invoice = i
          /\ Entered(x) = req[r].old
          /\ payment[x].amount = Written(req[r], req[r].old)
          /\ x \in l
          /\ payment[x].state = "removed" => invoice[i].state = "removed"
      BY <1>1, <1>2, <2>1 DEF Held
    <2>3. Entered(x)' = payment[x].amount
      <3>1. /\ posted[x] \in Int /\ waived[x] \in Int
            /\ waived'[x] = IF req[r].new = 0 THEN waived[x] + req[r].old
                                             ELSE waived[x]
        BY <1>2 DEF BookInv, Typed, TypeOK
      <3>2. posted'[x] = posted[x] + (req[r].new - req[r].old)
        BY <1>3
      <3>3. posted[x] + waived[x] = req[r].old
        BY <2>2 DEF Entered
      <3>4. CASE req[r].new = 0
        BY <1>2, <2>2, <3>1, <3>2, <3>3, <3>4 DEF Entered, Written
      <3>5. CASE req[r].new # 0
        BY <1>2, <2>2, <3>1, <3>2, <3>3, <3>5 DEF Entered, Written
      <3>6. QED
        BY <3>4, <3>5
    <2>4. ListOK(x)'
      BY <1>3, <2>1 DEF ListOK
    <2>5. Rest(x)'
      BY <1>2, <1>3, <2>2, <2>3 DEF Rest
    <2>6. QED
      BY <2>4, <2>5
  <1>5. req[r].pc \in PaymentStage
    BY <1>2 DEF PaymentStage
  <1>6. \A p \in Payments \ {x} : p \in l <=> p \in invoice[i].list
    OBVIOUS
  <1>7. \A p \in Payments \ {x} : waived'[p] = waived[p]
    BY <1>2 DEF BookInv, Typed, TypeOK
  <1> HIDE DEF l, d
  <1>8. QED
    BY <1>1, <1>2, <1>4, <1>5, <1>6, <1>7, AccountPost

LEMMA AccountRemoveWrite ==
    ASSUME BookInv, NEW r \in Requests, PaymentRemoveWrite(r)
    PROVE  AccountInv'
  <1>1. PICK x \in Payments : x = req[r].pay
    BY DEF PaymentRemoveWrite, BookInv, Typed, Fits, PaymentStage
  <1>2. /\ UNCHANGED <<invoice, posted, waived, lost>>
        /\ \A s \in Requests \ {r} : req'[s] = req[s]
        /\ \A p \in Payments \ {x} : payment'[p] = payment[p]
        /\ req[r].pc = "removeWrite" /\ req[r].inv \in Invoices
        /\ payment'[x].state = "removed"
        /\ payment'[x].invoice = payment[x].invoice
        /\ req'[r].pc = "removePost" /\ req'[r].pay = x
        /\ req'[r].inv = req[r].inv /\ req'[r].old = req[r].old
    BY <1>1 DEF PaymentRemoveWrite, BookInv, Typed, TypeOK, Fits,
       PaymentStage, Request, PaymentDoc
  <1>3. Solo' /\ InvoiceHeld'
    BY <1>1, <1>2, SoloKept, InvoiceHeldKept
    DEF BookInv, AccountInv, InvoiceHeld, PaymentStage
  <1>4. ASSUME NEW p \in Payments \ lost PROVE Kept(p)'
    <2>1. CASE p # x
      BY <1>1, <1>2, <1>4, <2>1, Untouched DEF BookInv, AccountInv
    <2>2. CASE p = x
      <3>1. Held(r) /\ ListOK(p)
        BY <1>1, <2>2 DEF BookInv, AccountInv, Kept
      <3>2. ListOK(p)' /\ Held(r)'
        BY <1>1, <1>2, <2>2, <3>1 DEF ListOK, Held, Entered
      <3>3. QED
        BY <1>2, <1>3, <2>2, <3>2, HeldOn
    <2>3. QED
      BY <2>1, <2>2
  <1>5. QED
    BY <1>2, <1>3, <1>4 DEF AccountInv

LEMMA AccountRemovePost ==
    ASSUME BookInv, NEW r \in Requests, PaymentRemovePost(r)
    PROVE  AccountInv'
  <1> DEFINE i == req[r].inv
             d == -req[r].old
  <1>1. PICK x \in Payments : x = req[r].pay
    BY DEF PaymentRemovePost, BookInv, Typed, Fits, PaymentStage
  <1> DEFINE l == invoice[i].list \ {x}
  <1>2. /\ i \in Invoices /\ d \in Int /\ l \in SUBSET Payments
        /\ req[r].pc = "removePost" /\ Post(r, i, x, d, l)
        /\ UNCHANGED waived
    BY <1>1 DEF PaymentRemovePost, BookInv, Typed, TypeOK, Fits, PaymentStage,
       Request, InvoiceDoc
  <1>3. /\ \A j \in Invoices : invoice'[j].state = invoice[j].state
        /\ \A j \in Invoices \ {i} : invoice'[j] = invoice[j]
        /\ invoice'[i].list = l
        /\ posted'[x] = posted[x] + d
        /\ UNCHANGED payment
    BY <1>2, PostEffect DEF BookInv
  <1>4. x \notin lost => ListOK(x)' /\ Rest(x)'
    <2> SUFFICES ASSUME x \notin lost PROVE ListOK(x)' /\ Rest(x)'
      OBVIOUS
    <2>1. Held(r) /\ ListOK(x)
      BY <1>1 DEF BookInv, AccountInv, Kept
    <2>2. /\ payment[x].state = "removed" /\ payment[x].invoice = i
          /\ Entered(x) = req[r].old
      BY <1>1, <1>2, <2>1 DEF Held
    <2>3. Entered(x)' = 0
      BY <1>2, <1>3, <2>2 DEF Entered, BookInv, Typed, TypeOK, Request
    <2>4. ListOK(x)'
      BY <1>3, <2>1 DEF ListOK
    <2>5. ~Listed(x)'
      BY <1>3, <2>1, <2>2 DEF ListOK, Listed
    <2>6. Rest(x)'
      BY <1>2, <1>3, <2>2, <2>3, <2>5 DEF Rest
    <2>7. QED
      BY <2>4, <2>6
  <1>5. /\ req[r].pc \in PaymentStage
        /\ \A p \in Payments \ {x} : p \in l <=> p \in invoice[i].list
    BY <1>2 DEF PaymentStage
  <1> HIDE DEF l, d
  <1>6. QED
    BY <1>1, <1>2, <1>4, <1>5, AccountPost

LEMMA AccountFail ==
    ASSUME BookInv, NEW r \in Requests, RequestFail(r)
    PROVE  AccountInv'
  <1>1. /\ UNCHANGED <<invoice, payment, posted, waived>>
        /\ req'[r] = IdleRequest
        /\ \A s \in Requests \ {r} : req'[s] = req[s]
        /\ lost' = lost \union ({req[r].pay} \ {None})
    BY DEF RequestFail, Answer, BookInv, Typed, TypeOK
  <1>2. Solo' /\ InvoiceHeld'
    BY <1>1, SoloKept, InvoiceHeldKept
    DEF BookInv, AccountInv, PaymentStage, IdleRequest
  <1>3. ASSUME NEW p \in Payments \ lost' PROVE Kept(p)'
    <2>1. p # None /\ p # req[r].pay /\ p \in Payments \ lost
      BY <1>1, LedgerAssumption
    <2>2. QED
      BY <1>1, <2>1, Untouched DEF BookInv, AccountInv, IdleRequest
  <1>4. QED
    BY <1>2, <1>3 DEF AccountInv

-----------------------------------------------------------------------------
LEMMA InitBook == Init => BookInv
  <1> SUFFICES ASSUME Init PROVE BookInv
    OBVIOUS
  <1>1. Typed /\ Fresh
    BY InitTyped DEF Init, Fresh, IdleRequest
  <1>2. Solo /\ InvoiceHeld
    BY DEF Init, Solo, InvoiceHeld, IdleRequest, PaymentStage
  <1>3. ASSUME NEW p \in Payments PROVE Kept(p)
    BY LedgerAssumption
    DEF Init, Kept, ListOK, Rest, Entered, InHand, Listed, IdleRequest
  <1>4. QED
    BY <1>1, <1>2, <1>3 DEF BookInv, AccountInv

LEMMA NextBook == ASSUME Orderly PROVE BookInv /\ [Next]_vars => BookInv'
  <1> SUFFICES ASSUME BookInv, [Next]_vars PROVE BookInv'
    OBVIOUS
  <1>1. Typed' /\ Fresh'
    BY NextTyped, NextFresh DEF BookInv
  <1>2. AccountInv'
    <2>1. ASSUME NEW r \in Requests, Begin(r) PROVE AccountInv'
      BY <2>1, AccountInvoiceUpdateRead, AccountInvoiceRemove,
         AccountCreateRead, AccountUpdateRead, AccountRemoveRead DEF Begin
    <2>2. ASSUME NEW r \in Requests, Continue(r) PROVE AccountInv'
      BY <2>2, AccountInvoiceUpdateWrite, AccountInvoiceCascade,
         AccountCreateInsert, AccountCreatePost, AccountUpdatePopulate,
         AccountUpdateWrite, AccountUpdatePost, AccountRemovePopulate,
         AccountRemoveWrite, AccountRemovePost DEF Continue
    <2>3. CASE UNCHANGED vars
      BY <2>3 DEF vars, BookInv, AccountInv, Solo, InvoiceHeld, Kept, ListOK,
         Rest, Entered, Held, InHand, Listed
    <2>4. QED
      BY <2>1, <2>2, <2>3, AccountInvoiceCreate, AccountFail DEF Next
  <1>3. QED
    BY <1>1, <1>2 DEF BookInv

\* If no two requests write one payment at a time, then whatever else is
\* interleaved and whatever fails, a payment no failed request was working on
\* is accounted for, once and at its amount less what updates without one took
\* off, as soon as no request holds it.
THEOREM PaymentsAccounted == ASSUME Orderly PROVE Spec => []Accounted
  <1>1. BookInv => Accounted
    BY DEF BookInv, AccountInv, Accounted, Kept, Rest, Entered
  <1>2. QED
    BY <1>1, InitBook, NextBook, PTL DEF Spec
-----------------------------------------------------------------------------
(* Refinement: the writes that post are the book's steps, all others leave *)
(* the book as it is.                                                      *)

NoLoss == failures = 0 /\ lost = {}

LEMMA BookUnchanged ==
    ASSUME \A i \in Invoices : /\ invoice'[i].list = invoice[i].list
                               /\ invoice'[i].credit = invoice[i].credit,
           posted' = posted, waived' = waived,
           \A p \in Payments : p \in Struck' <=> p \in Struck
    PROVE  UNCHANGED Book!bookVars
  <1>1. Struck' = Struck
    BY DEF Struck
  <1>2. Entries' = Entries
    BY DEF Entries, Entered
  <1>3. QED
    BY <1>1, <1>2 DEF Book!bookVars

\* The entry of payment x becomes a.
LEMMA EntriesPost ==
    ASSUME NEW x \in Payments, NEW a,
           \A p \in Payments \ {x} : posted'[p] = posted[p] /\ waived'[p] = waived[p],
           Entered(x)' = a
    PROVE  Entries' = [Entries EXCEPT ![x] = a]
  BY DEF Entries, Entered

\* A request that takes up a payment takes one up that is not struck.
LEMMA BookRead ==
    ASSUME NEW r \in Requests, UNCHANGED <<invoice, payment, posted, waived>>,
           \A s \in Requests \ {r} : req'[s] = req[s],
           req[r].pay = None, req'[r].pay = None
               \/ payment[req'[r].pay].state # "removed"
    PROVE  UNCHANGED Book!bookVars
  <1>1. \A p \in Payments : p \in Struck' <=> p \in Struck
    BY LedgerAssumption DEF Struck, InHand
  <1>2. QED
    BY <1>1, BookUnchanged

\* A request that keeps its payment, or drops one that is on a list.
LEMMA BookHeld ==
    ASSUME NEW r \in Requests, UNCHANGED <<invoice, posted, waived>>,
           \A s \in Requests \ {r} : req'[s] = req[s],
           NEW x \in Payments, req[r].pay = x,
           req'[r].pay = x \/ (req'[r].pay = None /\ Listed(x)),
           \A p \in Payments \ {x} : payment'[p] = payment[p]
    PROVE  UNCHANGED Book!bookVars
  <1>1. \A p \in Payments : p \in Struck' <=> p \in Struck
    BY LedgerAssumption DEF Struck, InHand, Listed
  <1>2. QED
    BY <1>1, BookUnchanged

LEMMA BookInvoiceSteps ==
    ASSUME BookInv, NoLoss
    PROVE  /\ \A i \in Invoices, t \in Totals :
                  InvoiceCreate(i, t) => UNCHANGED Book!bookVars
           /\ \A r \in Requests : \A i \in Invoices :
                  InvoiceRemove(r, i) => UNCHANGED Book!bookVars
           /\ \A r \in Requests : InvoiceUpdateWrite(r) \/ InvoiceCascade(r)
                  => UNCHANGED Book!bookVars
  <1>1. ASSUME NEW i \in Invoices, NEW t \in Totals, InvoiceCreate(i, t)
        PROVE  UNCHANGED Book!bookVars
    <2>1. \A j \in Invoices : /\ invoice'[j].list = invoice[j].list
                              /\ invoice'[j].credit = invoice[j].credit
      BY <1>1 DEF InvoiceCreate, BookInv, AccountInv, InvoiceHeld, Typed,
         TypeOK
    <2>2. QED
      BY <1>1, <2>1, BookUnchanged DEF InvoiceCreate, Struck, InHand
  <1>2. ASSUME NEW r \in Requests, NEW i \in Invoices, InvoiceRemove(r, i)
        PROVE  UNCHANGED Book!bookVars
    <2>1. \A j \in Invoices : /\ invoice'[j].list = invoice[j].list
                              /\ invoice'[j].credit = invoice[j].credit
      BY <1>2 DEF InvoiceRemove, BookInv, Typed, TypeOK, InvoiceDoc
    <2>2. /\ \A s \in Requests : req'[s].pay = req[s].pay
          /\ UNCHANGED <<payment, posted, waived>>
      BY <1>2 DEF InvoiceRemove, Idle, IdleRequest, BookInv, Typed, TypeOK,
         Fits
    <2>3. QED
      BY <2>1, <2>2, BookUnchanged DEF Struck, InHand
  <1>3. ASSUME NEW r \in Requests, InvoiceUpdateWrite(r)
        PROVE  UNCHANGED Book!bookVars
    <2>1. \A j \in Invoices : /\ invoice'[j].list = invoice[j].list
                              /\ invoice'[j].credit = invoice[j].credit
      BY <1>3 DEF InvoiceUpdateWrite, BookInv, Typed, TypeOK, InvoiceDoc
    <2>2. /\ \A s \in Requests : req'[s].pay = req[s].pay
          /\ UNCHANGED <<payment, posted, waived>>
      BY <1>3 DEF InvoiceUpdateWrite, Answer, IdleRequest, BookInv, Typed,
         TypeOK, Fits
    <2>3. QED
      BY <2>1, <2>2, BookUnchanged DEF Struck, InHand
  <1>4. ASSUME NEW r \in Requests, InvoiceCascade(r)
        PROVE  UNCHANGED Book!bookVars
    <2>1. /\ \A s \in Requests : req'[s].pay = req[s].pay
          /\ UNCHANGED <<invoice, posted, waived>>
          /\ req[r].inv \in Invoices
      BY <1>4 DEF InvoiceCascade, Answer, IdleRequest, BookInv, Typed,
         TypeOK, Fits
    <2>2. ASSUME NEW p \in Payments, payment'[p].state = "removed",
                 ~InHand(p), ~Listed(p)
          PROVE  payment[p].state = "removed"
      <3>1. Rest(p)
        BY <2>2 DEF BookInv, AccountInv, Kept, NoLoss
      <3>2. payment[p].state = "absent" => payment'[p] = payment[p]
        BY <1>4, <2>1, LedgerAssumption DEF InvoiceCascade, BookInv, Fresh
      <3>3. payment[p].state \in {"absent", "live", "removed"}
        BY DEF BookInv, Typed, TypeOK, PaymentDoc
      <3>4. QED
        BY <2>2, <3>1, <3>2, <3>3 DEF Rest, Listed
    <2>3. \A p \in Payments : payment[p].state = "removed" =>
              payment'[p].state = "removed"
      BY <1>4 DEF InvoiceCascade, BookInv, Typed, TypeOK, PaymentDoc
    <2>4. \A p \in Payments : p \in Struck' <=> p \in Struck
      BY <2>1, <2>2, <2>3 DEF Struck, InHand, Listed
    <2>5. QED
      BY <2>1, <2>4, BookUnchanged
  <1>5. QED
    BY <1>1, <1>2, <1>3, <1>4

LEMMA BookReads ==
    ASSUME BookInv, NEW r \in Requests
    PROVE  /\ \A i \in Invoices, t \in Totals :
                  InvoiceUpdateRead(r, i, t) => UNCHANGED Book!bookVars
           /\ \A i \in Invoices, p \in Payments, a \in Amounts :
                  PaymentCreateRead(r, i, p, a) => UNCHANGED Book!bookVars
           /\ \A p \in Payments, a \in Amounts \union {None} :
                  PaymentUpdateRead(r, p, a) => UNCHANGED Book!bookVars
           /\ \A p \in Payments :
                  PaymentRemoveRead(r, p) => UNCHANGED Book!bookVars
  <1>0. Idle(r) => req[r].pay = None
    BY DEF Idle, BookInv, Typed, Fits
  <1>1. ASSUME NEW i \in Invoices, NEW t \in Totals, InvoiceUpdateRead(r, i, t)
        PROVE  UNCHANGED Book!bookVars
    BY <1>0, <1>1, BookRead
    DEF InvoiceUpdateRead, IdleRequest, BookInv, Typed, TypeOK
  <1>2. ASSUME NEW i \in Invoices, NEW p \in Payments, NEW a \in Amounts,
               PaymentCreateRead(r, i, p, a)
        PROVE  UNCHANGED Book!bookVars
    BY <1>0, <1>2, BookRead
    DEF PaymentCreateRead, IdleRequest, BookInv, Typed, TypeOK
  <1>3. ASSUME NEW p \in Payments, NEW a \in Amounts \union {None},
               PaymentUpdateRead(r, p, a)
        PROVE  UNCHANGED Book!bookVars
    BY <1>0, <1>3, BookRead
    DEF PaymentUpdateRead, IdleRequest, BookInv, Typed, TypeOK
  <1>4. ASSUME NEW p \in Payments, PaymentRemoveRead(r, p)
        PROVE  UNCHANGED Book!bookVars
    BY <1>0, <1>4, BookRead
    DEF PaymentRemoveRead, IdleRequest, BookInv, Typed, TypeOK
  <1>5. QED
    BY <1>1, <1>2, <1>3, <1>4

\* The calls of a payment handler before the one that posts.
LEMMA BookCalls ==
    ASSUME BookInv, NoLoss, NEW r \in Requests,
           \/ PaymentCreateInsert(r)
           \/ PaymentUpdatePopulate(r) \/ PaymentUpdateWrite(r)
           \/ PaymentRemovePopulate(r) \/ PaymentRemoveWrite(r)
    PROVE  UNCHANGED Book!bookVars
  <1>1. PICK x \in Payments : x = req[r].pay
    BY UpdatePopulated, RemovePopulated
    DEF PaymentCreateInsert, PaymentUpdateWrite, PaymentRemoveWrite,
        BookInv, Typed, Fits, PaymentStage
  <1>2. Held(r)
    BY <1>1 DEF BookInv, AccountInv, Kept, NoLoss
  <1>3. CASE PaymentCreateInsert(r)
    BY <1>1, <1>3, BookHeld
    DEF PaymentCreateInsert, BookInv, Typed, TypeOK, Request
  <1>4. CASE PaymentUpdatePopulate(r)
    <2>1. req[r].pc = "updatePopulate" /\ req[r].inv \in Invoices
      BY <1>4, UpdatePopulated DEF BookInv, Typed, Fits, PaymentStage
    <2>2. Listed(x)
      BY <1>1, <1>2, <2>1 DEF Held, Listed
    <2>3. /\ UNCHANGED <<invoice, payment, posted, waived>>
          /\ \A s \in Requests \ {r} : req'[s] = req[s]
          /\ req'[r].pay = x \/ req'[r].pay = None
      BY <1>1, <1>4, UpdatePopulated
      DEF BookInv, Typed, TypeOK, Populates, Answer, IdleRequest
    <2>4. QED
      BY <1>1, <2>2, <2>3, BookHeld
  <1>5. CASE PaymentUpdateWrite(r)
    <2>1. Listed(x)
      BY <1>1, <1>2, <1>5
      DEF PaymentUpdateWrite, Held, Listed, BookInv, Typed, Fits, PaymentStage
    <2>2. /\ UNCHANGED <<invoice, posted, waived>>
          /\ \A s \in Requests \ {r} : req'[s] = req[s]
          /\ req'[r].pay = x \/ req'[r].pay = None
          /\ \A p \in Payments \ {x} : payment'[p] = payment[p]
      BY <1>1, <1>5
      DEF PaymentUpdateWrite, Answer, BookInv, Typed, TypeOK, IdleRequest,
          Request
    <2>3. QED
      BY <1>1, <2>1, <2>2, BookHeld
  <1>6. CASE PaymentRemovePopulate(r)
    <2>1. /\ UNCHANGED <<invoice, payment, posted, waived>>
          /\ \A s \in Requests \ {r} : req'[s] = req[s]
          /\ req'[r].pay = x
      BY <1>1, <1>6, RemovePopulated DEF BookInv, Typed, TypeOK, Populates
    <2>2. QED
      BY <1>1, <2>1, BookHeld
  <1>7. CASE PaymentRemoveWrite(r)
    BY <1>1, <1>7, BookHeld
    DEF PaymentRemoveWrite, BookInv, Typed, TypeOK, Request
  <1>8. QED
    BY <1>3, <1>4, <1>5, <1>6, <1>7

\* What a write that posts does to the book and to the payments in hand.
Posted(i, x, d, l) ==
    /\ [j \in Invoices |-> invoice[j].list]' =
           [[j \in Invoices |-> invoice[j].list] EXCEPT ![i] = l]
    /\ [j \in Invoices |-> invoice[j].credit]' =
           [[j \in Invoices |-> invoice[j].credit] EXCEPT
               ![i] = invoice[i].credit + d]
    /\ posted' = [posted EXCEPT ![x] = posted[x] + d]
    /\ ~InHand(x)' /\ payment' = payment
    /\ \A p \in Payments \ {x} : InHand(p)' <=> InHand(p)
    /\ \A p \in Payments \ {x} : \A j \in Invoices :
           (p \in l <=> p \in invoice[i].list) =>
               (p \in invoice'[j].list <=> p \in invoice[j].list)

LEMMA BookPost ==
    ASSUME BookInv, NEW r \in Requests, NEW i \in Invoices, NEW x \in Payments,
           NEW d \in Int, NEW l \in SUBSET Payments, Post(r, i, x, d, l),
           x = req[r].pay
    PROVE  Posted(i, x, d, l)
  <1>1. /\ \A j \in Invoices \ {i} : invoice'[j] = invoice[j]
        /\ invoice'[i].list = l
        /\ invoice'[i].credit = invoice[i].credit + d
        /\ UNCHANGED payment
        /\ req'[r] = IdleRequest
        /\ \A s \in Requests \ {r} : req'[s] = req[s]
    BY PostEffect DEF BookInv
  <1>2. posted' = [posted EXCEPT ![x] = posted[x] + d]
    BY DEF Post
  <1>3. ~InHand(x)' /\ \A p \in Payments \ {x} : InHand(p)' <=> InHand(p)
    BY <1>1, LedgerAssumption
    DEF InHand, IdleRequest, BookInv, AccountInv, Solo
  <1>4. QED
    BY <1>1, <1>2, <1>3 DEF Posted


LEMMA CreateEnters ==
    ASSUME BookInv, NoLoss, NEW r \in Requests, PaymentCreatePost(r)
    PROVE  [Book!BookNext]_(Book!bookVars)
  <1>0. PICK i \in Invoices, x \in Payments, a \in Amounts :
            i = req[r].inv /\ x = req[r].pay /\ a = req[r].new
    BY DEF PaymentCreatePost, BookInv, Typed, Fits, PaymentStage, AccountInv,
       InvoiceHeld
  <1>1. PICK l \in SUBSET Payments : l = invoice[i].list \union {x}
    BY DEF BookInv, Typed, TypeOK, InvoiceDoc
  <1>2. /\ a \in Int /\ req[r].pc = "createPost" /\ Post(r, i, x, a, l)
        /\ UNCHANGED waived
    BY <1>0, <1>1, LedgerAssumption DEF PaymentCreatePost
  <1>3. Entered(x) = 0 /\ \A j \in Invoices : x \notin invoice[j].list
    BY <1>0, <1>2 DEF Held, Listed, BookInv, AccountInv, Kept, NoLoss
  <1>4. x \notin Struck
    BY <1>0 DEF Struck, InHand
  <1>5. Posted(i, x, a, l)
    BY <1>0, <1>2, BookPost
  <1>6. x \in invoice'[i].list
    BY <1>1, <1>2, PostEffect DEF BookInv
  <1>7. \A p \in Payments : p \in Struck' <=> p \in Struck
    BY <1>1, <1>4, <1>5, <1>6 DEF Posted, Struck
  <1>8. Struck' = Struck
    BY <1>7 DEF Struck
  <1>9. Entries' = [Entries EXCEPT ![x] = a]
    <2>1. /\ posted[x] \in Int /\ waived[x] \in Int
          /\ posted'[x] = posted[x] + a /\ posted[x] + waived[x] = 0
          /\ \A p \in Payments \ {x} : posted'[p] = posted[p]
      BY <1>3, <1>5 DEF Posted, Entered, BookInv, Typed, TypeOK
    <2>2. Entered(x)' = a
      BY <1>2, <2>1 DEF Entered
    <2>3. QED
      BY <1>2, <2>1, <2>2, EntriesPost
  <1>10. Book!Enter(i, x, a)
    BY <1>1, <1>3, <1>4, <1>5, <1>8, <1>9 DEF Posted, Book!Enter
  <1>11. Book!BookNext
    BY <1>10 DEF Book!BookNext
  <1>12. QED
    BY <1>11

LEMMA UpdateCorrects ==
    ASSUME BookInv, NoLoss, NEW r \in Requests, PaymentUpdatePost(r)
    PROVE  [Book!BookNext]_(Book!bookVars)
  <1>0. PICK i \in Invoices, x \in Payments, a \in Amounts \union {0} :
            i = req[r].inv /\ x = req[r].pay /\ a = req[r].new
    BY DEF PaymentUpdatePost, BookInv, Typed, Fits, PaymentStage, AccountInv,
       InvoiceHeld
  <1>1. PICK l \in SUBSET Payments, d \in Int :
            l = invoice[i].list /\ d = a - req[r].old
    <2>1. invoice[i].list \in SUBSET Payments
      BY DEF BookInv, Typed, TypeOK, InvoiceDoc
    <2>2. a - req[r].old \in Int
      <3>1. req[r].old \in Int /\ a \in Int
        BY LedgerAssumption DEF BookInv, Typed, TypeOK, Request
      <3>2. QED
        BY <3>1
    <2>3. QED
      BY <2>1, <2>2
  <1>2. /\ a \in Int /\ req[r].old \in Int
        /\ req[r].pc = "updatePost" /\ Post(r, i, x, d, l)
        /\ waived' = [waived EXCEPT ![x] =
               IF a = 0 THEN waived[x] + req[r].old ELSE waived[x]]
    BY <1>0, <1>1, LedgerAssumption
    DEF PaymentUpdatePost, BookInv, Typed, TypeOK, Request
  <1>3. Entered(x) = req[r].old /\ x \in l
    BY <1>0, <1>1, <1>2 DEF Held, BookInv, AccountInv, Kept, NoLoss
  <1>4. /\ posted[x] \in Int /\ waived[x] \in Int
        /\ posted[x] + waived[x] = req[r].old
        /\ d = a - Entered(x) /\ Entries[x] = Entered(x)
    BY <1>1, <1>2, <1>3 DEF Entries, Entered, BookInv, Typed, TypeOK
  <1>5. Posted(i, x, d, l)
    BY <1>0, <1>2, BookPost
  <1>6. x \in invoice'[i].list
    <2>1. Post(r, i, x, d, l)
      BY <1>2
    <2>2. invoice'[i].list = l
      BY <2>1, PostEffect DEF BookInv
    <2>3. QED
      BY <1>3, <2>2
  <1>7. \A p \in Payments : p \in Struck' <=> p \in Struck
    BY <1>1, <1>3, <1>5, <1>6 DEF Posted, Struck
  <1>8. Struck' = Struck
    BY <1>7 DEF Struck
  <1>9. /\ posted'[x] = posted[x] + d
        /\ \A p \in Payments \ {x} : posted'[p] = posted[p] /\ waived'[p] = waived[p]
    BY <1>2, <1>5 DEF Posted, BookInv, Typed, TypeOK
  <1>10. [j \in Invoices |-> invoice[j].list]' =
             [j \in Invoices |-> invoice[j].list]
    BY <1>1, <1>5 DEF Posted
  <1>11. CASE a # 0
    <2>1. waived'[x] = waived[x]
      BY <1>2, <1>11 DEF BookInv, Typed, TypeOK
    <2>2. Entered(x)' = a
      BY <1>1, <1>2, <1>4, <1>9, <2>1 DEF Entered
    <2>3. Entries' = [Entries EXCEPT ![x] = a]
      BY <1>9, <2>2, EntriesPost
    <2>4. Book!Correct(i, x, a)
      BY <1>1, <1>3, <1>4, <1>5, <1>8, <1>10, <2>3 DEF Posted, Book!Correct
    <2>5. QED
      BY <1>11, <2>4 DEF Book!BookNext
  <1>12. CASE a = 0
    <2>1. waived'[x] = waived[x] + req[r].old
      BY <1>2, <1>12 DEF BookInv, Typed, TypeOK
    <2>2. Entered(x)' = Entered(x)
      BY <1>1, <1>2, <1>4, <1>9, <1>12, <2>1 DEF Entered
    <2>3. Entries' = Entries
      BY <1>9, <2>2 DEF Entries, Entered
    <2>4. [j \in Invoices |-> invoice[j].credit]' =
              [[j \in Invoices |-> invoice[j].credit] EXCEPT ![i] = @ - Entries[x]]
      <3>1. invoice[i].credit + d = invoice[i].credit - Entries[x]
        BY <1>2, <1>3, <1>4, <1>12 DEF BookInv, Typed, TypeOK, InvoiceDoc
      <3>2. QED
        BY <1>5, <3>1 DEF Posted
    <2>5. Book!Waive(i, x)
      BY <1>1, <1>3, <1>8, <1>10, <2>3, <2>4 DEF Book!Waive
    <2>6. QED
      BY <2>5 DEF Book!BookNext
  <1>13. QED
    BY <1>11, <1>12

LEMMA RemoveStrikes ==
    ASSUME BookInv, NoLoss, NEW r \in Requests, PaymentRemovePost(r)
    PROVE  [Book!BookNext]_(Book!bookVars)
  <1>0. PICK i \in Invoices, x \in Payments :
            i = req[r].inv /\ x = req[r].pay
    BY DEF PaymentRemovePost, BookInv, Typed, Fits, PaymentStage
  <1>1. PICK l \in SUBSET Payments, d \in Int :
            l = invoice[i].list \ {x} /\ d = -req[r].old
    <2>1. invoice[i].list \ {x} \in SUBSET Payments
      BY DEF BookInv, Typed, TypeOK, InvoiceDoc
    <2>2. -req[r].old \in Int
      BY DEF BookInv, Typed, TypeOK, Request
    <2>3. QED
      BY <2>1, <2>2
  <1>2. /\ req[r].old \in Int
        /\ req[r].pc = "removePost" /\ Post(r, i, x, d, l)
        /\ UNCHANGED waived
    BY <1>0, <1>1 DEF PaymentRemovePost, BookInv, Typed, TypeOK, Request
  <1>3. /\ Entered(x) = req[r].old /\ x \in invoice[i].list
        /\ payment[x].state = "removed" /\ ListOK(x)
    BY <1>0, <1>2 DEF Held, BookInv, AccountInv, Kept, NoLoss
  <1>4. /\ posted[x] \in Int /\ waived[x] \in Int
        /\ posted[x] + waived[x] + d = 0
        /\ d = -Entered(x) /\ Entries[x] = Entered(x) /\ Entered(x) \in Int
    BY <1>1, <1>2, <1>3 DEF Entries, Entered, BookInv, Typed, TypeOK
  <1>5. Posted(i, x, d, l)
    BY <1>0, <1>2, BookPost
  <1>6. \A j \in Invoices : x \notin invoice'[j].list
    BY <1>1, <1>2, <1>3, PostEffect DEF BookInv, ListOK
  <1>7. \A p \in Payments : p \in Struck' <=> p \in Struck \/ p = x
    BY <1>1, <1>3, <1>5, <1>6 DEF Posted, Struck
  <1>8. Struck' = Struck \union {x}
    BY <1>7 DEF Struck
  <1>9. Entries' = [Entries EXCEPT ![x] = 0]
    <2>1. /\ posted'[x] = posted[x] + d
          /\ \A p \in Payments \ {x} : posted'[p] = posted[p]
      BY <1>5 DEF Posted, BookInv, Typed, TypeOK
    <2>2. Entered(x)' = 0
      BY <1>2, <1>4, <2>1 DEF Entered
    <2>3. QED
      BY <1>2, <2>1, <2>2, EntriesPost
  <1>10. [j \in Invoices |-> invoice[j].credit]' =
             [[j \in Invoices |-> invoice[j].credit] EXCEPT ![i] = @ - Entries[x]]
    <2>1. invoice[i].credit + d = invoice[i].credit - Entries[x]
      BY <1>4 DEF BookInv, Typed, TypeOK, InvoiceDoc
    <2>2. QED
      BY <1>5, <2>1 DEF Posted
  <1>11. Book!Strike(i, x)
    BY <1>1, <1>3, <1>5, <1>8, <1>9, <1>10 DEF Posted, Book!Strike
  <1>12. Book!BookNext
    BY <1>11 DEF Book!BookNext
  <1>13. QED
    BY <1>12

-----------------------------------------------------------------------------
LEMMA NextNoLoss ==
    ASSUME MaxFailures = 0, NoLoss, [Next]_vars
    PROVE  NoLoss' /\ \A r \in Requests : ~RequestFail(r)
  <1>1. \A r \in Requests : ~RequestFail(r)
    BY DEF RequestFail, NoLoss
  <1>2. UNCHANGED <<failures, lost>>
    <2>1. ASSUME NEW i \in Invoices, NEW t \in Totals, InvoiceCreate(i, t)
          PROVE  UNCHANGED <<failures, lost>>
      BY <2>1 DEF InvoiceCreate
    <2>2. ASSUME NEW r \in Requests, Begin(r)
          PROVE  UNCHANGED <<failures, lost>>
      <3>1. \A i, t : InvoiceUpdateRead(r, i, t) => UNCHANGED <<failures, lost>>
        BY DEF InvoiceUpdateRead
      <3>2. \A i : InvoiceRemove(r, i) => UNCHANGED <<failures, lost>>
        BY DEF InvoiceRemove
      <3>3. \A i, p, a : PaymentCreateRead(r, i, p, a)
                => UNCHANGED <<failures, lost>>
        BY DEF PaymentCreateRead
      <3>4. \A p, a : PaymentUpdateRead(r, p, a) => UNCHANGED <<failures, lost>>
        BY DEF PaymentUpdateRead
      <3>5. \A p : PaymentRemoveRead(r, p) => UNCHANGED <<failures, lost>>
        BY DEF PaymentRemoveRead
      <3>6. QED
        BY <2>2, <3>1, <3>2, <3>3, <3>4, <3>5 DEF Begin
    <2>3. ASSUME NEW r \in Requests, Continue(r)
          PROVE  UNCHANGED <<failures, lost>>
      <3>1. InvoiceUpdateWrite(r) \/ InvoiceCascade(r)
                => UNCHANGED <<failures, lost>>
        BY DEF InvoiceUpdateWrite, InvoiceCascade
      <3>2. PaymentCreateInsert(r) \/ PaymentUpdatePopulate(r)
                \/ PaymentRemovePopulate(r) => UNCHANGED <<failures, lost>>
        BY DEF PaymentCreateInsert, PaymentUpdatePopulate,
           PaymentRemovePopulate
      <3>3. PaymentUpdateWrite(r) \/ PaymentRemoveWrite(r)
                => UNCHANGED <<failures, lost>>
        BY DEF PaymentUpdateWrite, PaymentRemoveWrite
      <3>4. \A i, p, d, l : Post(r, i, p, d, l) => UNCHANGED <<failures, lost>>
        BY DEF Post
      <3>5. PaymentCreatePost(r) \/ PaymentUpdatePost(r)
                \/ PaymentRemovePost(r) => UNCHANGED <<failures, lost>>
        BY <3>4 DEF PaymentCreatePost, PaymentUpdatePost, PaymentRemovePost
      <3>6. QED
        BY <2>3, <3>1, <3>2, <3>3, <3>5 DEF Continue
    <2>4. QED
      BY <1>1, <2>1, <2>2, <2>3 DEF Next, vars
  <1>3. QED
    BY <1>1, <1>2 DEF NoLoss

LEMMA InitBookInit == Init => Book!BookInit /\ NoLoss
  <1> SUFFICES ASSUME Init PROVE Book!BookInit /\ NoLoss
    OBVIOUS
  <1>1. Struck = {}
    BY DEF Init, Struck
  <1>2. QED
    BY <1>1 DEF Init, Book!BookInit, NoLoss, Entries, Entered

LEMMA NextBookNext ==
    ASSUME MaxFailures = 0, BookInv, NoLoss, [Next]_vars
    PROVE  [Book!BookNext]_(Book!bookVars)
  <1>1. ASSUME NEW r \in Requests, Begin(r) PROVE UNCHANGED Book!bookVars
    BY <1>1, BookReads, BookInvoiceSteps DEF Begin
  <1>2. ASSUME NEW r \in Requests, Continue(r)
        PROVE  [Book!BookNext]_(Book!bookVars)
    BY <1>2, BookInvoiceSteps, BookCalls, CreateEnters, UpdateCorrects,
       RemoveStrikes DEF Continue
  <1>3. CASE UNCHANGED vars
    BY <1>3 DEF vars, Book!bookVars, Struck, InHand, Entries, Entered
  <1>4. QED
    BY <1>1, <1>2, <1>3, NextNoLoss, BookInvoiceSteps DEF Next

\* When no call fails and no two requests write one payment at a time, the
\* handlers implement the book, however else they interleave: each payment is
\* posted once, on its own invoice, and taken back once; an update without an
\* amount takes it off the credit and leaves it standing.
THEOREM LedgerImplementsBook ==
    ASSUME Orderly, MaxFailures = 0
    PROVE  Spec => BookSpec
  <1>1. Init => BookInv /\ NoLoss /\ Book!BookInit
    BY InitBook, InitBookInit
  <1>2. BookInv /\ NoLoss /\ [Next]_vars
            => BookInv' /\ NoLoss' /\ [Book!BookNext]_(Book!bookVars)
    BY NextBook, NextNoLoss, NextBookNext
  <1>3. QED
    BY <1>1, <1>2, PTL DEF Spec, BookSpec, Book!BookSpec

-----------------------------------------------------------------------------
(* The credit of an invoice, whatever interleaves and whatever fails: it is *)
(* the sum of what was posted for the payments that name the invoice.       *)

PaymentsNaming(i) == {p \in Payments : payment[p].invoice = i}

\* A payment names an invoice that exists, the one its handlers work on.
Named ==
    /\ \A p \in Payments :
           /\ payment[p].state = "absent" => posted[p] = 0
           /\ payment[p].state # "absent" =>
                  /\ payment[p].invoice \in Invoices
                  /\ invoice[payment[p].invoice].state # "absent"
    /\ \A r \in Requests : req[r].pc \in PaymentStage =>
           /\ invoice[req[r].inv].state # "absent"
           /\ req[r].pc # "createInsert" =>
                  /\ payment[req[r].pay].state # "absent"
                  /\ payment[req[r].pay].invoice = req[r].inv

Credited == \A i \in Invoices :
    /\ invoice[i].state = "absent" => invoice[i].credit = 0
    /\ invoice[i].list \subseteq PaymentsNaming(i)
    /\ invoice[i].credit = SumOver(posted, PaymentsNaming(i))

CreditInv == Typed /\ Fresh /\ Named /\ Credited

LEMMA NamedKept ==
    ASSUME Typed, Named, NEW r \in Requests,
           \A s \in Requests \ {r} : req'[s] = req[s],
           \A i \in Invoices :
               invoice[i].state # "absent" => invoice'[i].state # "absent",
           \A p \in Payments :
               \/ /\ payment[p].state = "absent" /\ payment'[p].state = "absent"
                  /\ posted'[p] = posted[p]
               \/ /\ payment[p].state # "absent"
                  /\ payment'[p].state # "absent"
                  /\ payment'[p].invoice = payment[p].invoice
               \/ /\ payment[p].state = "absent"
                  /\ payment'[p].state # "absent"
                  /\ payment'[p].invoice \in Invoices
                  /\ invoice[payment'[p].invoice].state # "absent",
           req'[r].pc \in PaymentStage =>
               /\ invoice'[req'[r].inv].state # "absent"
               /\ req'[r].pc # "createInsert" =>
                      /\ payment'[req'[r].pay].state # "absent"
                      /\ payment'[req'[r].pay].invoice = req'[r].inv
    PROVE  Named'
  <1>1. ASSUME NEW p \in Payments
        PROVE  /\ payment'[p].state = "absent" => posted'[p] = 0
               /\ payment'[p].state # "absent" =>
                      /\ payment'[p].invoice \in Invoices
                      /\ invoice'[payment'[p].invoice].state # "absent"
    BY DEF Named
  <1>2. ASSUME NEW s \in Requests \ {r}, req[s].pc \in PaymentStage
        PROVE  /\ invoice'[req[s].inv].state # "absent"
               /\ req[s].pc # "createInsert" =>
                      /\ payment'[req[s].pay].state # "absent"
                      /\ payment'[req[s].pay].invoice = req[s].inv
    <2>1. req[s].inv \in Invoices /\ req[s].pay \in Payments
      BY <1>2 DEF Typed, Fits
    <2>2. QED
      BY <1>2, <2>1 DEF Named
  <1>3. QED
    BY <1>1, <1>2 DEF Named

\* A step that posts nothing and names no invoice anew.
LEMMA CreditedKept ==
    ASSUME Credited, UNCHANGED posted,
           \A p \in Payments : payment'[p].invoice = payment[p].invoice,
           \A i \in Invoices :
               \/ /\ invoice'[i].credit = invoice[i].credit
                  /\ invoice'[i].list = invoice[i].list
                  /\ invoice'[i].state = "absent" => invoice[i].state = "absent"
               \/ /\ invoice[i].state = "absent" /\ invoice'[i].credit = 0
                  /\ invoice'[i].list = {}
    PROVE  Credited'
  <1>1. ASSUME NEW i \in Invoices
        PROVE  /\ invoice'[i].state = "absent" => invoice'[i].credit = 0
               /\ invoice'[i].list \subseteq PaymentsNaming(i)'
               /\ invoice'[i].credit = SumOver(posted, PaymentsNaming(i))'
    <2>1. PaymentsNaming(i)' = PaymentsNaming(i)
      BY DEF PaymentsNaming
    <2>2. QED
      BY <2>1 DEF Credited
  <1>2. QED
    BY <1>1 DEF Credited

LEMMA CreditedByPost ==
    ASSUME CreditInv, NEW r \in Requests, NEW i \in Invoices,
           NEW x \in Payments, payment[x].invoice = i,
           invoice[i].state # "absent",
           NEW d \in Int, NEW l \in SUBSET Payments, Post(r, i, x, d, l),
           l \subseteq invoice[i].list \union {x}
    PROVE  Credited'
  <1>1. /\ \A j \in Invoices : invoice'[j].state = invoice[j].state
        /\ \A j \in Invoices \ {i} : invoice'[j] = invoice[j]
        /\ invoice'[i].list = l
        /\ invoice'[i].credit = invoice[i].credit + d
        /\ posted'[x] = posted[x] + d
        /\ \A p \in Payments \ {x} : posted'[p] = posted[p]
        /\ UNCHANGED payment
    BY PostEffect DEF CreditInv
  <1>2. posted[x] \in Int /\ posted'[x] \in Int /\ posted'[x] - posted[x] = d
    BY <1>1 DEF CreditInv, Typed, TypeOK
  <1>3. ASSUME NEW j \in Invoices
        PROVE  /\ IsFiniteSet(PaymentsNaming(j))
               /\ Whole(posted, PaymentsNaming(j))
               /\ PaymentsNaming(j)' = PaymentsNaming(j)
    BY <1>1, LedgerAssumption, FS_Subset
    DEF PaymentsNaming, Whole, CreditInv, Typed, TypeOK
  <1>4. ASSUME NEW j \in Invoices \ {i}
        PROVE  SumOver(posted', PaymentsNaming(j)) =
                   SumOver(posted, PaymentsNaming(j))
    <2>1. \A p \in PaymentsNaming(j) : posted[p] = posted'[p]
      BY <1>1 DEF PaymentsNaming
    <2>2. QED
      BY <1>3, <2>1, SumSame
  <1>5. SumOver(posted', PaymentsNaming(i)) =
            SumOver(posted, PaymentsNaming(i)) + d
    <2>1. x \in PaymentsNaming(i)
      BY DEF PaymentsNaming
    <2>2. \A p \in PaymentsNaming(i) \ {x} : posted'[p] = posted[p]
      BY <1>1 DEF PaymentsNaming
    <2>3. SumOver(posted', PaymentsNaming(i)) =
              SumOver(posted, PaymentsNaming(i)) + (posted'[x] - posted[x])
      BY <1>2, <1>3, <2>1, <2>2, SumChange
    <2>4. QED
      BY <1>2, <2>3
  <1>6. ASSUME NEW j \in Invoices
        PROVE  /\ invoice'[j].state = "absent" => invoice'[j].credit = 0
               /\ invoice'[j].list \subseteq PaymentsNaming(j)'
               /\ invoice'[j].credit = SumOver(posted, PaymentsNaming(j))'
    <2>0. /\ invoice[j].state = "absent" => invoice[j].credit = 0
          /\ invoice[j].list \subseteq PaymentsNaming(j)
          /\ invoice[j].credit = SumOver(posted, PaymentsNaming(j))
      BY DEF CreditInv, Credited
    <2>1. CASE j = i
      <3>1. x \in PaymentsNaming(i)
        BY DEF PaymentsNaming
      <3>2. QED
        BY <1>1, <1>3, <1>5, <2>0, <2>1, <3>1
    <2>2. CASE j # i
      BY <1>1, <1>3, <1>4, <2>0, <2>2
    <2>3. QED
      BY <2>1, <2>2
  <1>7. QED
    BY <1>6 DEF Credited

\* The payment create inserts has nothing posted for it yet.
LEMMA CreditedByInsert ==
    ASSUME CreditInv, NEW r \in Requests, PaymentCreateInsert(r)
    PROVE  Credited'
  <1> DEFINE x == req[r].pay
             k == req[r].inv
  <1>1. /\ UNCHANGED <<invoice, posted, waived>>
        /\ x \in Payments /\ k \in Invoices
        /\ payment'[x].invoice = k
        /\ \A p \in Payments \ {x} : payment'[p] = payment[p]
        /\ payment[x].state = "absent"
    BY DEF PaymentCreateInsert, CreditInv, Typed, TypeOK, Fits, PaymentStage,
       Fresh
  <1>2. posted[x] = 0 /\ payment[x].invoice = None /\ invoice[k].state # "absent"
    BY <1>1 DEF CreditInv, Named, Fresh, PaymentCreateInsert, PaymentStage
  <1> HIDE DEF x, k
  <1>3. ASSUME NEW i \in Invoices
        PROVE  /\ invoice[i].list \subseteq PaymentsNaming(i)'
               /\ invoice[i].credit = SumOver(posted, PaymentsNaming(i)')
    <2>0. /\ invoice[i].list \subseteq PaymentsNaming(i)
          /\ invoice[i].credit = SumOver(posted, PaymentsNaming(i))
      BY DEF CreditInv, Credited
    <2>1. CASE i = k
      <3>1. /\ PaymentsNaming(i)' = PaymentsNaming(i) \union {x}
            /\ x \notin PaymentsNaming(i)
        BY <1>1, <1>2, <2>1, LedgerAssumption DEF PaymentsNaming
      <3> DEFINE P == PaymentsNaming(i)'
      <3>2. /\ x \in P /\ P \ {x} = PaymentsNaming(i)
            /\ P \in SUBSET Payments
        BY <1>1, <3>1 DEF PaymentsNaming
      <3> HIDE DEF P
      <3>3. IsFiniteSet(P) /\ \A p \in P : posted[p] \in Int
        BY <3>2, LedgerAssumption, FS_Subset DEF CreditInv, Typed, TypeOK
      <3>4. SumOver(posted, P) = posted[x] + SumOver(posted, PaymentsNaming(i))
        BY <3>2, <3>3, SumTake
      <3>5. invoice[i].credit \in Int
        BY DEF CreditInv, Typed, TypeOK, InvoiceDoc
      <3>6. invoice[i].credit = SumOver(posted, P)
        BY <1>2, <2>0, <3>4, <3>5
      <3>7. QED
        BY <2>0, <3>1, <3>6 DEF P
    <2>2. CASE i # k
      <3>1. PaymentsNaming(i)' = PaymentsNaming(i)
        BY <1>1, <1>2, <2>2, LedgerAssumption DEF PaymentsNaming
      <3>2. QED
        BY <2>0, <3>1
    <2>3. QED
      BY <2>1, <2>2
  <1>4. \A i \in Invoices :
            invoice[i].state = "absent" => invoice[i].credit = 0
    BY DEF CreditInv, Credited
  <1>5. QED
    BY <1>1, <1>3, <1>4 DEF Credited

\* The steps of the payment handlers that post, and what makes them one.
LEMMA Posts ==
    ASSUME CreditInv, NEW r \in Requests,
           \/ PaymentCreatePost(r)
           \/ PaymentUpdatePost(r)
           \/ PaymentRemovePost(r)
    PROVE  \E i \in Invoices, x \in Payments, d \in Int, l \in SUBSET Payments :
               /\ i = req[r].inv /\ x = req[r].pay
               /\ payment[x].state # "absent" /\ payment[x].invoice = i
               /\ invoice[i].state # "absent"
               /\ Post(r, i, x, d, l)
               /\ l \subseteq invoice[i].list \union {x}
  <1>1. /\ req[r].pc \in {"createPost", "updatePost", "removePost"}
        /\ req[r].pc \in PaymentStage /\ req[r].pc # "createInsert"
    BY DEF PaymentCreatePost, PaymentUpdatePost, PaymentRemovePost,
       PaymentStage
  <1>2. PICK i \in Invoices, x \in Payments : i = req[r].inv /\ x = req[r].pay
    BY <1>1 DEF CreditInv, Typed, Fits
  <1>3. /\ payment[x].state # "absent" /\ payment[x].invoice = i
        /\ invoice[i].state # "absent"
    BY <1>1, <1>2 DEF CreditInv, Named
  <1>4. /\ invoice[i].list \in SUBSET Payments
        /\ req[r].new \in Int /\ req[r].old \in Int
        /\ req[r].new - req[r].old \in Int /\ -req[r].old \in Int
    BY DEF CreditInv, Typed, TypeOK, InvoiceDoc, Request
  <1>5. CASE PaymentCreatePost(r)
    <2>1. Post(r, i, x, req[r].new, invoice[i].list \union {x})
      BY <1>2, <1>5 DEF PaymentCreatePost
    <2>2. invoice[i].list \union {x} \in SUBSET Payments
      BY <1>4
    <2>3. QED
      BY <1>2, <1>3, <1>4, <2>1, <2>2
  <1>6. CASE PaymentUpdatePost(r)
    <2>1. Post(r, i, x, req[r].new - req[r].old, invoice[i].list)
      BY <1>2, <1>6 DEF PaymentUpdatePost
    <2>2. QED
      BY <1>2, <1>3, <1>4, <2>1
  <1>7. CASE PaymentRemovePost(r)
    <2>1. Post(r, i, x, -req[r].old, invoice[i].list \ {x})
      BY <1>2, <1>7 DEF PaymentRemovePost
    <2>2. /\ invoice[i].list \ {x} \in SUBSET Payments
          /\ invoice[i].list \ {x} \subseteq invoice[i].list \union {x}
      BY <1>4
    <2>3. QED
      BY <1>2, <1>3, <1>4, <2>1, <2>2
  <1>8. QED
    BY <1>5, <1>6, <1>7

LEMMA NextCredit == CreditInv /\ [Next]_vars => CreditInv'
  <1> SUFFICES ASSUME CreditInv, [Next]_vars PROVE Named' /\ Credited'
    BY NextTyped, NextFresh DEF CreditInv
  <1>0. Typed /\ Fresh /\ Named /\ Credited
    BY DEF CreditInv
  <1>1. ASSUME NEW i \in Invoices, NEW t \in Totals, InvoiceCreate(i, t)
        PROVE  Named' /\ Credited'
    <2>1. /\ UNCHANGED <<payment, req, posted, waived>>
          /\ invoice[i].state = "absent" /\ invoice'[i].state = "live"
          /\ invoice'[i].credit = 0 /\ invoice'[i].list = {}
          /\ \A j \in Invoices \ {i} : invoice'[j] = invoice[j]
      BY <1>0, <1>1 DEF InvoiceCreate, Typed, TypeOK
    <2>2. Named'
      BY <1>0, <2>1 DEF Named, Typed, Fits
    <2>3. Credited'
      BY <1>0, <2>1, CreditedKept
    <2>4. QED
      BY <2>2, <2>3
  <1>2. ASSUME NEW r \in Requests, NEW i \in Invoices, NEW t \in Totals,
               InvoiceUpdateRead(r, i, t)
        PROVE  Named' /\ Credited'
    <2>1. /\ UNCHANGED <<invoice, payment, posted, waived>>
          /\ req'[r].pc = "invoiceWrite"
          /\ \A s \in Requests \ {r} : req'[s] = req[s]
      BY <1>0, <1>2 DEF InvoiceUpdateRead, Typed, TypeOK, IdleRequest
    <2>2. QED
      BY <1>0, <2>1, NamedKept, CreditedKept DEF PaymentStage
  <1>3. ASSUME NEW r \in Requests, InvoiceUpdateWrite(r)
        PROVE  Named' /\ Credited'
    <2>1. /\ UNCHANGED <<payment, posted, waived>>
          /\ req'[r].pc = "idle"
          /\ \A s \in Requests \ {r} : req'[s] = req[s]
      BY <1>0, <1>3 DEF InvoiceUpdateWrite, Answer, Typed, TypeOK, IdleRequest
    <2>2. \A i \in Invoices : /\ invoice'[i].state = invoice[i].state
                              /\ invoice'[i].credit = invoice[i].credit
                              /\ invoice'[i].list = invoice[i].list
      BY <1>0, <1>3 DEF InvoiceUpdateWrite, Typed, TypeOK, InvoiceDoc
    <2>3. QED
      BY <1>0, <2>1, <2>2, NamedKept, CreditedKept DEF PaymentStage
  <1>4. ASSUME NEW r \in Requests, NEW i \in Invoices, InvoiceRemove(r, i)
        PROVE  Named' /\ Credited'
    <2>1. /\ UNCHANGED <<payment, posted, waived>>
          /\ req'[r].pc = "invoiceCascade"
          /\ \A s \in Requests \ {r} : req'[s] = req[s]
      BY <1>0, <1>4 DEF InvoiceRemove, Typed, TypeOK, IdleRequest
    <2>2. \A j \in Invoices :
              /\ invoice[j].state # "absent" <=> invoice'[j].state # "absent"
              /\ invoice'[j].credit = invoice[j].credit
              /\ invoice'[j].list = invoice[j].list
      BY <1>0, <1>4 DEF InvoiceRemove, Typed, TypeOK, InvoiceDoc
    <2>3. QED
      BY <1>0, <2>1, <2>2, NamedKept, CreditedKept DEF PaymentStage
  <1>5. ASSUME NEW r \in Requests, InvoiceCascade(r)
        PROVE  Named' /\ Credited'
    <2>1. /\ UNCHANGED <<invoice, posted, waived>>
          /\ req'[r].pc = "idle"
          /\ \A s \in Requests \ {r} : req'[s] = req[s]
          /\ req[r].inv \in Invoices
      BY <1>0, <1>5
      DEF InvoiceCascade, Answer, Typed, TypeOK, IdleRequest, Fits
    <2>2. ASSUME NEW p \in Payments
          PROVE  /\ payment'[p].invoice = payment[p].invoice
                 /\ payment[p].state = "absent" <=> payment'[p].state = "absent"
      BY <1>0, <1>5, <2>1, LedgerAssumption
      DEF InvoiceCascade, Typed, TypeOK, PaymentDoc, Fresh
    <2>3. QED
      BY <1>0, <2>1, <2>2, NamedKept, CreditedKept DEF PaymentStage
  <1>6. ASSUME NEW r \in Requests, NEW i \in Invoices, NEW p \in Payments,
               NEW a \in Amounts, PaymentCreateRead(r, i, p, a)
        PROVE  Named' /\ Credited'
    <2>1. /\ UNCHANGED <<invoice, payment, posted, waived>>
          /\ req'[r].pc = "createInsert" /\ req'[r].inv = i
          /\ invoice[i].state = "live"
          /\ \A s \in Requests \ {r} : req'[s] = req[s]
      BY <1>0, <1>6 DEF PaymentCreateRead, Typed, TypeOK, IdleRequest
    <2>2. QED
      BY <1>0, <2>1, NamedKept, CreditedKept
  <1>7. ASSUME NEW r \in Requests, PaymentCreateInsert(r)
        PROVE  Named' /\ Credited'
    <2> DEFINE x == req[r].pay
    <2>1. /\ UNCHANGED <<invoice, posted, waived>>
          /\ x \in Payments /\ req[r].inv \in Invoices
          /\ req'[r].pc = "createPost"
          /\ req'[r].inv = req[r].inv /\ req'[r].pay = x
          /\ \A s \in Requests \ {r} : req'[s] = req[s]
          /\ payment[x].state = "absent" /\ payment'[x].state = "live"
          /\ payment'[x].invoice = req[r].inv
          /\ \A p \in Payments \ {x} : payment'[p] = payment[p]
      BY <1>0, <1>7 DEF PaymentCreateInsert, Typed, TypeOK, Fits, PaymentStage,
         Request, Fresh
    <2>2. invoice[req[r].inv].state # "absent"
      BY <1>0, <1>7 DEF PaymentCreateInsert, Named, PaymentStage
    <2> HIDE DEF x
    <2>3. Named'
      BY <1>0, <2>1, <2>2, NamedKept
    <2>4. QED
      BY <1>7, <2>3, CreditedByInsert
  <1>8. ASSUME NEW r \in Requests, NEW p \in Payments,
               NEW a \in Amounts \union {None}, PaymentUpdateRead(r, p, a)
        PROVE  Named' /\ Credited'
    <2>1. /\ UNCHANGED <<invoice, payment, posted, waived>>
          /\ req'[r].pay = p /\ req'[r].inv = payment[p].invoice
          /\ payment[p].state = "live"
          /\ \A s \in Requests \ {r} : req'[s] = req[s]
      BY <1>0, <1>8 DEF PaymentUpdateRead, Typed, TypeOK, IdleRequest
    <2>2. invoice[payment[p].invoice].state # "absent"
      BY <1>0, <2>1 DEF Named
    <2>3. QED
      BY <1>0, <2>1, <2>2, NamedKept, CreditedKept
  <1>9. ASSUME NEW r \in Requests, NEW p \in Payments, PaymentRemoveRead(r, p)
        PROVE  Named' /\ Credited'
    <2>1. /\ UNCHANGED <<invoice, payment, posted, waived>>
          /\ req'[r].pay = p /\ req'[r].inv = payment[p].invoice
          /\ payment[p].state = "live"
          /\ \A s \in Requests \ {r} : req'[s] = req[s]
      BY <1>0, <1>9 DEF PaymentRemoveRead, Typed, TypeOK, IdleRequest
    <2>2. invoice[payment[p].invoice].state # "absent"
      BY <1>0, <2>1 DEF Named
    <2>3. QED
      BY <1>0, <2>1, <2>2, NamedKept, CreditedKept
  <1>10. ASSUME NEW r \in Requests,
                \/ PaymentUpdatePopulate(r)
                \/ PaymentUpdateWrite(r)
                \/ PaymentRemovePopulate(r)
                \/ PaymentRemoveWrite(r)
         PROVE  Named' /\ Credited'
    <2>1. /\ req[r].pc \in PaymentStage /\ req[r].pc # "createInsert"
          /\ UNCHANGED <<invoice, posted, waived>>
          /\ \A s \in Requests \ {r} : req'[s] = req[s]
          /\ \/ req'[r].pc = "idle"
             \/ req'[r].pay = req[r].pay /\ req'[r].inv = req[r].inv
      <3>1. CASE PaymentUpdatePopulate(r)
        BY <1>0, <3>1, UpdatePopulated
        DEF Populates, Answer, IdleRequest, PaymentStage, Typed, TypeOK
      <3>2. CASE PaymentUpdateWrite(r)
        BY <1>0, <3>2
        DEF PaymentUpdateWrite, Answer, IdleRequest, PaymentStage, Typed,
            TypeOK, Request
      <3>3. CASE PaymentRemovePopulate(r)
        BY <1>0, <3>3, RemovePopulated DEF Populates, PaymentStage
      <3>4. CASE PaymentRemoveWrite(r)
        BY <1>0, <3>4
        DEF PaymentRemoveWrite, PaymentStage, Typed, TypeOK, Request
      <3>5. QED
        BY <1>10, <3>1, <3>2, <3>3, <3>4
    <2>2. /\ req[r].pay \in Payments /\ payment[req[r].pay].state # "absent"
          /\ payment[req[r].pay].invoice = req[r].inv
          /\ invoice[req[r].inv].state # "absent"
      BY <1>0, <2>1 DEF Typed, Fits, Named
    <2>3. ASSUME NEW p \in Payments
          PROVE  /\ payment'[p].invoice = payment[p].invoice
                 /\ payment[p].state = "absent" <=> payment'[p].state = "absent"
      <3>1. CASE PaymentUpdatePopulate(r) \/ PaymentRemovePopulate(r)
        BY <3>1 DEF PaymentUpdatePopulate, PaymentRemovePopulate
      <3>2. CASE PaymentUpdateWrite(r)
        BY <1>0, <3>2 DEF PaymentUpdateWrite, Typed, TypeOK, PaymentDoc
      <3>3. CASE PaymentRemoveWrite(r)
        BY <1>0, <2>2, <3>3 DEF PaymentRemoveWrite, Typed, TypeOK, PaymentDoc
      <3>4. QED
        BY <1>10, <3>1, <3>2, <3>3
    <2>4. Named'
      BY <1>0, <2>1, <2>2, <2>3, NamedKept DEF PaymentStage
    <2>5. Credited'
      BY <1>0, <2>1, <2>3, CreditedKept
    <2>6. QED
      BY <2>4, <2>5
  <1>11. ASSUME NEW r \in Requests,
                \/ PaymentCreatePost(r)
                \/ PaymentUpdatePost(r)
                \/ PaymentRemovePost(r)
         PROVE  Named' /\ Credited'
    <2>1. PICK i \in Invoices, x \in Payments, d \in Int, l \in SUBSET Payments :
              /\ payment[x].state # "absent" /\ payment[x].invoice = i
              /\ invoice[i].state # "absent"
              /\ Post(r, i, x, d, l)
              /\ l \subseteq invoice[i].list \union {x}
      BY <1>11, Posts
    <2>2. /\ \A j \in Invoices : invoice'[j].state = invoice[j].state
          /\ \A p \in Payments \ {x} : posted'[p] = posted[p]
          /\ UNCHANGED payment
          /\ req'[r] = IdleRequest
          /\ \A s \in Requests \ {r} : req'[s] = req[s]
      BY <1>0, <2>1, PostEffect
    <2>3. \A p \in Payments : payment[p].state = "absent" => posted'[p] = posted[p]
      BY <2>1, <2>2
    <2>4. Named'
      BY <1>0, <2>2, <2>3, NamedKept DEF IdleRequest, PaymentStage
    <2>5. QED
      BY <2>1, <2>4, CreditedByPost
  <1>12. ASSUME NEW r \in Requests, RequestFail(r)
         PROVE  Named' /\ Credited'
    <2>1. /\ UNCHANGED <<invoice, payment, posted, waived>>
          /\ req'[r].pc = "idle"
          /\ \A s \in Requests \ {r} : req'[s] = req[s]
      BY <1>0, <1>12 DEF RequestFail, Answer, Typed, TypeOK, IdleRequest
    <2>2. QED
      BY <1>0, <2>1, NamedKept, CreditedKept DEF PaymentStage
  <1>13. CASE UNCHANGED vars
    BY <1>0, <1>13 DEF vars, Named, Credited, PaymentsNaming
  <1>14. QED
    BY <1>1, <1>2, <1>3, <1>4, <1>5, <1>6, <1>7, <1>8, <1>9, <1>10, <1>11,
       <1>12, <1>13 DEF Next, Begin, Continue

LEMMA InitCredit == Init => CreditInv
  <1> SUFFICES ASSUME Init PROVE CreditInv
    OBVIOUS
  <1>1. Typed /\ Fresh
    BY InitTyped DEF Init, Fresh, IdleRequest
  <1>2. Named
    BY DEF Init, Named, IdleRequest, PaymentStage
  <1>3. ASSUME NEW i \in Invoices PROVE PaymentsNaming(i) = {}
    BY LedgerAssumption DEF Init, PaymentsNaming
  <1>4. Credited
    BY <1>3, SumEmpty DEF Init, Credited
  <1>5. QED
    BY <1>1, <1>2, <1>4 DEF CreditInv

\* However requests interleave and fail, the credit of an invoice is the sum
\* of what was posted for the payments that name it, and its list names no
\* other payment: the increments of the payment handlers lose no amount.
THEOREM CreditIsPosted == Spec => []Credited
  <1>1. CreditInv => Credited
    BY DEF CreditInv
  <1>2. QED
    BY <1>1, InitCredit, NextCredit, PTL DEF Spec

-----------------------------------------------------------------------------
(* With no request in flight: what was posted for a payment and waived of   *)
(* it is what it stands for, so the credit is the sum of the live payments  *)
(* less what was waived.                                                    *)

LEMMA WaivedWhole ==
    ASSUME Typed, NEW i \in Invoices PROVE WaivedOf(i) \in Int
  <1>1. IsFiniteSet(PaymentsNaming(i)) /\ Whole(waived, PaymentsNaming(i))
    BY LedgerAssumption, FS_Subset DEF PaymentsNaming, Whole, Typed, TypeOK
  <1>2. QED
    BY <1>1, SumInt DEF WaivedOf, PaymentsNaming

LEMMA QuietAgrees ==
    ASSUME BookInv, CreditInv, Quiet, NEW i \in LiveInvoices,
           \A p \in lost : payment[p].invoice # i
    PROVE  /\ invoice[i].list = PaymentsOf(i)
           /\ invoice[i].credit = AmountOf(PaymentsOf(i)) - WaivedOf(i)
  <1> DEFINE amount == [p \in Payments |-> payment[p].amount]
             P == PaymentsNaming(i)
  <1>0. i \in Invoices /\ invoice[i].state = "live" /\ P \in SUBSET Payments
    BY DEF LiveInvoices, PaymentsNaming
  <1>1. ASSUME NEW p \in P
        PROVE  /\ payment[p].state = "live" =>
                      Entered(p) = payment[p].amount /\ p \in invoice[i].list
               /\ payment[p].state # "live" =>
                      Entered(p) = 0 /\ p \notin invoice[i].list
    <2>1. p \in Payments \ lost /\ payment[p].invoice = i
      BY DEF PaymentsNaming
    <2>2. ~InHand(p)
      BY <2>1, LedgerAssumption DEF Quiet, Idle, InHand, BookInv, Typed, Fits
    <2>3. Rest(p) /\ payment[p].state \in {"absent", "live", "removed"}
      BY <2>1, <2>2 DEF BookInv, AccountInv, Kept, Typed, TypeOK, PaymentDoc
    <2>4. QED
      BY <1>0, <2>1, <2>3 DEF Rest, Listed
  <1>2. P \cap LivePayments = PaymentsOf(i)
    BY DEF PaymentsNaming, LivePayments, PaymentsOf
  <1>3. invoice[i].list \subseteq P
    BY <1>0 DEF CreditInv, Credited
  <1>4. invoice[i].list = PaymentsOf(i)
    <2>1. ASSUME NEW p \in invoice[i].list PROVE p \in PaymentsOf(i)
      BY <1>0, <1>1, <1>3 DEF PaymentsOf, LivePayments, PaymentsNaming
    <2>2. ASSUME NEW p \in PaymentsOf(i) PROVE p \in invoice[i].list
      <3>1. p \in P /\ payment[p].state = "live"
        BY DEF PaymentsOf, LivePayments, PaymentsNaming
      <3>2. QED
        BY <1>1, <3>1
    <2>3. QED
      BY <2>1, <2>2
  <1>5. invoice[i].credit + WaivedOf(i) = AmountOf(PaymentsOf(i))
    <2>0. invoice[i].credit = SumOver(posted, P) /\ WaivedOf(i) = SumOver(waived, P)
      BY <1>0 DEF CreditInv, Credited, WaivedOf, PaymentsNaming
    <2> HIDE DEF P
    <2>1. IsFiniteSet(P) /\ Whole(posted, P) /\ Whole(waived, P)
      BY <1>0, LedgerAssumption, FS_Subset DEF Whole, BookInv, Typed, TypeOK
    <2>2. \A p \in P : Entries[p] = Entered(p) /\ Entries[p] = posted[p] + waived[p]
      BY <1>0 DEF Entries, Entered
    <2>3. Whole(Entries, P)
      BY <2>1, <2>2 DEF Whole
    <2>4. SumOver(Entries, P) = SumOver(posted, P) + SumOver(waived, P)
      BY <2>1, <2>2, SumPlus
    <2>5. \A p \in P : p \notin LivePayments => Entries[p] = 0
      BY <1>0, <1>1, <2>2 DEF LivePayments
    <2>6. SumOver(Entries, P) = SumOver(Entries, PaymentsOf(i))
      BY <1>2, <2>1, <2>3, <2>5, SumPart
    <2>7. \A p \in PaymentsOf(i) : Entries[p] = amount[p]
      BY <1>1, <1>2, <2>2 DEF LivePayments
    <2>8. IsFiniteSet(PaymentsOf(i)) /\ Whole(Entries, PaymentsOf(i))
      <3>1. PaymentsOf(i) \in SUBSET P
        BY <1>2
      <3>2. QED
        BY <2>1, <2>3, <3>1, FS_Subset DEF Whole
    <2> HIDE DEF amount
    <2>9. SumOver(Entries, PaymentsOf(i)) = SumOver(amount, PaymentsOf(i))
      BY <2>7, <2>8, SumSame
    <2>10. QED
      BY <2>0, <2>4, <2>6, <2>9 DEF AmountOf, amount
  <1>6. invoice[i].credit \in Int /\ WaivedOf(i) \in Int
    BY <1>0, WaivedWhole DEF BookInv, Typed, TypeOK, InvoiceDoc
  <1>7. QED
    BY <1>4, <1>5, <1>6

LEMMA AgreesNow == BookInv /\ CreditInv => LedgerAgrees
  BY QuietAgrees DEF LedgerAgrees

\* Between requests the three places that say what was paid on an invoice
\* agree, for every number of documents and slots and however many calls have
\* failed: payment documents, list and credit, which is less than the payments
\* by exactly what updates without an amount took off, except on the invoices
\* a failed request was working on.
THEOREM CreditFollowsPayments == ASSUME Orderly PROVE Spec => []LedgerAgrees
  <1>1. Spec => []CreditInv
    BY InitCredit, NextCredit, PTL DEF Spec
  <1>2. BookInv /\ [Next]_vars => BookInv'
    BY NextBook
  <1>3. Spec => []BookInv
    BY <1>2, InitBook, PTL DEF Spec
  <1>4. QED
    BY <1>1, <1>3, AgreesNow, PTL

-----------------------------------------------------------------------------
(* One request at a time: what a handler read is still so when it writes.  *)

Alone == \A r, s \in Requests : r = s

\* The stages at which a payment handler holds the figures of its invoice.
Informed == {"createInsert", "createPost", "updateWrite", "updatePost",
             "removeWrite", "removePost"}

Current(r) == LET q == req[r] doc == invoice[q.inv] IN
    /\ q.pc \in Informed => q.total = doc.total /\ q.credit = doc.credit
    /\ q.pc = "invoiceWrite" => q.credit = doc.credit /\ doc.state # "absent"
    /\ q.pc \in {"createInsert", "createPost"} => q.new <= q.total - q.credit
    /\ q.pc \in {"updateWrite", "updatePost"} =>
           q.new - q.old <= q.total - q.credit

\* The status of an invoice is the one its total and its credit call for.
Stated == \A i \in Invoices : LET doc == invoice[i] IN
    doc.state # "absent" => doc.status = StatusOf(doc.total, doc.credit)

\* Until a call fails, a live payment is on a live invoice, or the cascade
\* that will remove it is under way.
Upheld == failures = 0 =>
    /\ lost = {}
    /\ \A r \in Requests :
           req[r].pc \in PaymentStage => invoice[req[r].inv].state = "live"
    /\ \A p \in Payments : payment[p].state = "live" =>
           \/ invoice[payment[p].invoice].state = "live"
           \/ \E r \in Requests : /\ req[r].pc = "invoiceCascade"
                                  /\ req[r].inv = payment[p].invoice

Serial == (\A r \in Requests : Current(r)) /\ Stated /\ Upheld

SerialInv == CreditInv /\ Serial

LEMMA StatedKept ==
    ASSUME Stated,
           \A i \in Invoices :
               /\ invoice'[i].state = "absent" <=> invoice[i].state = "absent"
               /\ invoice'[i].total = invoice[i].total
               /\ invoice'[i].credit = invoice[i].credit
               /\ invoice'[i].status = invoice[i].status
    PROVE  Stated'
  BY DEF Stated

LEMMA UpheldKept ==
    ASSUME Typed, Alone, Upheld, NEW r \in Requests,
           UNCHANGED <<failures, lost>>, req[r].pc # "invoiceCascade",
           \A i \in Invoices : invoice[i].state = "live"
                                   => invoice'[i].state = "live",
           \A p \in Payments : payment'[p].state = "live" =>
               \/ /\ payment[p].state = "live"
                  /\ payment'[p].invoice = payment[p].invoice
               \/ invoice'[payment'[p].invoice].state = "live",
           req'[r].pc \in PaymentStage => invoice'[req'[r].inv].state = "live"
    PROVE  Upheld'
  <1> SUFFICES ASSUME failures = 0 PROVE Upheld'
    BY DEF Upheld
  <1>1. \A s \in Requests : s = r
    BY DEF Alone
  <1>2. ASSUME NEW p \in Payments, payment[p].state = "live"
        PROVE  invoice'[payment[p].invoice].state = "live"
    BY <1>1, <1>2 DEF Upheld, Typed, PaymentOK
  <1>3. \A p \in Payments : payment'[p].state = "live"
            => invoice'[payment'[p].invoice].state = "live"
    BY <1>2
  <1>4. QED
    BY <1>1, <1>3 DEF Upheld

\* A step after which the one request holds what Current asks of it.
LEMMA SerialKept ==
    ASSUME Alone, NEW r \in Requests, Current(r)', Stated', Upheld'
    PROVE  Serial'
  BY DEF Alone, Serial

LEMMA IdleCurrent ==
    ASSUME NEW r \in Requests, req'[r].pc \in {"idle", "invoiceCascade",
                                               "updatePopulate", "removePopulate"}
    PROVE  Current(r)'
  BY DEF Current, Informed

LEMMA SerialInvoiceCreate ==
    ASSUME SerialInv, Alone, NEW i \in Invoices, NEW t \in Totals,
           InvoiceCreate(i, t)
    PROVE  Serial'
  <1>0. Typed /\ Named /\ Serial
    BY DEF SerialInv, CreditInv
  <1>1. /\ UNCHANGED <<payment, req, failures, lost>>
        /\ invoice[i].state = "absent" /\ invoice'[i].state = "live"
        /\ invoice'[i].credit = 0 /\ invoice'[i].total = t
        /\ invoice'[i].status = IF t = 0 THEN "paid" ELSE "unpaid"
        /\ \A j \in Invoices \ {i} : invoice'[j] = invoice[j]
    BY <1>0 DEF InvoiceCreate, Typed, TypeOK
  <1>2. ASSUME NEW r \in Requests PROVE Current(r)'
    <2>1. Current(r)
      BY <1>0 DEF Serial
    <2>2. CASE req[r].pc \in PaymentStage \/ req[r].pc = "invoiceWrite"
      <3>1. req[r].inv \in Invoices /\ invoice[req[r].inv].state # "absent"
        BY <1>0, <2>1, <2>2 DEF Named, Typed, Fits, Current
      <3>2. QED
        BY <1>1, <2>1, <3>1 DEF Current
    <2>3. CASE ~(req[r].pc \in PaymentStage \/ req[r].pc = "invoiceWrite")
      BY <1>1, <2>3 DEF Current, Informed, PaymentStage
    <2>4. QED
      BY <2>2, <2>3
  <1>3. Stated'
    BY <1>0, <1>1, LedgerAssumption DEF Serial, Stated, StatusOf
  <1>4. Upheld'
    BY <1>0, <1>1 DEF Serial, Upheld, Typed, PaymentOK, Fits
  <1>5. QED
    BY <1>2, <1>3, <1>4 DEF Serial

LEMMA SerialInvoiceUpdateWrite ==
    ASSUME SerialInv, Alone, NEW r \in Requests, InvoiceUpdateWrite(r)
    PROVE  Serial'
  <1> DEFINE i == req[r].inv
             q == req[r]
  <1>0. Typed /\ Serial
    BY DEF SerialInv, CreditInv
  <1>1. /\ UNCHANGED <<payment, failures, lost>>
        /\ q.pc = "invoiceWrite" /\ req'[r].pc = "idle" /\ i \in Invoices
        /\ \A j \in Invoices \ {i} : invoice'[j] = invoice[j]
        /\ invoice'[i].state = invoice[i].state
        /\ invoice'[i].credit = invoice[i].credit
        /\ \/ /\ invoice'[i].total = invoice[i].total
              /\ invoice'[i].status = invoice[i].status
           \/ /\ invoice'[i].total = q.total
              /\ invoice'[i].status = StatusOf(q.total, q.credit)
    BY <1>0 DEF InvoiceUpdateWrite, Answer, IdleRequest, Typed, TypeOK, Fits,
       InvoiceDoc
  <1>2. q.credit = invoice[i].credit
    BY <1>0, <1>1 DEF Serial, Current
  <1> HIDE DEF i, q
  <1>3. Stated'
    BY <1>0, <1>1, <1>2 DEF Serial, Stated
  <1>4. Upheld'
    BY <1>0, <1>1, UpheldKept DEF Serial, PaymentStage, q
  <1>5. QED
    BY <1>1, <1>3, <1>4, IdleCurrent, SerialKept

LEMMA SerialInvoiceRemove ==
    ASSUME SerialInv, Alone, NEW r \in Requests, NEW i \in Invoices,
           InvoiceRemove(r, i)
    PROVE  Serial'
  <1>0. Typed /\ Serial
    BY DEF SerialInv, CreditInv
  <1>1. /\ UNCHANGED <<payment, failures, lost>>
        /\ req[r].pc = "idle" /\ req'[r].pc = "invoiceCascade"
        /\ req'[r].inv = i
        /\ invoice[i].state = "live" /\ invoice'[i].state = "removed"
        /\ \A j \in Invoices \ {i} : invoice'[j] = invoice[j]
        /\ invoice'[i].credit = invoice[i].credit
        /\ invoice'[i].total = invoice[i].total
        /\ invoice'[i].status = invoice[i].status
    BY <1>0 DEF InvoiceRemove, Idle, IdleRequest, Typed, TypeOK, InvoiceDoc
  <1>2. Stated'
    BY <1>0, <1>1, StatedKept DEF Serial
  <1>3. Upheld'
    <2> SUFFICES ASSUME failures = 0 PROVE Upheld'
      BY <1>1 DEF Upheld
    <2>1. \A s \in Requests : s = r
      BY DEF Alone
    <2>2. ASSUME NEW p \in Payments, payment[p].state = "live"
          PROVE  \/ invoice'[payment[p].invoice].state = "live"
                 \/ payment[p].invoice = i
      <3>1. invoice[payment[p].invoice].state = "live"
        BY <1>0, <1>1, <2>1, <2>2 DEF Serial, Upheld
      <3>2. QED
        BY <1>0, <1>1, <2>2, <3>1 DEF Typed, PaymentOK
    <2>3. QED
      BY <1>0, <1>1, <2>1, <2>2 DEF Serial, Upheld, PaymentStage
  <1>4. QED
    BY <1>1, <1>2, <1>3, IdleCurrent, SerialKept

LEMMA SerialInvoiceCascade ==
    ASSUME SerialInv, Alone, NEW r \in Requests, InvoiceCascade(r)
    PROVE  Serial'
  <1>0. Typed /\ Serial
    BY DEF SerialInv, CreditInv
  <1>1. /\ UNCHANGED <<invoice, failures, lost>>
        /\ req[r].pc = "invoiceCascade" /\ req'[r].pc = "idle"
        /\ req[r].inv \in Invoices
    BY <1>0 DEF InvoiceCascade, Answer, IdleRequest, Typed, TypeOK, Fits
  <1>2. ASSUME NEW p \in Payments, payment'[p].state = "live"
        PROVE  payment'[p] = payment[p] /\ payment[p].invoice # req[r].inv
    BY <1>0, <1>2 DEF InvoiceCascade, Typed, TypeOK, PaymentDoc
  <1>3. Upheld'
    <2> SUFFICES ASSUME failures = 0 PROVE Upheld'
      BY <1>1 DEF Upheld
    <2>1. \A s \in Requests : s = r
      BY DEF Alone
    <2>2. ASSUME NEW p \in Payments, payment'[p].state = "live"
          PROVE  invoice'[payment'[p].invoice].state = "live"
      BY <1>0, <1>1, <1>2, <2>1, <2>2 DEF Serial, Upheld
    <2>3. QED
      BY <1>0, <1>1, <2>1, <2>2 DEF Serial, Upheld, PaymentStage
  <1>4. Stated'
    BY <1>0, <1>1, StatedKept DEF Serial
  <1>5. QED
    BY <1>1, <1>3, <1>4, IdleCurrent, SerialKept

\* The reads: the collections stay as they are.
LEMMA SerialRead ==
    ASSUME SerialInv, Alone, NEW r \in Requests, Current(r)',
           req[r].pc # "invoiceCascade",
           UNCHANGED <<invoice, payment, failures, lost>>,
           req'[r].pc \in PaymentStage /\ failures = 0
               => invoice[req'[r].inv].state = "live"
    PROVE  Serial'
  <1>0. Typed /\ Serial
    BY DEF SerialInv, CreditInv
  <1>1. Stated'
    BY <1>0, StatedKept DEF Serial
  <1>2. CASE failures = 0
    BY <1>0, <1>1, <1>2, UpheldKept, SerialKept DEF Serial
  <1>3. CASE failures # 0
    BY <1>1, <1>3, SerialKept DEF Upheld
  <1>4. QED
    BY <1>2, <1>3

LEMMA SerialInvoiceUpdateRead ==
    ASSUME SerialInv, Alone, NEW r \in Requests, NEW i \in Invoices,
           NEW t \in Totals, InvoiceUpdateRead(r, i, t)
    PROVE  Serial'
  <1>1. /\ UNCHANGED <<invoice, payment, failures, lost>>
        /\ req[r].pc = "idle" /\ req'[r].pc = "invoiceWrite"
        /\ req'[r].inv = i /\ req'[r].credit = invoice[i].credit
        /\ invoice[i].state = "live"
    BY DEF InvoiceUpdateRead, Idle, IdleRequest, SerialInv, CreditInv, Typed,
       TypeOK
  <1>2. Current(r)'
    BY <1>1 DEF Current, Informed
  <1>3. QED
    BY <1>1, <1>2, SerialRead DEF PaymentStage

LEMMA SerialCreateRead ==
    ASSUME SerialInv, Alone, NEW r \in Requests, NEW i \in Invoices,
           NEW p \in Payments, NEW a \in Amounts, PaymentCreateRead(r, i, p, a)
    PROVE  Serial'
  <1>1. /\ UNCHANGED <<invoice, payment, failures, lost>>
        /\ req[r].pc = "idle" /\ req'[r].pc = "createInsert"
        /\ req'[r].inv = i /\ req'[r].new = a
        /\ req'[r].credit = invoice[i].credit
        /\ req'[r].total = invoice[i].total
        /\ a <= invoice[i].total - invoice[i].credit
        /\ invoice[i].state = "live"
    BY DEF PaymentCreateRead, Idle, IdleRequest, SerialInv, CreditInv, Typed,
       TypeOK
  <1>2. Current(r)'
    BY <1>1 DEF Current
  <1>3. QED
    BY <1>1, <1>2, SerialRead

\* With its slot idle, no cascade is under way: a live payment's invoice is
\* live until a call fails.
LEMMA IdleUpheld ==
    ASSUME SerialInv, Alone, NEW r \in Requests, req[r].pc = "idle",
           NEW p \in Payments, payment[p].state = "live", failures = 0
    PROVE  invoice[payment[p].invoice].state = "live"
  BY DEF Alone, SerialInv, Serial, Upheld

LEMMA SerialUpdateRead ==
    ASSUME SerialInv, Alone, NEW r \in Requests, NEW p \in Payments,
           NEW a \in Amounts \union {None}, PaymentUpdateRead(r, p, a)
    PROVE  Serial'
  <1>1. /\ UNCHANGED <<invoice, payment, failures, lost>>
        /\ req[r].pc = "idle" /\ req'[r].pc = "updatePopulate"
        /\ req'[r].inv = payment[p].invoice /\ payment[p].state = "live"
    BY DEF PaymentUpdateRead, Idle, IdleRequest, SerialInv, CreditInv, Typed,
       TypeOK
  <1>2. QED
    BY <1>1, IdleUpheld, IdleCurrent, SerialRead

LEMMA SerialRemoveRead ==
    ASSUME SerialInv, Alone, NEW r \in Requests, NEW p \in Payments,
           PaymentRemoveRead(r, p)
    PROVE  Serial'
  <1>1. /\ UNCHANGED <<invoice, payment, failures, lost>>
        /\ req[r].pc = "idle" /\ req'[r].pc = "removePopulate"
        /\ req'[r].inv = payment[p].invoice /\ payment[p].state = "live"
    BY DEF PaymentRemoveRead, Idle, IdleRequest, SerialInv, CreditInv, Typed,
       TypeOK
  <1>2. QED
    BY <1>1, IdleUpheld, IdleCurrent, SerialRead

\* The calls between a handler's reads and its last write.
LEMMA SerialCreateInsert ==
    ASSUME SerialInv, Alone, NEW r \in Requests, PaymentCreateInsert(r)
    PROVE  Serial'
  <1> DEFINE x == req[r].pay
  <1>0. Typed /\ Fresh /\ Serial
    BY DEF SerialInv, CreditInv
  <1>1. /\ UNCHANGED <<invoice, failures, lost>>
        /\ req[r].pc = "createInsert" /\ req'[r].pc = "createPost"
        /\ req'[r].inv = req[r].inv /\ req'[r].new = req[r].new
        /\ req'[r].total = req[r].total /\ req'[r].credit = req[r].credit
        /\ x \in Payments /\ payment'[x].invoice = req[r].inv
        /\ \A p \in Payments \ {x} : payment'[p] = payment[p]
    BY <1>0 DEF PaymentCreateInsert, Typed, TypeOK, Fits, PaymentStage, Request
  <1>2. Current(r)'
    BY <1>0, <1>1 DEF Serial, Current, Informed
  <1>3. Stated'
    BY <1>0, <1>1, StatedKept DEF Serial
  <1>4. Upheld'
    <2>1. CASE failures = 0
      <3>1. invoice[req[r].inv].state = "live"
        BY <1>0, <1>1, <2>1 DEF Serial, Upheld, PaymentStage
      <3> HIDE DEF x
      <3>2. QED
        BY <1>0, <1>1, <3>1, UpheldKept DEF Serial
    <2>2. CASE failures # 0
      BY <1>1, <2>2 DEF Upheld
    <2>3. QED
      BY <2>1, <2>2
  <1>5. QED
    BY <1>2, <1>3, <1>4, SerialKept

LEMMA SerialUpdatePopulate ==
    ASSUME SerialInv, Alone, NEW r \in Requests, PaymentUpdatePopulate(r)
    PROVE  Serial'
  <1>0. Typed /\ Serial
    BY DEF SerialInv, CreditInv
  <1>1. /\ UNCHANGED <<invoice, payment, failures, lost>>
        /\ req[r].pc = "updatePopulate"
    BY <1>0, UpdatePopulated
  <1>2. CASE req'[r].pc = "idle"
    BY <1>1, <1>2, IdleCurrent, SerialRead DEF PaymentStage
  <1>3. CASE /\ Populates(r, "updateWrite")
             /\ req[r].new - req[r].old <= invoice[req[r].inv].total
                                            - invoice[req[r].inv].credit
    <2>1. Current(r)'
      BY <1>1, <1>3 DEF Populates, Current
    <2>2. failures = 0 => invoice[req'[r].inv].state = "live"
      BY <1>0, <1>1, <1>3 DEF Populates, Serial, Upheld, PaymentStage
    <2>3. QED
      BY <1>1, <2>1, <2>2, SerialRead
  <1>4. QED
    BY <1>0, <1>2, <1>3, UpdatePopulated DEF Answer, IdleRequest, Typed, TypeOK

LEMMA SerialRemovePopulate ==
    ASSUME SerialInv, Alone, NEW r \in Requests, PaymentRemovePopulate(r)
    PROVE  Serial'
  <1>0. Typed /\ Serial
    BY DEF SerialInv, CreditInv
  <1>1. /\ UNCHANGED <<invoice, payment, failures, lost>>
        /\ req[r].pc = "removePopulate" /\ Populates(r, "removeWrite")
    BY <1>0, RemovePopulated
  <1>2. Current(r)'
    BY <1>1 DEF Populates, Current
  <1>3. failures = 0 => invoice[req'[r].inv].state = "live"
    BY <1>0, <1>1 DEF Populates, Serial, Upheld, PaymentStage
  <1>4. QED
    BY <1>1, <1>2, <1>3, SerialRead

\* The write to the payment document leaves the invoices alone.
LEMMA SerialPaymentWrite ==
    ASSUME SerialInv, Alone, NEW r \in Requests, Current(r)',
           UNCHANGED <<invoice, failures, lost>>, req[r].pc \in PaymentStage,
           req'[r].pc = "idle" \/ req'[r].inv = req[r].inv,
           \A p \in Payments : payment'[p].state = "live" =>
               /\ payment[p].state = "live"
               /\ payment'[p].invoice = payment[p].invoice
    PROVE  Serial'
  <1>0. Typed /\ Serial
    BY DEF SerialInv, CreditInv
  <1>1. Stated'
    BY <1>0, StatedKept DEF Serial
  <1>2. CASE failures = 0
    <2>1. invoice[req[r].inv].state = "live"
      BY <1>0, <1>2 DEF Serial, Upheld
    <2>2. req[r].pc # "invoiceCascade"
      BY DEF PaymentStage
    <2>3. req'[r].pc \in PaymentStage => invoice'[req'[r].inv].state = "live"
      BY <2>1 DEF PaymentStage
    <2>4. Upheld'
      BY <1>0, <2>2, <2>3, UpheldKept DEF Serial
    <2>5. QED
      BY <1>1, <2>4, SerialKept
  <1>3. CASE failures # 0
    BY <1>1, <1>3, SerialKept DEF Upheld
  <1>4. QED
    BY <1>2, <1>3

LEMMA SerialUpdateWrite ==
    ASSUME SerialInv, Alone, NEW r \in Requests, PaymentUpdateWrite(r)
    PROVE  Serial'
  <1>0. Typed /\ Serial
    BY DEF SerialInv, CreditInv
  <1>1. /\ UNCHANGED <<invoice, failures, lost>>
        /\ req[r].pc = "updateWrite"
        /\ \/ req'[r].pc = "idle"
           \/ /\ req'[r].pc = "updatePost" /\ req'[r].inv = req[r].inv
              /\ req'[r].new = req[r].new /\ req'[r].old = req[r].old
              /\ req'[r].total = req[r].total /\ req'[r].credit = req[r].credit
    BY <1>0 DEF PaymentUpdateWrite, Answer, IdleRequest, Typed, TypeOK, Request
  <1>2. Current(r)'
    BY <1>0, <1>1 DEF Serial, Current, Informed
  <1>3. \A p \in Payments : payment'[p].state = "live" =>
            /\ payment[p].state = "live"
            /\ payment'[p].invoice = payment[p].invoice
    BY <1>0 DEF PaymentUpdateWrite, Typed, TypeOK, PaymentDoc
  <1>4. QED
    BY <1>1, <1>2, <1>3, SerialPaymentWrite DEF PaymentStage

LEMMA SerialRemoveWrite ==
    ASSUME SerialInv, Alone, NEW r \in Requests, PaymentRemoveWrite(r)
    PROVE  Serial'
  <1>0. Typed /\ Serial
    BY DEF SerialInv, CreditInv
  <1>1. /\ UNCHANGED <<invoice, failures, lost>>
        /\ req[r].pc = "removeWrite" /\ req'[r].pc = "removePost"
        /\ req'[r].inv = req[r].inv
        /\ req'[r].total = req[r].total /\ req'[r].credit = req[r].credit
    BY <1>0 DEF PaymentRemoveWrite, Typed, TypeOK, Request
  <1>2. Current(r)'
    BY <1>0, <1>1 DEF Serial, Current, Informed
  <1>3. \A p \in Payments : payment'[p].state = "live" =>
            /\ payment[p].state = "live"
            /\ payment'[p].invoice = payment[p].invoice
    BY <1>0 DEF PaymentRemoveWrite, Typed, TypeOK, PaymentDoc
  <1>4. QED
    BY <1>1, <1>2, <1>3, SerialPaymentWrite DEF PaymentStage

\* The write that posts: the status is computed from figures still so.
LEMMA SerialPost ==
    ASSUME SerialInv, Alone, NEW r \in Requests, NEW i \in Invoices,
           i = req[r].inv, req[r].pc \in {"createPost", "updatePost", "removePost"},
           NEW x \in Payments, NEW d \in Int, NEW l \in SUBSET Payments,
           Post(r, i, x, d, l)
    PROVE  Serial'
  <1>0. Typed /\ Serial
    BY DEF SerialInv, CreditInv
  <1>1. /\ \A j \in Invoices : invoice'[j].state = invoice[j].state
        /\ \A j \in Invoices \ {i} : invoice'[j] = invoice[j]
        /\ invoice'[i].credit = invoice[i].credit + d
        /\ UNCHANGED <<payment, lost>>
        /\ req'[r].pc = "idle"
    BY <1>0, PostEffect DEF IdleRequest
  <1>2. /\ invoice'[i].total = invoice[i].total
        /\ invoice'[i].status = StatusOf(req[r].total, req[r].credit + d)
        /\ UNCHANGED failures
    BY <1>0 DEF Post, Typed, TypeOK, InvoiceDoc
  <1>3. req[r].total = invoice[i].total /\ req[r].credit = invoice[i].credit
    BY <1>0 DEF Serial, Current, Informed
  <1>4. Stated'
    BY <1>0, <1>1, <1>2, <1>3 DEF Serial, Stated
  <1>5. Upheld'
    BY <1>0, <1>1, <1>2, UpheldKept DEF Serial, PaymentStage
  <1>6. QED
    BY <1>1, <1>4, <1>5, IdleCurrent, SerialKept

LEMMA SerialFail ==
    ASSUME SerialInv, Alone, NEW r \in Requests, RequestFail(r)
    PROVE  Serial'
  <1>0. Typed /\ Serial
    BY DEF SerialInv, CreditInv
  <1>1. /\ UNCHANGED invoice /\ req'[r].pc = "idle" /\ failures' # 0
    BY <1>0 DEF RequestFail, Answer, IdleRequest, Typed, TypeOK
  <1>2. Stated' /\ Upheld'
    BY <1>0, <1>1, StatedKept DEF Serial, Upheld
  <1>3. QED
    BY <1>1, <1>2, IdleCurrent, SerialKept

LEMMA NextSerial == ASSUME Alone PROVE SerialInv /\ [Next]_vars => SerialInv'
  <1> SUFFICES ASSUME SerialInv, [Next]_vars PROVE Serial'
    BY NextCredit DEF SerialInv
  <1>1. ASSUME NEW r \in Requests, Begin(r) PROVE Serial'
    BY <1>1, SerialInvoiceUpdateRead, SerialInvoiceRemove, SerialCreateRead,
       SerialUpdateRead, SerialRemoveRead DEF Begin
  <1>2. ASSUME NEW r \in Requests,
               \/ PaymentCreatePost(r)
               \/ PaymentUpdatePost(r)
               \/ PaymentRemovePost(r)
        PROVE  Serial'
    <2>1. req[r].pc \in {"createPost", "updatePost", "removePost"}
      BY <1>2 DEF PaymentCreatePost, PaymentUpdatePost, PaymentRemovePost
    <2>2. PICK i \in Invoices, x \in Payments, d \in Int, l \in SUBSET Payments :
              i = req[r].inv /\ Post(r, i, x, d, l)
      BY <1>2, Posts DEF SerialInv
    <2>3. QED
      BY <2>1, <2>2, SerialPost
  <1>3. ASSUME NEW r \in Requests, Continue(r) PROVE Serial'
    BY <1>2, <1>3, SerialInvoiceUpdateWrite, SerialInvoiceCascade,
       SerialCreateInsert, SerialUpdatePopulate, SerialUpdateWrite,
       SerialRemovePopulate, SerialRemoveWrite DEF Continue
  <1>4. CASE UNCHANGED vars
    BY <1>4 DEF vars, SerialInv, Serial, Current, Stated, Upheld
  <1>5. QED
    BY <1>1, <1>3, <1>4, SerialInvoiceCreate, SerialFail DEF Next

LEMMA InitSerial == Init => SerialInv
  <1> SUFFICES ASSUME Init PROVE Serial
    BY InitCredit DEF SerialInv
  <1>1. (\A r \in Requests : Current(r)) /\ Stated /\ Upheld
    BY DEF Init, IdleRequest, Current, Informed, Stated, Upheld, PaymentStage
  <1>2. QED
    BY <1>1 DEF Serial

LEMMA SpecSerial == ASSUME Alone PROVE Spec => []SerialInv
  <1>1. SerialInv /\ [Next]_vars => SerialInv'
    BY NextSerial
  <1>2. QED
    BY <1>1, InitSerial, PTL DEF Spec

-----------------------------------------------------------------------------
LEMMA StatedAgrees == SerialInv => StatusAgrees
  <1> SUFFICES ASSUME SerialInv, NEW i \in LiveInvoices
               PROVE  LET doc == invoice[i] IN
                   /\ doc.status = "paid" <=> doc.total = doc.credit
                   /\ doc.status = "partially" => doc.credit > 0
                   /\ doc.status = "unpaid" => doc.credit <= 0
    BY DEF StatusAgrees
  <1>1. /\ invoice[i].status = StatusOf(invoice[i].total, invoice[i].credit)
        /\ invoice[i].credit \in Int
    BY DEF SerialInv, Serial, Stated, LiveInvoices, CreditInv, Typed, TypeOK,
       InvoiceDoc
  <1>2. QED
    BY <1>1 DEF StatusOf

\* With one request at a time the status of an invoice is the one its total
\* and credit call for, whichever handler wrote last and whatever failed.
THEOREM StatusFollows == ASSUME Alone PROVE Spec => []StatusAgrees
  <1>1. Spec => []SerialInv
    BY SpecSerial
  <1>2. QED
    BY <1>1, StatedAgrees, PTL

NotOverpaid ==
    \A r \in Requests :
        /\ req[r].pc \in {"createPost", "updatePost"}
        /\ invoice'[req[r].inv].credit > invoice[req[r].inv].credit
        /\ Idle(r)'
        => invoice'[req[r].inv].credit <= invoice[req[r].inv].total

LEMMA NextNotOverpaid ==
    ASSUME Alone, SerialInv, [Next]_vars PROVE NotOverpaid
  <1> SUFFICES ASSUME NEW r \in Requests,
                      req[r].pc \in {"createPost", "updatePost"},
                      invoice'[req[r].inv].credit > invoice[req[r].inv].credit
               PROVE  invoice'[req[r].inv].credit <= invoice[req[r].inv].total
    BY DEF NotOverpaid
  <1> DEFINE i == req[r].inv
             q == req[r]
  <1>0. /\ Typed /\ i \in Invoices
        /\ invoice[i].credit \in Int /\ invoice[i].total \in Int
        /\ q.new \in Int /\ q.old \in Int
    BY DEF SerialInv, CreditInv, Typed, TypeOK, Fits, PaymentStage, InvoiceDoc,
       Request
  <1>a. invoice'[i].credit # invoice[i].credit
    <2>1. CASE invoice'[i].credit = invoice[i].credit
      BY <1>0, <2>1
    <2>2. QED
      BY <2>1
  <1>b. invoice[i].state # "absent" /\ \A s \in Requests : s = r
    BY DEF Alone, SerialInv, CreditInv, Named, PaymentStage
  <1>1. /\ q.total = invoice[i].total /\ q.credit = invoice[i].credit
        /\ q.pc = "createPost" => q.new <= q.total - q.credit
        /\ q.pc = "updatePost" => q.new - q.old <= q.total - q.credit
    BY DEF SerialInv, Serial, Current, Informed
  <1>2. ASSUME NEW x \in Payments, NEW d \in Int, NEW l \in SUBSET Payments,
               Post(r, i, x, d, l), d <= invoice[i].total - invoice[i].credit
        PROVE  invoice'[i].credit <= invoice[i].total
    <2>1. invoice'[i].credit = invoice[i].credit + d
      BY <1>0, <1>2, PostEffect
    <2>2. QED
      BY <1>0, <1>2, <2>1
  <1>3. CASE PaymentCreatePost(r)
    <2>1. /\ q.pay \in Payments /\ q.pc = "createPost"
          /\ invoice[i].list \union {q.pay} \in SUBSET Payments
          /\ Post(r, i, q.pay, q.new, invoice[i].list \union {q.pay})
      BY <1>0, <1>3 DEF PaymentCreatePost, Typed, TypeOK, Fits, PaymentStage,
         InvoiceDoc
    <2> HIDE DEF q, i
    <2>2. q.new <= invoice[i].total - invoice[i].credit
      BY <1>1, <2>1
    <2>3. invoice'[i].credit <= invoice[i].total
      BY <1>0, <1>2, <2>1, <2>2
    <2>4. QED
      BY <2>3 DEF i
  <1>4. CASE PaymentUpdatePost(r)
    <2>1. /\ q.pay \in Payments /\ q.pc = "updatePost"
          /\ invoice[i].list \in SUBSET Payments
          /\ Post(r, i, q.pay, q.new - q.old, invoice[i].list)
      BY <1>0, <1>4 DEF PaymentUpdatePost, Typed, TypeOK, Fits, PaymentStage,
         InvoiceDoc
    <2> HIDE DEF q, i
    <2>2. /\ q.new - q.old <= invoice[i].total - invoice[i].credit
          /\ q.new - q.old \in Int
      BY <1>0, <1>1, <2>1
    <2>3. invoice'[i].credit <= invoice[i].total
      BY <1>2, <2>1, <2>2
    <2>4. QED
      BY <2>3 DEF i
  <1>5. ASSUME NEW j \in Invoices, NEW t \in Totals, InvoiceCreate(j, t)
        PROVE  FALSE
    BY <1>0, <1>5, <1>a, <1>b DEF InvoiceCreate, Typed, TypeOK
  <1>6. ~Begin(r) /\ ~InvoiceUpdateWrite(r) /\ ~PaymentRemovePost(r)
    <2>1. ~Idle(r)
      BY DEF Idle
    <2>2. /\ \A j, t : ~InvoiceUpdateRead(r, j, t)
          /\ \A j : ~InvoiceRemove(r, j)
      BY <2>1, Zenon DEF InvoiceUpdateRead, InvoiceRemove
    <2>3. /\ \A j, p, a : ~PaymentCreateRead(r, j, p, a)
          /\ \A p, a : ~PaymentUpdateRead(r, p, a)
          /\ \A p : ~PaymentRemoveRead(r, p)
      BY <2>1, Zenon DEF PaymentCreateRead, PaymentUpdateRead, PaymentRemoveRead
    <2>4. ~Begin(r)
      BY <2>2, <2>3 DEF Begin
    <2>5. ~InvoiceUpdateWrite(r) /\ ~PaymentRemovePost(r)
      BY DEF InvoiceUpdateWrite, PaymentRemovePost
    <2>6. QED
      BY <2>4, <2>5
  <1>7. UNCHANGED invoice => FALSE
    BY <1>a
  <1>8. CASE UNCHANGED vars
    BY <1>7, <1>8 DEF vars
  <1>9. ASSUME InvoiceCascade(r) \/ PaymentCreateInsert(r)
                   \/ PaymentUpdatePopulate(r) \/ PaymentUpdateWrite(r)
                   \/ PaymentRemovePopulate(r) \/ PaymentRemoveWrite(r)
                   \/ RequestFail(r)
        PROVE  FALSE
    BY <1>7, <1>9 DEF InvoiceCascade, PaymentCreateInsert,
       PaymentUpdatePopulate, PaymentUpdateWrite, PaymentRemovePopulate,
       PaymentRemoveWrite, RequestFail
  <1>10. QED
    BY <1>3, <1>4, <1>5, <1>6, <1>8, <1>9, <1>b DEF Next, Continue

\* With one request at a time no payment that is recorded or corrected takes
\* the credit of its invoice above the total.
THEOREM NeverOverpaid == ASSUME Alone PROVE Spec => NoOverpayment
  <1>1. Spec => []SerialInv
    BY SpecSerial
  <1>2. SerialInv /\ [Next]_vars => NotOverpaid
    BY NextNotOverpaid
  <1>3. QED
    BY <1>1, <1>2, PTL DEF Spec, NoOverpayment, NotOverpaid

-----------------------------------------------------------------------------
(* The dashboard *)

LEMMA AddsUpNow ==
    ASSUME SerialInv, BookInv, Quiet, failures = 0
    PROVE  TotalUndue + TotalReceived =
               TotalInvoiced + SumOver([i \in Invoices |-> WaivedOf(i)], LiveInvoices)
  <1> DEFINE total == [i \in Invoices |-> invoice[i].total]
             credit == [i \in Invoices |-> invoice[i].credit]
             due == [i \in Invoices |-> invoice[i].total - invoice[i].credit]
             off == [i \in Invoices |-> WaivedOf(i)]
             paid == [i \in Invoices |-> invoice[i].credit + WaivedOf(i)]
             amount == [p \in Payments |-> payment[p].amount]
             owner == [p \in Payments |-> payment[p].invoice]
             S == LiveInvoices
             P == LivePayments
             Owing == {i \in S : invoice[i].status \in {"unpaid", "partially"}}
  <1>1. /\ IsFiniteSet(S) /\ IsFiniteSet(P)
        /\ S \in SUBSET Invoices /\ P \in SUBSET Payments
    BY LedgerAssumption, FS_Subset DEF LiveInvoices, LivePayments
  <1>2. /\ \A i \in Invoices : total[i] \in Int /\ credit[i] \in Int
               /\ due[i] \in Int /\ total[i] = due[i] + credit[i]
               /\ off[i] \in Int /\ paid[i] = credit[i] + off[i]
        /\ \A p \in Payments : amount[p] \in Int
    <2>1. ASSUME NEW i \in Invoices
          PROVE  /\ invoice[i].total \in Int /\ invoice[i].credit \in Int
                 /\ WaivedOf(i) \in Int
      BY WaivedWhole DEF SerialInv, CreditInv, Typed, TypeOK, InvoiceDoc
    <2>2. ASSUME NEW p \in Payments PROVE payment[p].amount \in Int
      BY DEF SerialInv, CreditInv, Typed, TypeOK, PaymentDoc
    <2>3. QED
      BY <2>1, <2>2
  <1>3. /\ \A i \in S : paid[i] = SumOver(amount, OwnedBy(P, owner, i))
        /\ \A p \in P : owner[p] \in S
    <2>1. lost = {}
      BY DEF SerialInv, Serial, Upheld
    <2>2. ASSUME NEW i \in S
          PROVE  paid[i] = SumOver(amount, OwnedBy(P, owner, i))
      <3>0. invoice[i].credit = AmountOf(PaymentsOf(i)) - WaivedOf(i)
        BY <2>1, QuietAgrees DEF SerialInv
      <3>1. invoice[i].credit + WaivedOf(i) = AmountOf(PaymentsOf(i))
        <4>1. AmountOf(PaymentsOf(i)) \in Int
          <5>1. PaymentsOf(i) \in SUBSET P
            BY DEF PaymentsOf
          <5>2. IsFiniteSet(PaymentsOf(i)) /\ Whole(amount, PaymentsOf(i))
            BY <1>1, <1>2, <5>1, FS_Subset DEF Whole
          <5>3. QED
            BY <5>2, SumInt DEF AmountOf
        <4>2. i \in Invoices /\ invoice[i].credit \in Int
          BY <1>1 DEF SerialInv, CreditInv, Typed, TypeOK, InvoiceDoc
        <4>3. WaivedOf(i) \in Int
          BY <4>2, WaivedWhole DEF SerialInv, CreditInv
        <4>4. QED
          BY <3>0, <4>1, <4>2, <4>3
      <3>2. PaymentsOf(i) = OwnedBy(P, owner, i)
        BY DEF PaymentsOf, LivePayments, OwnedBy
      <3>3. paid[i] = invoice[i].credit + WaivedOf(i)
        BY <1>1
      <3>4. QED
        BY <3>1, <3>2, <3>3 DEF AmountOf
    <2>3. ASSUME NEW p \in P PROVE owner[p] \in S
      <3>1. p \in Payments /\ payment[p].state = "live"
        BY DEF LivePayments
      <3>2. invoice[payment[p].invoice].state = "live"
        BY <3>1 DEF SerialInv, Serial, Upheld, Quiet, Idle
      <3>3. QED
        BY <3>1, <3>2 DEF LiveInvoices, SerialInv, CreditInv, Typed, PaymentOK
    <2>4. QED
      BY <2>2, <2>3
  <1>4. Owing = S \cap Owing /\ \A i \in S : i \notin Owing => due[i] = 0
    <2>1. ASSUME NEW i \in S, i \notin Owing PROVE due[i] = 0
      <3>1. /\ invoice[i].status = StatusOf(invoice[i].total, invoice[i].credit)
            /\ invoice[i].total \in Int /\ invoice[i].credit \in Int
            /\ i \in Invoices
        BY DEF SerialInv, Serial, Stated, LiveInvoices, CreditInv, Typed,
           TypeOK, InvoiceDoc
      <3>2. invoice[i].total = invoice[i].credit
        BY <2>1, <3>1 DEF StatusOf
      <3>3. QED
        BY <3>1, <3>2
    <2>2. QED
      BY <2>1
  <1>5. TotalUndue = SumOver(due, Owing) /\ TotalReceived = SumOver(amount, P)
            /\ TotalInvoiced = SumOver(total, S)
            /\ SumOver([i \in Invoices |-> WaivedOf(i)], LiveInvoices) = SumOver(off, S)
    BY DEF TotalUndue, TotalReceived, AmountOf, TotalInvoiced
  <1> HIDE DEF total, credit, due, off, paid, amount, owner, S, P, Owing
  <1>6. /\ Whole(total, S) /\ Whole(credit, S) /\ Whole(due, S) /\ Whole(off, S)
        /\ Whole(amount, P)
    BY <1>1, <1>2 DEF Whole
  <1>7. SumOver(due, Owing) = SumOver(due, S)
    BY <1>1, <1>4, <1>6, SumPart
  <1>8. SumOver(credit, S) + SumOver(off, S) = SumOver(amount, P)
    <2>1. SumOver(paid, S) = SumOver(amount, P)
      BY <1>1, <1>3, <1>6, SumByOwner
    <2>2. \A i \in S : paid[i] = credit[i] + off[i]
      BY <1>1, <1>2
    <2>3. SumOver(paid, S) = SumOver(credit, S) + SumOver(off, S)
      BY <1>1, <1>6, <2>2, SumPlus
    <2>4. QED
      BY <2>1, <2>3
  <1>9. SumOver(total, S) = SumOver(due, S) + SumOver(credit, S)
    <2>1. \A i \in S : total[i] = due[i] + credit[i]
      BY <1>1, <1>2
    <2>2. QED
      BY <1>1, <1>6, <2>1, SumPlus
  <1>10. /\ SumOver(due, S) \in Int /\ SumOver(credit, S) \in Int
         /\ SumOver(off, S) \in Int
    BY <1>1, <1>6, SumInt
  <1>11. QED
    BY <1>5, <1>7, <1>8, <1>9, <1>10

\* With one request at a time and no call that failed, what the dashboard says
\* is due and was received is what it says was invoiced and what updates whose
\* body carried no amount took off the credit of those invoices.
THEOREM DashboardTotals == ASSUME Alone PROVE Spec => []DashboardAddsUp
  <1>1. Spec => []SerialInv
    BY SpecSerial
  <1>2. Orderly
    BY DEF Alone, Orderly
  <1>3. BookInv /\ [Next]_vars => BookInv'
    BY <1>2, NextBook
  <1>4. Spec => []BookInv
    BY <1>3, InitBook, PTL DEF Spec
  <1>5. SerialInv /\ BookInv => DashboardAddsUp
    BY AddsUpNow DEF DashboardAddsUp
  <1>6. QED
    BY <1>1, <1>4, <1>5, PTL
=============================================================================
