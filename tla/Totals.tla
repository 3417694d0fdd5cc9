-------------------------------- MODULE Totals --------------------------------
(***************************************************************************)
(* The totals of an invoice or quote: what its form adds up while the user *)
(* edits rows and chooses a tax (CreateItem, UpdateItem, ItemRow,          *)
(* QuoteForm, InvoiceForm, SelectAsync), and what the create and update    *)
(* handlers add up again and store.                                        *)
(*                                                                         *)
(* Quantities and prices are whole thousandths, totals whole cents; the    *)
(* rounding is that of currency.js.  Effects of React run in the step of   *)
(* what causes them.                                                       *)
(***************************************************************************)
EXTENDS Integers, Sequences, SequencesExt, Sums

CONSTANTS
    Quantities,     \* quantities that are typed, in thousandths
    Prices,         \* prices that are typed, in thousandths
    Rates,          \* percentages of the taxes
    Missing,        \* what a field that is not filled in has
    MaxRows         \* bound on the rows of a form

ASSUME TotalsAssumption ==
    /\ Quantities \subseteq Nat /\ Prices \subseteq Nat /\ Rates \subseteq Nat
    /\ Missing \notin Nat
    /\ MaxRows \in Nat

VARIABLES
    form,           \* the page with its form
    taxes,          \* the select of the taxes
    request,        \* the body that was sent, with the total that was shown
    document        \* what is stored

totalsVars == <<form, taxes, request, document>>

-----------------------------------------------------------------------------
(* calculate: the first operand is rounded to cents, and so is the product. *)

Cents(x) == (x + 5) \div 10

Multiply(x, y) == (Cents(x) * y + 500) \div 1000

Tax(subTotal, rate) == (subTotal * rate + 50) \div 100

Row == [quantity : Quantities \union {Missing}, price : Prices \union {Missing}]

EmptyRow == [quantity |-> Missing, price |-> Missing]

Complete(row) == row.quantity # Missing /\ row.price # Missing

Line(row) == Multiply(row.quantity, row.price)

\* What a row shows as its total: the operands are the other way round.
LineShown(row) == Multiply(row.price, row.quantity)

\* Rows that are not complete are left out, as are those of nothing.
SubTotal(rows) ==
    LET Added(row) == IF Complete(row) THEN Line(row) ELSE 0
    IN  SumOver([i \in DOMAIN rows |-> Added(rows[i])], DOMAIN rows)

-----------------------------------------------------------------------------
\* page is "create", "update" or, when neither is open, "read"; subTotal,
\* taxRate and total are the states of the form, chosen its value of the tax.
Form == [page : {"create", "update", "read", "crashed"}, rows : Seq(Row),
         subTotal : Nat, taxRate : Nat, chosen : Rates \union {Missing},
         total : Nat]

\* The fetches of the list of taxes: it is fetched again when the first fetch
\* has ended, and only the first success sets the options.
Taxes == [fetch : {"first", "second", "done"}, options : {"none", "all", "null"}]

FreshTaxes == [fetch |-> "first", options |-> "none"]

Nothing == [page |-> "read", rows |-> <<>>, subTotal |-> 0, taxRate |-> 0,
            chosen |-> Missing, total |-> 0]

\* The request that is out: its body, and the total the form showed then.
Request == [pc : {"none", "sent", "stored"}, page : {"create", "update"},
            rows : Seq(Row), taxRate : Rates \union {Missing}, shown : Nat]

Unsent == [pc |-> "none", page |-> "create", rows |-> <<>>,
           taxRate |-> Missing, shown |-> 0]

\* The document stored last; shown is history: the total its sender was shown.
Document == [rows : Seq(Row), taxRate : Rates \union {Missing},
             subTotal : Nat, total : Nat, shown : Nat]

NoDocument == [rows |-> <<>>, taxRate |-> Missing,
               subTotal |-> 0, total |-> 0, shown |-> 0]

\* The effect on [subTotal, taxRate].
Totalled(f) == [f EXCEPT !.total = f.subTotal + Tax(f.subTotal, f.taxRate)]

\* onValuesChange.
Changed(f, rows) ==
    Totalled([f EXCEPT !.rows = rows, !.subTotal = SubTotal(rows)])

\* A slip: the total does not follow the tax.
TaxedOnly(f, rate) == [f EXCEPT !.chosen = rate, !.taxRate = rate]

\* The value of the tax reaches the state through the select's effect.
Taxed(f, rate) == Totalled([f EXCEPT !.chosen = rate, !.taxRate = rate])

Editing == form.page \in {"create", "update"} /\ request.pc # "sent"

-----------------------------------------------------------------------------
\* The form of a new document begins with an empty row.
OpenCreate ==
    /\ form.page = "read" /\ document.rows = <<>>
    /\ form' = [Nothing EXCEPT !.page = "create", !.rows = <<EmptyRow>>]
    /\ taxes' = FreshTaxes
    /\ UNCHANGED <<request, document>>

\* The form of one that is there is filled with it: the subtotal is the stored
\* one, the tax comes through the select.
OpenUpdate ==
    /\ form.page = "read" /\ document.rows # <<>>
    /\ form' = Taxed([Nothing EXCEPT !.page = "update", !.rows = document.rows,
                                     !.subTotal = document.subTotal],
                     document.taxRate)
    /\ taxes' = FreshTaxes
    /\ UNCHANGED <<request, document>>

Leave ==
    /\ form.page \in {"create", "update"}
    /\ form' = Nothing
    /\ UNCHANGED <<taxes, request, document>>

AddRow ==
    /\ Editing /\ Len(form.rows) < MaxRows
    /\ form' = Changed(form, Append(form.rows, EmptyRow))
    /\ UNCHANGED <<taxes, request, document>>

\* A slip: the subtotal is not added up again.
RemoveRowQuietly(i) ==
    /\ Editing
    /\ form' = [form EXCEPT !.rows = RemoveAt(form.rows, i)]
    /\ UNCHANGED <<taxes, request, document>>

RemoveRow(i) ==
    /\ Editing
    /\ form' = Changed(form, RemoveAt(form.rows, i))
    /\ UNCHANGED <<taxes, request, document>>

Edit(i) ==
    /\ Editing
    /\ \/ \E q \in Quantities \union {Missing} :
              form' = Changed(form, [form.rows EXCEPT ![i].quantity = q])
       \/ \E p \in Prices \union {Missing} :
              form' = Changed(form, [form.rows EXCEPT ![i].price = p])
    /\ UNCHANGED <<taxes, request, document>>

\* The select is disabled until its first fetch has ended.
ChooseTax(rate) ==
    /\ Editing /\ taxes.options = "all"
    /\ form' = Taxed(form, rate)
    /\ UNCHANGED <<taxes, request, document>>

\* The list of taxes is answered.  The hook calls every answer a success; one
\* that failed has no list, and the select of no list ends the page.
TaxesAnswered(ok) ==
    /\ form.page \in {"create", "update"} /\ taxes.fetch # "done"
    /\ taxes' = [fetch |-> IF taxes.fetch = "first" THEN "second" ELSE "done",
                 options |-> IF taxes.fetch # "first" THEN taxes.options
                             ELSE IF ok THEN "all" ELSE "null"]
    /\ form' = IF taxes.fetch = "first" /\ ~ok
               THEN [Nothing EXCEPT !.page = "crashed"] ELSE form
    /\ UNCHANGED <<request, document>>

-----------------------------------------------------------------------------
\* The rules of the form let it be sent when every field is filled in.  A
\* spinner covers it until the answer comes.
SendForm ==
    /\ Editing
    /\ \A i \in DOMAIN form.rows : Complete(form.rows[i])
    /\ form.chosen # Missing
    /\ request' = [Unsent EXCEPT !.pc = "sent", !.page = form.page,
                                 !.rows = form.rows, !.taxRate = form.chosen,
                                 !.shown = form.total]
    /\ UNCHANGED <<form, taxes, document>>

\* The handlers of creation and update add up the rows of the body, whatever
\* total it has.
Stored(q) ==
    LET subTotal == SubTotal(q.rows)
    IN  [rows |-> q.rows, taxRate |-> q.taxRate, subTotal |-> subTotal,
         total |-> subTotal + Tax(subTotal, q.taxRate), shown |-> q.shown]

\* An update without rows is refused with 400; the creation of a quote is not.
\* (That of an invoice may be refused by its schema: FormRefused.)
Store ==
    /\ request.pc = "sent"
    /\ \/ request.page = "create" \/ request.rows # <<>>
    /\ document' = Stored(request)
    /\ request' = [request EXCEPT !.pc = "stored"]
    /\ UNCHANGED <<form, taxes>>

\* Nothing was stored.
FormRefused ==
    /\ request.pc = "sent"
    /\ request' = Unsent
    /\ UNCHANGED <<form, taxes, document>>

\* The page of the document is shown.
Answered ==
    /\ request.pc = "stored"
    /\ form' = IF form.page \in {"create", "update"} THEN Nothing ELSE form
    /\ request' = Unsent
    /\ UNCHANGED <<taxes, document>>

\* The answer is lost: the form stays, to be sent again.
AnswerLost ==
    /\ request.pc = "stored"
    /\ request' = Unsent
    /\ UNCHANGED <<form, taxes, document>>

\* The page is loaded again.
Recover ==
    /\ form.page = "crashed"
    /\ form' = Nothing
    /\ request' = Unsent
    /\ UNCHANGED <<taxes, document>>

-----------------------------------------------------------------------------
TotalsInit ==
    /\ form = Nothing
    /\ taxes = FreshTaxes
    /\ request = Unsent
    /\ document = NoDocument

TotalsNext ==
    \/ OpenCreate \/ OpenUpdate \/ Leave
    \/ AddRow
    \/ \E i \in DOMAIN form.rows : RemoveRow(i) \/ Edit(i)
    \/ \E rate \in Rates : ChooseTax(rate)
    \/ \E ok \in BOOLEAN : TaxesAnswered(ok)
    \/ SendForm \/ Store \/ FormRefused \/ Answered \/ AnswerLost
    \/ Recover

TotalsSpec == TotalsInit /\ [][TotalsNext]_totalsVars
-----------------------------------------------------------------------------
TotalsTypeOK ==
    /\ form \in Form
    /\ taxes \in Taxes
    /\ request \in Request
    /\ document \in Document

\* What the server stores as the total of an invoice or quote is the total the
\* user saw when it was sent, whatever was edited, added, removed or opened
\* again before, in rows or in the tax.
ShownIsStored == document.total = document.shown

\* The totals of the rows add up to the subtotal beneath them, when quantities
\* and prices have no more than two decimals.  (The rows multiply the other way
\* round, and only the first operand is rounded before.)
RowsAddUp ==
    LET Fine(row) == Complete(row) => row.quantity % 10 = 0 /\ row.price % 10 = 0
        Shown(row) == IF Complete(row) THEN LineShown(row) ELSE 0
    IN  form.page \in {"create", "update"} /\ (\A i \in DOMAIN form.rows : Fine(form.rows[i]))
        => form.subTotal =
               SumOver([i \in DOMAIN form.rows |-> Shown(form.rows[i])], DOMAIN form.rows)
=============================================================================
