------------------------------ MODULE MCLedger ------------------------------
(* Small instances of Ledger. *)
EXTENDS Ledger, TLC

CONSTANTS i1, i2, p1, p2, r1, r2

OneInvoice == {i1}
TwoInvoices == {i1, i2}
OnePayment == {p1}
TwoPayments == {p1, p2}
OneRequest == {r1}
TwoRequests == {r1, r2}

\* A total of 0 is paid when created; 2 leaves room for one payment of 2 or two
\* of 1, and lowered to 0 it runs into the credit.
SomeTotals == {0, 2}
TwoTotals == {1, 2}

SomeAmounts == {1, 2}

\* A refund next to a payment: the API takes negative amounts.
RefundAmounts == {-1, 1, 2}

MCSymmetry == Permutations({i1, i2}) \union Permutations({p1, p2})
=============================================================================
