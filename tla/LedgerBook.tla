----------------------------- MODULE LedgerBook -----------------------------
(***************************************************************************)
(* What the payment API promises, without requests, documents or retries:  *)
(* a book in which every payment is entered once, on one invoice's page,   *)
(* corrected while it stands there, and struck out at most once, and in    *)
(* which the balance of a page moves by exactly what the entry moves by;   *)
(* and what it does besides, when an update names no amount: the balance   *)
(* loses an entry that goes on standing.                                   *)
(***************************************************************************)
EXTENDS Integers

CONSTANTS Invoices, Payments, Amounts

VARIABLES
    page,       \* [Invoices -> SUBSET Payments]: entries standing on a page
    balance,    \* [Invoices -> Int]: money received for the invoice
    entry,      \* [Payments -> Int]: amount entered, 0 when none stands
    struck      \* SUBSET Payments: entries that were struck out

bookVars == <<page, balance, entry, struck>>

BookInit ==
    /\ page = [i \in Invoices |-> {}]
    /\ balance = [i \in Invoices |-> 0]
    /\ entry = [p \in Payments |-> 0]
    /\ struck = {}

\* A new payment of amount a is entered on the page of invoice i.
Enter(i, p, a) ==
    /\ p \notin struck
    /\ \A j \in Invoices : p \notin page[j]
    /\ page' = [page EXCEPT ![i] = @ \union {p}]
    /\ balance' = [balance EXCEPT ![i] = @ + a]
    /\ entry' = [entry EXCEPT ![p] = a]
    /\ UNCHANGED struck

\* The amount of a standing entry is corrected to a.
Correct(i, p, a) ==
    /\ p \in page[i]
    /\ balance' = [balance EXCEPT ![i] = @ + (a - entry[p])]
    /\ entry' = [entry EXCEPT ![p] = a]
    /\ UNCHANGED <<page, struck>>

\* An update without an amount: the balance loses the entry, and it stands.
Waive(i, p) ==
    /\ p \in page[i]
    /\ balance' = [balance EXCEPT ![i] = @ - entry[p]]
    /\ UNCHANGED <<page, entry, struck>>

\* A standing entry is struck out and the whole of it leaves the balance.
Strike(i, p) ==
    /\ p \in page[i]
    /\ page' = [page EXCEPT ![i] = @ \ {p}]
    /\ balance' = [balance EXCEPT ![i] = @ - entry[p]]
    /\ entry' = [entry EXCEPT ![p] = 0]
    /\ struck' = struck \union {p}

BookNext == \E i \in Invoices, p \in Payments :
    \/ \E a \in Amounts : Enter(i, p, a) \/ Correct(i, p, a)
    \/ Waive(i, p) \/ Strike(i, p)

BookSpec == BookInit /\ [][BookNext]_bookVars
=============================================================================
