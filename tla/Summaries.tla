------------------------------- MODULE Summaries ------------------------------
(***************************************************************************)
(* The cards of the dashboard and the summaries they show: of the invoices *)
(* (two aggregates, one after the other), of the quotes and of the clients *)
(* (one each), with the hooks that fetch them (useOnFetch, useFetch).      *)
(*                                                                         *)
(* The cards do not know of each other: one of them is looked at.  The sum *)
(* of the payments, the recent documents and the formatting are left out.  *)
(***************************************************************************)
EXTENDS Integers, FiniteSets, Sums

CONSTANTS
    Slots,          \* documents there may be: invoices, or quotes
    Amounts,        \* totals of documents
    StatusesInUse,  \* statuses of documents that are in use
    Customers       \* clients there may be

ASSUME SummariesAssumption ==
    /\ Slots # {} /\ Customers # {} /\ StatusesInUse # {}
    /\ IsFiniteSet(Slots) /\ IsFiniteSet(Customers)
    /\ Amounts \subseteq Nat \ {0}

VARIABLES
    card,           \* the card that is looked at
    docs,           \* the invoices or quotes
    customers       \* the clients

summaryVars == <<card, docs, customers>>

-----------------------------------------------------------------------------
\* live is not removed; late is past expiredDate; credit is what was paid.
Doc == [live : BOOLEAN, total : Nat, credit : Nat, status : StatusesInUse,
        late : BOOLEAN, client : Customers]

NoDoc == [live |-> FALSE, total |-> 0, credit |-> 0,
          status |-> CHOOSE s \in StatusesInUse : TRUE, late |-> FALSE,
          client |-> CHOOSE c \in Customers : TRUE]

\* A client in good standing is neither removed nor disabled.
Standings == {"none", "good", "new", "off"}

PaymentStatuses == {"unpaid", "partially", "paid"}

\* What the handlers of invoices and payments make it once they are through.
PaymentStatus(doc) ==
    CASE doc.credit = doc.total -> "paid"
      [] doc.credit > 0 /\ doc.credit # doc.total -> "partially"
      [] OTHER -> "unpaid"

Live == {d \in Slots : docs[d].live}

TotalOf(D) == SumOver([d \in Slots |-> docs[d].total], D)

CreditOf(D) == SumOver([d \in Slots |-> docs[d].credit], D)

Unsettled == {d \in Slots : PaymentStatus(docs[d]) \in {"unpaid", "partially"}}

DueOf(D) ==
    SumOver([d \in Slots |-> docs[d].total - docs[d].credit], D \intersect Unsettled)

Percent(part, whole) == (200 * part + whole) \div (2 * whole)

Share(D) == IF Live = {} THEN 0 ELSE Percent(Cardinality(D), Cardinality(Live))

\* The rows of a card, with their shares; a row of which nothing is answered
\* shows 0.
InvoiceRows == {"draft", "pending", "overdue"} \union PaymentStatuses

QuoteRows == {"draft", "pending", "sent", "accepted", "declined", "expired"}

Rows == InvoiceRows \union QuoteRows \union {"active", "new"}

NoShares == [r \in Rows |-> 0]

Card == [kind : {"invoice", "quote", "client"},
         pc : {"unasked", "asked", "counted", "answered", "shown"},
         again : BOOLEAN, total : Nat, due : Nat, shares : [Rows -> Nat],
         changed : BOOLEAN, stray : BOOLEAN]

FreshCard(kind) == [kind |-> kind, pc |-> "unasked", again |-> FALSE,
                    total |-> 0, due |-> 0, shares |-> NoShares,
                    changed |-> FALSE, stray |-> FALSE]

-----------------------------------------------------------------------------
(* The summaries *)

\* Payment statuses come first, then statuses, and of those that are overdue,
\* grouped by status, the first group there is.
InvoiceShares(group) ==
    [r \in Rows |->
        CASE r \in PaymentStatuses ->
                 Share({d \in Live : PaymentStatus(docs[d]) = r})
          [] r \in {"draft", "pending"} ->
                 Share({d \in Live : docs[d].status = r})
          [] r = "overdue" ->
                 Share({d \in Live : docs[d].late /\ docs[d].status = group})
          [] OTHER -> 0]

\* Statuses of quotes that the card has no row for are answered and not shown.
QuoteShares ==
    [r \in Rows |-> IF r \in QuoteRows THEN Share({d \in Live : docs[d].status = r}) ELSE 0]

Good == {c \in Customers : customers[c] \in {"good", "new"}}

\* A client is active by its invoices alone, whatever became of it.
Active == {docs[d].client : d \in Live}

ClientShares ==
    [NoShares EXCEPT
        !["active"] = IF Good = {} THEN 0 ELSE Percent(Cardinality(Active), Cardinality(Good)),
        !["new"] = IF Good = {} THEN 0
                   ELSE Percent(Cardinality({c \in Good : customers[c] = "new"}), Cardinality(Good))]

-----------------------------------------------------------------------------
\* The dashboard asks when it knows the currency; the client card at once.
AskSummary ==
    /\ card.pc = "unasked"
    /\ card' = [card EXCEPT !.pc = "asked", !.again = (card.kind = "client")]
    /\ UNCHANGED <<docs, customers>>

\* The first aggregate, and the only one of quotes and clients.
Count ==
    /\ card.pc = "asked"
    /\ \E group \in StatusesInUse :
           /\ (\E d \in Live : docs[d].late) =>
                  \E d \in Live : docs[d].late /\ docs[d].status = group
           /\ card' = [card EXCEPT
                  !.pc = IF card.kind = "invoice" THEN "counted" ELSE "answered",
                  !.total = IF card.kind = "client" THEN 0
                            ELSE TotalOf(Live),
                  !.shares = CASE card.kind = "invoice" -> InvoiceShares(group)
                               [] card.kind = "quote"   -> QuoteShares
                               [] OTHER                 -> ClientShares,
                  !.changed = FALSE,
                  !.stray = ~(Active \subseteq Good)]
    /\ UNCHANGED <<docs, customers>>

\* A slip: what was removed is due for ever.
CountDueEver ==
    /\ card.pc = "counted"
    /\ card' = [card EXCEPT !.pc = "answered", !.due = DueOf(Slots)]
    /\ UNCHANGED <<docs, customers>>

\* The second one of the invoices.
CountDue ==
    /\ card.pc = "counted"
    /\ card' = [card EXCEPT !.pc = "answered", !.due = DueOf(Live)]
    /\ UNCHANGED <<docs, customers>>

\* The card shows the answer.  The client card asks again, once.
ShowSummary ==
    /\ card.pc = "answered"
    /\ card' = [card EXCEPT !.pc = IF card.again THEN "asked" ELSE "shown", !.again = FALSE]
    /\ UNCHANGED <<docs, customers>>

\* A call fails, and the card shows nothing but zeroes.
SummaryLost ==
    /\ card.pc \in {"asked", "counted", "answered"}
    /\ card' = [FreshCard(card.kind) EXCEPT !.pc = IF card.again THEN "asked" ELSE "shown"]
    /\ UNCHANGED <<docs, customers>>

\* The dashboard is left and opened again.
Revisit ==
    /\ card.pc = "shown"
    /\ card' = FreshCard(card.kind)
    /\ UNCHANGED <<docs, customers>>

\* The documents that matter to the card: paid or not, late or not if they are
\* invoices, and whose if it is the clients' card.
Puts(d) ==
    LET kind == card.kind
        Paid(t) == IF kind = "invoice" THEN 0 .. t ELSE {0}
    IN  (UNION {[live : {TRUE}, total : {t}, credit : Paid(t),
                 status : IF kind = "client" THEN {NoDoc.status} ELSE StatusesInUse,
                 late : IF kind = "invoice" THEN BOOLEAN ELSE {FALSE},
                 client : IF kind = "client" THEN Customers ELSE {NoDoc.client}] :
                t \in Amounts})
        \union {[docs[d] EXCEPT !.live = FALSE]}

\* What is shown does not follow changes: they matter until it is counted.
Matters == card.pc \in {"asked", "counted"}

\* Other calls create, change or remove a document.
Put(d) ==
    /\ Matters
    /\ \E doc \in Puts(d) : docs' = [docs EXCEPT ![d] = doc]
    /\ card' = [card EXCEPT !.changed = TRUE]
    /\ UNCHANGED customers

\* Other calls create, change, disable or remove a client.
SetStanding(c, standing) ==
    /\ Matters /\ card.kind = "client"
    /\ customers' = [customers EXCEPT ![c] = standing]
    /\ UNCHANGED <<docs, card>>

-----------------------------------------------------------------------------
SummariesInit ==
    /\ \E kind \in {"invoice", "quote", "client"} : card = FreshCard(kind)
    /\ docs = [d \in Slots |-> NoDoc]
    /\ customers = [c \in Customers |-> "none"]

SummariesNext ==
    \/ AskSummary \/ Count \/ CountDue \/ ShowSummary \/ SummaryLost \/ Revisit
    \/ \E d \in Slots : Put(d)
    \/ \E c \in Customers, standing \in Standings \ {"none"} : SetStanding(c, standing)

SummariesSpec == SummariesInit /\ [][SummariesNext]_summaryVars
-----------------------------------------------------------------------------
SummariesTypeOK ==
    /\ card \in Card
    /\ docs \in [Slots -> Doc]
    /\ customers \in [Customers -> Standings]

ShareOf(R) == SumOver(card.shares, R)

\* What a card shows fits together.  The invoices: what is due is the total less
\* what was paid, unless a document changed after the first aggregate, and the
\* shares of the three payment statuses make a hundred but for rounding.  The
\* quotes: no more than a hundred.  The clients: no more are active than there
\* are, unless one that is removed or disabled still has an invoice.
CardsAddUp ==
    /\ card.kind = "invoice" /\ card.pc \in {"answered", "shown"} /\ card.total > 0
       => /\ ~card.changed => card.total - card.due = CreditOf(Live)
          /\ ShareOf(PaymentStatuses) \in 99 .. 101
          /\ \A r \in InvoiceRows : card.shares[r] <= 100
    /\ card.kind = "quote"
       => ShareOf(QuoteRows) <= 100 + Cardinality(QuoteRows) \div 2
    /\ card.kind = "client" /\ ~card.stray
       => card.shares["active"] <= 100 /\ card.shares["new"] <= 100
=============================================================================
