SPECIFICATION FairSpec
CONSTANTS
    i1 = i1
    i2 = i2
    p1 = p1
    p2 = p2
    r1 = r1
    r2 = r2
    None = None
    Invoices <- OneInvoice
    Payments <- TwoPayments
    Requests <- TwoRequests
    Totals <- TwoTotals
    Amounts <- SomeAmounts
    MaxFailures = 0
    MaxCredit = 3
    MaxWaived = 0
    Exclusive = TRUE
INVARIANTS
    LedgerAgrees
PROPERTIES
    BookSpec
    RemovedIsFinal
    PaymentsGetListed
CHECK_DEADLOCK FALSE
