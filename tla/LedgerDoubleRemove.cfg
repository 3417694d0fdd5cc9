SPECIFICATION Spec
CONSTANTS
    i1 = i1
    i2 = i2
    p1 = p1
    p2 = p2
    r1 = r1
    r2 = r2
    None = None
    Invoices <- OneInvoice
    Payments <- OnePayment
    Requests <- TwoRequests
    Totals <- TwoTotals
    Amounts <- SomeAmounts
    MaxFailures = 0
    MaxCredit = 2
    MaxWaived = 0
    Exclusive = FALSE
PROPERTIES
    NotFoundIsAnswered
CHECK_DEADLOCK FALSE
