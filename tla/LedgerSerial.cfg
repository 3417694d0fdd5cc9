SPECIFICATION Spec
CONSTANTS
    i1 = i1
    i2 = i2
    p1 = p1
    p2 = p2
    r1 = r1
    r2 = r2
    None = None
    Invoices <- TwoInvoices
    Payments <- TwoPayments
    Requests <- OneRequest
    Totals <- SomeTotals
    Amounts <- RefundAmounts
    MaxFailures = 1
    MaxCredit = 4
    MaxWaived = 1
    Exclusive = FALSE
SYMMETRY MCSymmetry
INVARIANTS
    TypeOK
    LedgerAgrees
    StatusAgrees
    DashboardAddsUp
PROPERTIES
    NoOverpayment
CHECK_DEADLOCK FALSE
