SPECIFICATION Spec
CONSTANTS
    d1 = d1
    d2 = d2
    v1 = v1
    v2 = v2
    Docs <- TwoDocs
    Values <- TwoValues
    Filters <- AllOrNone
    None = None
    MaxCalls = 3
    MaxFailures = 1
INVARIANTS
    TypeOK
    FormsAgree
    ListFresh
PROPERTIES
    RemovedStays
SYMMETRY Symmetric
CHECK_DEADLOCK FALSE
