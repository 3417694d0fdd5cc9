SPECIFICATION FairSpec
CONSTANTS
    t1 = t1
    t2 = t2
    k1 = k1
    k2 = k2
    Tabs <- OneTab
    Tokens <- TwoTokens
    Absent = Absent
    Undefined = Undefined
    Null = Null
    MaxOdd = 1
INVARIANTS
    TypeOK
    ClearedOut
PROPERTIES
    LogoutEnds
    RejectedLeaves
    LeavesForLogin
CHECK_DEADLOCK FALSE
