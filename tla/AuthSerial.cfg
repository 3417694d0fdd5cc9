SPECIFICATION FairSpec
CONSTANTS
    a1 = a1
    a2 = a2
    c1 = c1
    c2 = c2
    p1 = p1
    p2 = p2
    Admins <- TwoAdmins
    Disabled <- SecondAdmin
    Demo <- OneAdmin
    Unknown = Unknown
    Clients <- OneClient
    Accounts <- AnyAccount
    Passwords <- TwoPasswords
    Invalid = Invalid
    FirstPassword = p1
    Lives <- OneDay
    Day = 1
    MaxTime = 1
    MaxLinks = 2
    MaxFailures = 1
INVARIANTS
    TypeOK
    DisabledOut
PROPERTIES
    ResetOnce
    Answered
CHECK_DEADLOCK FALSE
