SPECIFICATION Spec
CONSTANTS
    a1 = a1
    a2 = a2
    c1 = c1
    c2 = c2
    p1 = p1
    p2 = p2
    Admins <- OneAdmin
    Disabled <- Nobody
    Demo <- Nobody
    Unknown = Unknown
    Clients <- TwoClients
    Accounts <- SharedAccount
    Passwords <- OnePassword
    Invalid = Invalid
    FirstPassword = p1
    Lives <- OneDay
    Day = 1
    MaxTime = 1
    MaxLinks = 1
    MaxFailures = 0
INVARIANT
    SessionsKept
