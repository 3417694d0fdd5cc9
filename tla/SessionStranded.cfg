SPECIFICATION Spec
CONSTANTS
    t1 = t1
    t2 = t2
    k1 = k1
    k2 = k2
    Tabs <- TwoTabs
    Tokens <- TwoTokens
    Absent = Absent
    Undefined = Undefined
    Null = Null
    MaxOdd = 0
PROPERTIES
    RejectedLeaves
