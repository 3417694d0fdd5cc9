SPECIFICATION OfficeSpec
CONSTANTS
    alice = alice
    bob = bob
    c1 = c1
    c2 = c2
    d1 = d1
    d2 = d2
    Kinds = {"invoice", "quote"}
    TypedNumbers = {1, 3}
    Tabs = {t1}
    Calls = {c1, c2}
    MaxMade <- MCMaxMade
    MaxOdd = 1
    Clients = {alice, bob}
    Texts = {"", "ali", "none"}
    Blank = ""
    Found <- MCFound
    Nobody = Nobody
    MaxOut = 2
    Quantities = {250, 1005}
    Prices = {330}
    Rates = {0, 20}
    Missing = Missing
    MaxRows = 2
    Documents = {invoice1, client1}
    Rendered = {invoice1}
    NotFound = NotFound
    Downloads = {d1, d2}
    MaxVersion = 2
    Images = {photo1}
    NoImage = NoImage
    Scripts = {s1, s2}
    Keys = {key1, key2}
    MaxRuns = 2
    Slots = {slot1, slot2}
    Amounts = {2}
    StatusesInUse = {"draft", "cancelled"}
    Customers = {x1, x2}
SYMMETRY MCSymmetry
INVARIANTS
    OfficeTypeOK
    CountersKeepUp
    NumbersInReach
    OptionsFollow
    ShownIsSaved
    ShownIsStored
    RowsAddUp
    SentWhole
    FreshSetupWorks
    CardsAddUp
CHECK_DEADLOCK FALSE
