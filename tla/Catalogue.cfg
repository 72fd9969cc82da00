SPECIFICATION Spec
CONSTANTS
    Chains = {c1, c2}
    Tokens = {t1, t2}
    Names = {n1, n2}
    Files = {f1, f2}
    Requests = {r1, r2}
    Alone = {r0}
    ChainIds = {1, 2}
    TokenIds = {11}
    Strings <- ListStrings
    Lower <- ListLower
    Statuses = {0, 1, 2}
    Quoted <- RateQuoted
    toUpperCase <- RateUpper
    Wrapped <- RateWrapped
    ManualRates = {100}
    MaxPrice = 2
    NoRow = NoRow
    Gone = Gone
    NoFile = NoFile
    Null = Null
    Absent = Absent
    Idle = Idle
    Off = Off
SYMMETRY Symmetry
INVARIANTS
    CatalogueTypeOK
    ReferencesHold
    ListsAreRight
PROPERTIES
    LogosAreKept
    RatesAreRight
CHECK_DEADLOCK FALSE
