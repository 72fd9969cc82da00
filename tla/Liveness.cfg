SPECIFICATION Spec
CONSTANTS
    Wallets = {w1}
    Codes = {c1}
    RowIds = {k1, k2}
    Requests = {r1, r2}
    Mints = {m1, m2, m3}
    Unissued = Unissued
    NoRow = NoRow
    NoWallet = NoWallet
    None = None
    Null = Null
    Off = Off
PROPERTIES
    VerifiedLoginIsAnswered
    CallsEnd
CHECK_DEADLOCK FALSE
