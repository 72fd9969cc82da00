SPECIFICATION MCSpec
CONSTANTS
    Wallets = {w1, w2}
    Codes = {c1, c2}
    RowIds = {k1, k2, k3}
    Requests = {r1, r2}
    Unissued = Unissued
    NoRow = NoRow
    NoWallet = NoWallet
    Ids = {i1}
    Slots = {q1}
    TTL = 2
    MaxTime = 2
    NoToken = NoToken
    NoId = NoId
SYMMETRY Symmetry
INVARIANTS
    TypesOK
    ChallengeRedeemedOnce
    TokensWereSigned
PROPERTIES
    LoginStepsAreJustified
    ImplementsOneTimeChallenge
    AdmittedAsActiveAccount
    SessionsEnd
