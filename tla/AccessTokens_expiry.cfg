SPECIFICATION Spec
CONSTANTS
    Ids = {i1}
    Requests = {r1}
    TTL = 2
    MaxTime = 2
    NoToken = NoToken
    NoId = NoId
INVARIANT StatusResetsAfterExpiry
