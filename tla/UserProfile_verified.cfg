SPECIFICATION FaultlessSpec
CONSTANTS
    Users = {u1}
    Emails = {e1, e2}
    Codes = {c1}
    Files = {f1}
    Requests = {r1}
    NoEmail = NoEmail
    NoCode = NoCode
    NoFile = NoFile
    Unchanged = Unchanged
    Idle = Idle
INVARIANT VerifiedAddressWasConfirmed
