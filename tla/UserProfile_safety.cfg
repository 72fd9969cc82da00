SPECIFICATION MCSpec
CONSTANTS
    u1 = u1
    e1 = e1
    Users = {u1, u2}
    Emails = {e1, e2}
    Codes = {c1}
    Files = {f1, f2, f3}
    Requests = {r1, r2}
    NoEmail = NoEmail
    NoCode = NoCode
    NoFile = NoFile
    Unchanged = Unchanged
    Idle = Idle
SYMMETRY Symmetry
INVARIANTS
    TypeOK
    PicturesAreKept
