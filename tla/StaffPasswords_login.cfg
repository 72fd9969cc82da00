SPECIFICATION FaultlessSpec
CONSTANTS
    Staff = {s1, s2}
    Passwords = {p1, p2}
    Codes = {k1, k2}
    Requests = {r1}
    NoCode = NoCode
    Idle = Idle
PROPERTY InvalidPasswordIsTrue
