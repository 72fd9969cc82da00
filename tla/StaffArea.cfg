SPECIFICATION Spec
CONSTANTS
    Staff = {s1, s2}
    Requests = {r1, r2}
    Values = {v1, v2}
    Permissions = {"staff", "role"}
    Usernames = {u1, u2}
    Phones = {n1}
    Emails = {e1, e2}
    Files = {1, 2, 3}
    Ids = {1, 2, 3}
    Keys = {0, 1}
    MaxChanges = 1
    first = 1
    NoRow = NoRow
    Gone = Gone
    NoRole = NoRole
    NoPermissions = NoPermissions
    NoCode = NoCode
    Absent = Absent
    Idle = Idle
    Null = Null
    Off = Off
SYMMETRY Symmetry
INVARIANTS
    StaffTypeOK
    SomebodyRemains
    
    WalksAreComplete
PROPERTIES
    DeletingARoleOnlyWidens
    ResetCodesAreSound
CHECK_DEADLOCK FALSE
