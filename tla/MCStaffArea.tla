------------------------------ MODULE MCStaffArea ------------------------------
(***************************************************************************)
(* The four modules of the staff area on small instances.  They share no   *)
(* variable, so one run explores them side by side and not interleaved:    *)
(* `part` is the one that moves, the variables of the others are Off.      *)
(* "... alone" is a part in which calls do not overlap.                    *)
(***************************************************************************)
EXTENDS Naturals, TLC

CONSTANTS
    Staff, Requests,
    Values,             \* roles, passwords and codes
    Permissions,
    Usernames, Phones, Emails, Files,
    Ids, Keys, MaxChanges, first,
    NoRow, Gone, NoRole, NoPermissions, NoCode, Absent, Idle, Null,
    Off

VARIABLES
    part,
    roleId, role, roleCall,
    password, resetCode, latest, passwordCall,
    row, disk, written, refused, profileCall,
    rows, arg, lastId, walk, changes, steady, touched

Roles == INSTANCE StaffRoles
    WITH Roles <- Values, call <- roleCall
Passwords == INSTANCE StaffPasswords
    WITH Passwords <- Values, Codes <- Values, call <- passwordCall
Profile == INSTANCE StaffProfile WITH call <- profileCall
Pages == INSTANCE ListPages

ASSUME RolesAssumption ==
    Roles!KeysAssumption /\ Roles!NullAssumption /\ Roles!RowAssumption /\ Roles!IdleAssumption
ASSUME PasswordsAssumption == Passwords!NoCodeAssumption /\ Passwords!IdleAssumption
ASSUME ProfileAssumption == Profile!AbsentAssumption /\ Profile!IdleAssumption
ASSUME PagesAssumption == Pages!PageAssumption /\ Pages!NullAssumption

roleVars == <<roleId, role, roleCall>>
passwordVars == <<password, resetCode, latest, passwordCall>>
profileVars == <<row, disk, written, refused, profileCall>>
pageVars == <<rows, arg, lastId, walk, changes, steady, touched>>
vars == <<part, roleVars, passwordVars, profileVars, pageVars>>

RolesOff == roleId = Off /\ role = Off /\ roleCall = Off
PasswordsOff == password = Off /\ resetCode = Off /\ latest = Off /\ passwordCall = Off
ProfileOff == row = Off /\ disk = Off /\ written = Off /\ refused = Off /\ profileCall = Off
PagesOff ==
    /\ rows = Off /\ arg = Off /\ lastId = Off /\ walk = Off /\ changes = Off
    /\ steady = Off /\ touched = Off

UsernameOf == CHOOSE f \in [Emails -> Usernames] : \A e, g \in Emails : f[e] = f[g] => e = g

(* Bound of the lists: the columns that a list does not search or order by  *)
(* are the same in all rows at first, and staff have no status to ask for.  *)
UnusedIsEqual ==
    /\ arg.list = "staff" => ~arg.status
    /\ \A i, j \in Pages!Existing :
           /\ ~arg.orderBy => rows[i].key = rows[j].key
           /\ ~arg.query => rows[i].hits = rows[j].hits

(* One way to give out the usernames stands for all where they stay (see    *)
(* ProfileNext).                                                           *)
Init ==
    \/ /\ part \in {"roles", "roles alone"}
       /\ Roles!Init /\ PasswordsOff /\ ProfileOff /\ PagesOff
    \/ /\ part \in {"passwords", "passwords alone"}
       /\ RolesOff /\ Passwords!Init /\ ProfileOff /\ PagesOff
    \/ /\ part \in {"profile", "profile alone"}
       /\ RolesOff /\ PasswordsOff /\ Profile!Init /\ PagesOff
       /\ part = "profile" => \A s \in Staff : row[s].username = UsernameOf[row[s].email]
    \/ /\ part = "pages"
       /\ RolesOff /\ PasswordsOff /\ ProfileOff /\ Pages!Init
       /\ UnusedIsEqual

Busy(call) == {r \in Requests : call[r] # Idle}
Alone(call) == \A q, r \in Busy(call) : q = r

RolesNext ==
    /\ \/ part = "roles" /\ Roles!Next
       \/ part = "roles alone" /\ Roles!Next /\ Alone(roleCall')
    /\ UNCHANGED <<part, passwordVars, profileVars, pageVars>>

(* Bound of the overlapping password calls: a login writes nothing that     *)
(* another call could read.                                                *)
NoLogins == \A r \in Busy(passwordCall) : passwordCall[r].op # "login"

PasswordsNext ==
    /\ \/ part = "passwords" /\ Passwords!Next /\ NoLogins'
       \/ part = "passwords alone" /\ Passwords!Serve /\ Alone(passwordCall')
    /\ UNCHANGED <<part, roleVars, profileVars, pageVars>>

(* Bounds of the overlapping profile calls: a refused username or role ends *)
(* a call where loseCall ends it too, so nobody gives one and usernames     *)
(* stay; and the names of files, which are numbers here, are drawn in order. *)
NoUsernames ==
    \A r \in Busy(profileCall) :
        profileCall[r].payload.username = Absent /\ ~profileCall[r].payload.unknown
NamesInOrder == \A f \in written, g \in Files : g < f => g \in written

ProfileNext ==
    /\ \/ part = "profile" /\ Profile!Next /\ NoUsernames' /\ NamesInOrder'
       \/ part = "profile alone" /\ Profile!Serve /\ Alone(profileCall')
    /\ UNCHANGED <<part, roleVars, passwordVars, pageVars>>

PagesNext == part = "pages" /\ Pages!Next /\ UNCHANGED <<part, roleVars, passwordVars, profileVars>>

Spec == Init /\ [][RolesNext \/ PasswordsNext \/ ProfileNext \/ PagesNext]_vars

(* Requests, staff and values are interchangeable.                         *)
Symmetry ==
    UNION {Permutations(S) : S \in {Staff, Values, Requests}}

--------------------------------------------------------------------------------
(* The types of the four modules.                                          *)
StaffTypeOK ==
    /\ part \in {"roles", "roles alone"} => Roles!TypeOK
    /\ part \in {"passwords", "passwords alone"} => Passwords!TypeOK
    /\ part \in {"profile", "profile alone"} => Profile!TypeOK
    /\ part = "pages" => Pages!TypeOK

(* Deleting a role takes no permission from anyone, whatever overlaps.      *)
DeletingARoleOnlyWidens ==
    [][(part \in {"roles", "roles alone"}) => Roles!DeletionOnlyWidens]_vars

(* Calls that do not overlap leave somebody in the staff area.              *)
SomebodyRemains == part = "roles alone" => Roles!SomebodyRemains

(* A reset changes the password of the row its email and code belong to.    *)
(* As long as calls neither overlap nor fail, the row has the code of the  *)
(* last mail, and only that code resets the password, once.                *)
ResetCodesAreSound ==
    /\ [][(part \in {"passwords", "passwords alone"}) => Passwords!ResetTouchesItsOwn]_vars
    /\ [](part = "passwords alone" => Passwords!LatestCodeIsStored)
    /\ [][part = "passwords alone" => Passwords!LatestCodeResets]_vars

(* The avatar a row names exists, whatever overlaps and stops; without      *)
(* overlaps and failures the disk keeps no other but those of updates that  *)
(* asked for a taken username or an unknown role.                          *)
AvatarsAreKept ==
    /\ part = "profile" => Profile!AvatarExists
    /\ part = "profile alone" => Profile!OnlyUnsearchedLeavesAvatars

(* A walk through a list shows each row that stays as it is exactly once,   *)
(* and the number on its pages is that of the rows it shows.               *)
WalksAreComplete ==
    part = "pages" => Pages!SteadyRowsAreShownOnce /\ Pages!TotalIsWhatTheWalkShows
================================================================================
