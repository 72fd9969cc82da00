------------------------------ MODULE StaffRoles ------------------------------
(***************************************************************************)
(* Who may do what in the staff area: roles, the guard that compares them  *)
(* with a permission, and the calls that create, change and delete staff   *)
(* and roles (src/src/app/guards/role-permission.guard.ts,                 *)
(* src/src/app/modules/staff/staff.service.ts and role/role.service.ts).   *)
(*                                                                         *)
(* A call is admitted on the row and role its guard has read; its statement *)
(* follows later, and other calls run in between.                          *)
(***************************************************************************)
EXTENDS Naturals

CONSTANTS
    Staff, Roles,       \* ids
    Permissions,        \* the permission keys
    Requests,           \* calls that may be in flight at once
    NoRow, Gone,        \* an id not yet used; the id of a deleted row
    NoRole,             \* roleId is null
    NoPermissions,      \* permissions is null
    Idle

PERMISSION_KEY_STAFF == "staff"
PERMISSION_KEY_ROLE == "role"
KeysAssumption == {PERMISSION_KEY_STAFF, PERMISSION_KEY_ROLE} \subseteq Permissions
NullAssumption ==
    /\ NoRole \notin Roles /\ NoRow \notin Roles \cup {NoRole} /\ Gone \notin Roles \cup {NoRole}
    /\ NoRow # Gone

VARIABLES
    roleId,         \* of each staff row
    role,           \* the rows of roles
    call            \* the calls that have passed their guard

vars == <<roleId, role, call>>

RoleInput == [permissions: {NoPermissions} \cup SUBSET Permissions]

RowAssumption == NoRow \notin RoleInput /\ Gone \notin RoleInput

(* `target` is the row of the call, `data` what it writes; a new row gets its *)
(* id when it is written.                                                  *)
Call == [op: {"createStaff", "updateStaff", "deleteStaff"}, actor: Staff,
         target: Staff, data: Roles \cup {NoRole}]
     \cup [op: {"createRole", "updateRole", "deleteRole"}, actor: Staff,
           target: Roles, data: RoleInput \cup {NoRole}]

IdleAssumption == Idle \notin Call

TypeOK ==
    /\ roleId \in [Staff -> Roles \cup {NoRole, NoRow, Gone}]
    /\ \A s \in Staff : roleId[s] \in Roles => role[roleId[s]] \in RoleInput
    /\ role \in [Roles -> RoleInput \cup {NoRow, Gone}]
    /\ call \in [Requests -> Call \cup {Idle}]

(* The seeded staff member has no role. *)
Init ==
    /\ \E s \in Staff : roleId = [t \in Staff |-> IF t = s THEN NoRole ELSE NoRow]
    /\ role = [ro \in Roles |-> NoRow]
    /\ call = [r \in Requests |-> Idle]

--------------------------------------------------------------------------------
Present(s) == roleId[s] \notin {NoRow, Gone}

Lists(id, permission) ==
    /\ role[id].permissions # NoPermissions
    /\ permission \in role[id].permissions

(* RolePermissionGuard: no role admits, a role must list the permission.    *)
handleRequest(s, permission) ==
    /\ Present(s)
    /\ roleId[s] # NoRole => Lists(roleId[s], permission)

Begin(r, c) == call[r] = Idle /\ call' = [call EXCEPT ![r] = c] /\ UNCHANGED <<roleId, role>>
Doing(r, op) == call[r] # Idle /\ call[r].op = op
End(r) == call' = [call EXCEPT ![r] = Idle]

(* Variant: anybody may be deleted. *)
staffMutation_AlsoSelf(r, op, actor, s, data) ==
    /\ handleRequest(actor, PERMISSION_KEY_STAFF)
    /\ Begin(r, [op |-> op, actor |-> actor, target |-> s, data |-> data])

(* The resolver of staff; deleteStaff refuses the caller's own id.          *)
staffMutation(r, op, actor, s, data) ==
    /\ handleRequest(actor, PERMISSION_KEY_STAFF)
    /\ op = "deleteStaff" => s # actor
    /\ Begin(r, [op |-> op, actor |-> actor, target |-> s, data |-> data])

roleMutation(r, op, actor, id, data) ==
    /\ handleRequest(actor, PERMISSION_KEY_ROLE)
    /\ Begin(r, [op |-> op, actor |-> actor, target |-> id, data |-> data])

(* A roleId must name a role; otherwise the statement throws.               *)
Written(data) == data = NoRole \/ role[data] \in RoleInput

createStaff(r) ==
    /\ Doing(r, "createStaff") /\ End(r)
    /\ \E s \in Staff :
           /\ roleId[s] = NoRow
           /\ roleId' = [roleId EXCEPT ![s] = IF Written(call[r].data) THEN call[r].data ELSE @]
    /\ UNCHANGED role

updateStaff(r) ==
    /\ Doing(r, "updateStaff") /\ End(r)
    /\ LET c == call[r]
       IN  roleId' = [roleId EXCEPT ![c.target] = IF Present(c.target) /\ Written(c.data) THEN c.data ELSE @]
    /\ UNCHANGED role

deleteStaff(r) ==
    /\ Doing(r, "deleteStaff") /\ End(r)
    /\ roleId' = [roleId EXCEPT ![call[r].target] = IF Present(call[r].target) THEN Gone ELSE @]
    /\ UNCHANGED role

createRole(r) ==
    /\ Doing(r, "createRole") /\ End(r)
    /\ \E id \in Roles : /\ role[id] = NoRow
                        /\ role' = [role EXCEPT ![id] = call[r].data]
    /\ UNCHANGED roleId

updateRole(r) ==
    /\ Doing(r, "updateRole") /\ End(r)
    /\ role' = [role EXCEPT ![call[r].target] = IF @ \in RoleInput THEN call[r].data ELSE @]
    /\ UNCHANGED roleId

(* Variant: the staff of the role keep its id. *)
deleteRole_KeepsId(r) ==
    /\ Doing(r, "deleteRole") /\ End(r)
    /\ role' = [role EXCEPT ![call[r].target] = IF @ \in RoleInput THEN Gone ELSE @]
    /\ UNCHANGED roleId

(* Variant: the rows of the role's staff are deleted with it. *)
deleteRole_Cascades(r) ==
    /\ Doing(r, "deleteRole") /\ End(r)
    /\ role' = [role EXCEPT ![call[r].target] = IF @ \in RoleInput THEN Gone ELSE @]
    /\ roleId' = [s \in Staff |-> IF roleId[s] = call[r].target THEN Gone ELSE roleId[s]]

(* The database sets roleId of the role's staff to null. *)
deleteRole(r) ==
    /\ Doing(r, "deleteRole") /\ End(r)
    /\ role' = [role EXCEPT ![call[r].target] = IF @ \in RoleInput THEN Gone ELSE @]
    /\ roleId' = [s \in Staff |-> IF roleId[s] = call[r].target THEN NoRole ELSE roleId[s]]

(* A statement fails or the process stops. *)
loseCall(r) == call[r] # Idle /\ End(r) /\ UNCHANGED <<roleId, role>>

--------------------------------------------------------------------------------
StaffResolver ==
    \E r \in Requests, actor \in Staff, s \in Staff :
        \/ \E op \in {"createStaff", "updateStaff"}, data \in Roles \cup {NoRole} :
               staffMutation(r, op, actor, s, data)
        \/ staffMutation(r, "deleteStaff", actor, s, NoRole)

RoleResolver ==
    \E r \in Requests, actor \in Staff, id \in Roles :
        \/ \E op \in {"createRole", "updateRole"}, data \in RoleInput :
               roleMutation(r, op, actor, id, data)
        \/ roleMutation(r, "deleteRole", actor, id, NoRole)

Act(r) == createStaff(r) \/ updateStaff(r) \/ deleteStaff(r)
            \/ createRole(r) \/ updateRole(r) \/ deleteRole(r)

Next == StaffResolver \/ RoleResolver \/ \E r \in Requests : Act(r) \/ loseCall(r)

Spec == Init /\ [][Next]_vars

--------------------------------------------------------------------------------
Rights(s) == {p \in Permissions : handleRequest(s, p)}

(* The deletion of a role takes no permission from anyone, whatever calls   *)
(* overlap: its staff are left without a role, which the guard reads as     *)
(* every permission.                                                       *)
DeletedRoles == {id \in Roles : role[id] # Gone /\ role'[id] = Gone}
DeletionOnlyWidens == DeletedRoles # {} => \A s \in Staff : Rights(s) \subseteq Rights(s)'
DeletingARoleOnlyWidens == [][DeletionOnlyWidens]_vars

(* When calls do not overlap, the staff area never loses its last member:   *)
(* nobody can delete themselves.                                           *)
SomebodyRemains == \E s \in Staff : Present(s)
================================================================================
