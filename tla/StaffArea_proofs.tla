---------------------------- MODULE StaffArea_proofs ----------------------------
(***************************************************************************)
(* Theorems about the staff area for all staff, roles, codes, files and    *)
(* calls: who is left with which rights, which code resets which password, *)
(* and which avatars stay on the disk.                                     *)
(***************************************************************************)
EXTENDS MCStaffArea, FiniteSetTheorems, FunctionTheorems, SequenceTheorems, TLAPS

--------------------------------------------------------------------------------
(* Staff and roles. *)

(* What a call writes into a role is a role.                                *)
RolesInv ==
    /\ Roles!TypeOK
    /\ \A r \in Requests :
           roleCall[r] # Idle /\ roleCall[r].op \in {"createRole", "updateRole"}
               => roleCall[r].data \in Roles!RoleInput

(* The one call that deletes a staff member is that of another.             *)
SomebodyInv ==
    /\ Roles!SomebodyRemains
    /\ Alone(roleCall)
    /\ \A r \in Requests :
           roleCall[r] # Idle /\ roleCall[r].op = "deleteStaff"
               => roleCall[r].actor # roleCall[r].target /\ Roles!Present(roleCall[r].actor)

LEMMA RoleCallFields ==
    ASSUME NEW c \in Roles!Call
    PROVE  /\ c.op \in {"createStaff", "updateStaff", "deleteStaff", "createRole", "updateRole", "deleteRole"}
           /\ c.actor \in Staff
           /\ c.op \in {"createStaff", "updateStaff", "deleteStaff"}
                  => c.target \in Staff /\ c.data \in Values \cup {NoRole}
           /\ c.op \in {"createRole", "updateRole", "deleteRole"} => c.target \in Values
BY DEF Roles!Call

LEMMA InitRoles == Roles!Init => RolesInv /\ SomebodyInv
<1> SUFFICES ASSUME Roles!Init PROVE RolesInv /\ SomebodyInv
  OBVIOUS
<1> USE RolesAssumption DEF Roles!NullAssumption, Roles!RowAssumption, Roles!IdleAssumption
<1> PICK s \in Staff : roleId = [t \in Staff |-> IF t = s THEN NoRole ELSE NoRow]
  BY DEF Roles!Init
<1>1. Roles!TypeOK
  BY DEF Roles!Init, Roles!TypeOK
<1>2. roleId[s] = NoRole
  OBVIOUS
<1>3. Roles!SomebodyRemains
  BY <1>2 DEF Roles!SomebodyRemains, Roles!Present
<1> QED BY <1>1, <1>3 DEF Roles!Init, RolesInv, SomebodyInv, Alone, Busy

(* A call begins: its guard has found the actor.                            *)
RoleCallBegins(r, c) ==
    /\ roleCall[r] = Idle /\ c \in Roles!Call
    /\ roleCall' = [roleCall EXCEPT ![r] = c]
    /\ UNCHANGED <<roleId, role>>
    /\ Roles!Present(c.actor)
    /\ c.op = "deleteStaff" => c.actor # c.target
    /\ c.op \in {"createRole", "updateRole"} => c.data \in Roles!RoleInput

LEMMA RoleBegins ==
    ASSUME Roles!StaffResolver \/ Roles!RoleResolver
    PROVE  \E r \in Requests, c \in Roles!Call : RoleCallBegins(r, c)
<1>1. ASSUME NEW r \in Requests, NEW actor \in Staff, NEW s \in Staff,
             NEW op \in {"createStaff", "updateStaff", "deleteStaff"}, NEW data \in Values \cup {NoRole},
             Roles!staffMutation(r, op, actor, s, data)
      PROVE \E c \in Roles!Call : RoleCallBegins(r, c)
  <2> DEFINE new == [op |-> op, actor |-> actor, target |-> s, data |-> data]
  <2>1. new \in Roles!Call
    BY DEF Roles!Call
  <2>2. RoleCallBegins(r, new)
    BY <1>1, <2>1 DEF Roles!staffMutation, Roles!handleRequest, Roles!Begin, RoleCallBegins
  <2> QED BY <2>1, <2>2
<1>2. ASSUME NEW r \in Requests, NEW actor \in Staff, NEW id \in Values,
             NEW op \in {"createRole", "updateRole", "deleteRole"}, NEW data \in Roles!RoleInput \cup {NoRole},
             op # "deleteRole" => data \in Roles!RoleInput,
             Roles!roleMutation(r, op, actor, id, data)
      PROVE \E c \in Roles!Call : RoleCallBegins(r, c)
  <2> DEFINE new == [op |-> op, actor |-> actor, target |-> id, data |-> data]
  <2>1. new \in Roles!Call
    BY DEF Roles!Call
  <2>2. RoleCallBegins(r, new)
    BY <1>2, <2>1 DEF Roles!roleMutation, Roles!handleRequest, Roles!Begin, RoleCallBegins
  <2> QED BY <2>1, <2>2
<1> QED BY <1>1, <1>2 DEF Roles!StaffResolver, Roles!RoleResolver

(* The rows after the statement of a call.                                  *)
LEMMA RoleActs ==
    ASSUME RolesInv, NEW r \in Requests, Roles!Act(r) \/ Roles!loseCall(r)
    PROVE  /\ roleCall[r] # Idle /\ roleCall' = [roleCall EXCEPT ![r] = Idle]
           /\ roleId' \in [Staff -> Values \cup {NoRole, NoRow, Gone}]
           /\ role' \in [Values -> Roles!RoleInput \cup {NoRow, Gone}]
           /\ \A s \in Staff : roleId'[s] \in Values => role'[roleId'[s]] \in Roles!RoleInput
           /\ \A s \in Staff : Roles!Present(s) =>
                  \/ Roles!Present(s)'
                  \/ roleCall[r].op = "deleteStaff" /\ s = roleCall[r].target
           /\ Roles!DeletedRoles # {} => Roles!deleteRole(r)
<1> USE RolesAssumption DEF Roles!NullAssumption, Roles!RowAssumption, Roles!IdleAssumption
<1>1. Roles!TypeOK
  BY DEF RolesInv
<1>2. ASSUME Roles!Doing(r, "createStaff") \/ Roles!Doing(r, "updateStaff") \/ Roles!Doing(r, "deleteStaff")
      PROVE /\ roleCall[r].target \in Staff /\ roleCall[r].data \in Values \cup {NoRole}
            /\ Roles!Written(roleCall[r].data) =>
                  roleCall[r].data = NoRole \/ role[roleCall[r].data] \in Roles!RoleInput
  <2>1. roleCall[r] \in Roles!Call
    BY <1>1, <1>2 DEF Roles!Doing, Roles!TypeOK
  <2> QED BY <1>2, <2>1, RoleCallFields DEF Roles!Doing, Roles!Written
<1>3. CASE Roles!createStaff(r)
  <2> PICK s \in Staff :
        /\ roleId[s] = NoRow
        /\ roleId' = [roleId EXCEPT ![s] = IF Roles!Written(roleCall[r].data) THEN roleCall[r].data ELSE @]
    BY <1>3 DEF Roles!createStaff
  <2>1. role' = role /\ roleCall[r] # Idle /\ roleCall' = [roleCall EXCEPT ![r] = Idle]
    BY <1>3 DEF Roles!createStaff, Roles!Doing, Roles!End
  <2>2. \A t \in Staff \ {s} : roleId'[t] = roleId[t]
    BY <1>1 DEF Roles!TypeOK
  <2>3. /\ roleId'[s] \in Values \cup {NoRole, NoRow}
        /\ roleId'[s] \in Values => role[roleId'[s]] \in Roles!RoleInput
    BY <1>1, <1>2, <1>3 DEF Roles!TypeOK, Roles!createStaff
  <2>4. \A t \in Staff : Roles!Present(t) => Roles!Present(t)'
    BY <2>2 DEF Roles!Present
  <2> QED BY <1>1, <2>1, <2>2, <2>3, <2>4 DEF Roles!TypeOK, Roles!DeletedRoles
<1>4. CASE Roles!updateStaff(r) \/ Roles!deleteStaff(r)
  <2> PICK s \in Staff : s = roleCall[r].target
    BY <1>2, <1>4 DEF Roles!updateStaff, Roles!deleteStaff
  <2>1. /\ role' = role /\ roleCall[r] # Idle /\ roleCall' = [roleCall EXCEPT ![r] = Idle]
    BY <1>4 DEF Roles!updateStaff, Roles!deleteStaff, Roles!Doing, Roles!End
  <2>2. /\ roleId' \in [Staff -> Values \cup {NoRole, NoRow, Gone}]
        /\ \A t \in Staff \ {s} : roleId'[t] = roleId[t]
        /\ roleId'[s] \in Values => role[roleId'[s]] \in Roles!RoleInput
        /\ Roles!Present(s) => Roles!Present(s)' \/ roleCall[r].op = "deleteStaff"
    <3>1. CASE Roles!updateStaff(r)
      <4>1. /\ roleId' = [roleId EXCEPT ![s] = IF Roles!Present(s) /\ Roles!Written(roleCall[r].data)
                                                THEN roleCall[r].data ELSE @]
            /\ roleCall[r].data \in Values \cup {NoRole}
            /\ Roles!Written(roleCall[r].data) =>
                   roleCall[r].data = NoRole \/ role[roleCall[r].data] \in Roles!RoleInput
        BY <1>2, <3>1 DEF Roles!updateStaff
      <4>2. /\ \A t \in Staff \ {s} : roleId'[t] = roleId[t]
            /\ \/ roleId'[s] = roleId[s]
               \/ roleId'[s] = roleCall[r].data /\ Roles!Written(roleCall[r].data)
            /\ roleId' \in [Staff -> Values \cup {NoRole, NoRow, Gone}]
        BY <1>1, <2>1, <4>1 DEF Roles!TypeOK
      <4> QED BY <1>1, <2>1, <4>1, <4>2 DEF Roles!TypeOK, Roles!Present
    <3>2. CASE Roles!deleteStaff(r)
      BY <1>1, <1>2, <2>1, <3>2 DEF Roles!TypeOK, Roles!deleteStaff, Roles!Present, Roles!Doing
    <3> QED BY <1>4, <3>1, <3>2
  <2>3. Roles!DeletedRoles = {}
    BY <2>1 DEF Roles!DeletedRoles
  <2>4. \A t \in Staff : Roles!Present(t) => Roles!Present(t)' \/ (roleCall[r].op = "deleteStaff" /\ t = s)
    BY <2>2 DEF Roles!Present
  <2>5. \A t \in Staff : roleId'[t] \in Values => role'[roleId'[t]] \in Roles!RoleInput
    BY <1>1, <2>1, <2>2 DEF Roles!TypeOK
  <2> QED BY <1>1, <2>1, <2>2, <2>3, <2>4, <2>5 DEF Roles!TypeOK
<1>5. CASE Roles!createRole(r) \/ Roles!updateRole(r)
  <2>1. /\ roleCall[r].data \in Roles!RoleInput /\ roleCall[r].op # "deleteStaff"
        /\ roleId' = roleId /\ roleCall[r] # Idle /\ roleCall' = [roleCall EXCEPT ![r] = Idle]
    BY <1>5 DEF RolesInv, Roles!createRole, Roles!updateRole, Roles!Doing, Roles!End
  <2>2. /\ role' \in [Values -> Roles!RoleInput \cup {NoRow, Gone}]
        /\ \A id \in Values : role[id] \in Roles!RoleInput => role'[id] \in Roles!RoleInput
        /\ \A id \in Values : role'[id] = Gone => role[id] = Gone
    BY <1>1, <1>5, <2>1 DEF Roles!TypeOK, Roles!createRole, Roles!updateRole
  <2> QED BY <1>1, <2>1, <2>2 DEF Roles!TypeOK, Roles!DeletedRoles, Roles!Present
<1>6. CASE Roles!deleteRole(r)
  <2> DEFINE id == roleCall[r].target
  <2>1. roleCall[r] # Idle /\ roleCall' = [roleCall EXCEPT ![r] = Idle]
    BY <1>6 DEF Roles!deleteRole, Roles!Doing, Roles!End
  <2>2. /\ role' \in [Values -> Roles!RoleInput \cup {NoRow, Gone}]
        /\ \A v \in Values \ {id} : role'[v] = role[v]
    BY <1>1, <1>6 DEF Roles!TypeOK, Roles!deleteRole
  <2>3. \A s \in Staff : roleId'[s] = IF roleId[s] = id THEN NoRole ELSE roleId[s]
    BY <1>6 DEF Roles!deleteRole
  <2>4. roleId' \in [Staff -> Values \cup {NoRole, NoRow, Gone}]
    BY <1>1, <1>6 DEF Roles!TypeOK, Roles!deleteRole
  <2>5. \A s \in Staff : roleId'[s] \in Values => role'[roleId'[s]] \in Roles!RoleInput
    BY <1>1, <2>2, <2>3 DEF Roles!TypeOK
  <2> QED BY <1>6, <2>1, <2>2, <2>3, <2>4, <2>5 DEF Roles!Present
<1>7. CASE Roles!loseCall(r)
  BY <1>1, <1>7 DEF Roles!loseCall, Roles!End, Roles!TypeOK, Roles!Present, Roles!DeletedRoles
<1> QED BY <1>3, <1>4, <1>5, <1>6, <1>7 DEF Roles!Act

LEMMA NextRoles == RolesInv /\ [Roles!Next]_(Roles!vars) => RolesInv'
<1> SUFFICES ASSUME RolesInv, [Roles!Next]_(Roles!vars) PROVE RolesInv'
  OBVIOUS
<1> USE RolesAssumption DEF Roles!NullAssumption, Roles!RowAssumption, Roles!IdleAssumption
<1>1. ASSUME NEW r \in Requests, NEW c \in Roles!Call, RoleCallBegins(r, c) PROVE RolesInv'
  <2>1. Roles!TypeOK'
    BY <1>1 DEF RolesInv, Roles!TypeOK, RoleCallBegins
  <2> QED BY <1>1, <2>1 DEF RolesInv, Roles!TypeOK, RoleCallBegins
<1>2. ASSUME NEW r \in Requests, Roles!Act(r) \/ Roles!loseCall(r) PROVE RolesInv'
  <2>1. roleCall' = [roleCall EXCEPT ![r] = Idle]
    BY <1>2, RoleActs
  <2>2. Roles!TypeOK'
    BY <1>2, <2>1, RoleActs DEF RolesInv, Roles!TypeOK
  <2> QED BY <2>1, <2>2 DEF RolesInv, Roles!TypeOK
<1>3. CASE UNCHANGED Roles!vars
  BY <1>3 DEF RolesInv, Roles!TypeOK, Roles!vars
<1> QED BY <1>1, <1>2, <1>3, RoleBegins DEF Roles!Next

LEMMA DeletionWidens == RolesInv /\ [Roles!Next]_(Roles!vars) => Roles!DeletionOnlyWidens
<1> SUFFICES ASSUME RolesInv, [Roles!Next]_(Roles!vars), Roles!DeletedRoles # {}
             PROVE  \A s \in Staff : Roles!Rights(s) \subseteq Roles!Rights(s)'
  BY DEF Roles!DeletionOnlyWidens
<1> USE RolesAssumption DEF Roles!NullAssumption, Roles!RowAssumption, Roles!IdleAssumption
<1> PICK r \in Requests : Roles!deleteRole(r)
  <2>1. role' # role
    BY DEF Roles!DeletedRoles
  <2>2. \E r \in Requests : Roles!Act(r) \/ Roles!loseCall(r)
    BY <2>1, RoleBegins DEF Roles!Next, Roles!vars, RoleCallBegins
  <2> QED BY <2>2, RoleActs
<1> SUFFICES ASSUME NEW s \in Staff, NEW p \in Permissions, Roles!handleRequest(s, p)
             PROVE  Roles!handleRequest(s, p)'
  BY DEF Roles!Rights
<1>1. roleId'[s] = IF roleId[s] = roleCall[r].target THEN NoRole ELSE roleId[s]
  BY DEF Roles!deleteRole
<1>2. roleId[s] # roleCall[r].target => role'[roleId[s]] = role[roleId[s]]
  BY DEF Roles!deleteRole, RolesInv, Roles!TypeOK
<1> QED BY <1>1, <1>2 DEF Roles!handleRequest, Roles!Present, Roles!Lists

LEMMA SomebodyStays ==
    RolesInv /\ SomebodyInv /\ Roles!Next /\ Alone(roleCall') => SomebodyInv'
<1> SUFFICES ASSUME RolesInv, SomebodyInv, Roles!Next, Alone(roleCall') PROVE SomebodyInv'
  OBVIOUS
<1> USE RolesAssumption DEF Roles!NullAssumption, Roles!RowAssumption, Roles!IdleAssumption
<1>1. ASSUME NEW r \in Requests, NEW c \in Roles!Call, RoleCallBegins(r, c) PROVE SomebodyInv'
  <2>1. roleCall'[r] = c /\ \A q \in Requests \ {r} : roleCall'[q] = roleCall[q]
    BY <1>1 DEF RolesInv, Roles!TypeOK, RoleCallBegins
  <2>2. \A s \in Staff : Roles!Present(s)' <=> Roles!Present(s)
    BY <1>1 DEF RoleCallBegins, Roles!Present
  <2>3. \A q \in Requests \ {r} : roleCall'[q] = Idle
    BY <1>1, <2>1 DEF Alone, Busy, RoleCallBegins
  <2>4. c.actor \in Staff
    BY RoleCallFields
  <2> QED BY <1>1, <2>1, <2>2, <2>3, <2>4 DEF SomebodyInv, RoleCallBegins, Roles!SomebodyRemains
<1>2. ASSUME NEW r \in Requests, Roles!Act(r) \/ Roles!loseCall(r) PROVE SomebodyInv'
  <2>1. roleCall[r] # Idle /\ roleCall' = [roleCall EXCEPT ![r] = Idle]
    BY <1>2, RoleActs
  <2>2. \A q \in Requests : roleCall'[q] = Idle
    BY <2>1 DEF SomebodyInv, Alone, Busy, RolesInv, Roles!TypeOK
  <2>3. Roles!SomebodyRemains'
    <3>1. CASE roleCall[r].op = "deleteStaff"
      <4>1. roleCall[r].actor \in Staff /\ roleCall[r].actor # roleCall[r].target
            /\ Roles!Present(roleCall[r].actor)
        BY <2>1, <3>1, RoleCallFields DEF SomebodyInv, RolesInv, Roles!TypeOK
      <4> QED BY <1>2, <4>1, RoleActs DEF Roles!SomebodyRemains
    <3>2. CASE roleCall[r].op # "deleteStaff"
      BY <1>2, <3>2, RoleActs DEF SomebodyInv, Roles!SomebodyRemains
    <3> QED BY <3>1, <3>2
  <2> QED BY <2>2, <2>3 DEF SomebodyInv
<1> QED BY <1>1, <1>2, RoleBegins DEF Roles!Next

(* Whatever calls overlap, a staff member names a role only as long as the  *)
(* role has a row, and every row and call has its type.                    *)
THEOREM RolesExist == Roles!Spec => []Roles!TypeOK
<1>1. RolesInv => Roles!TypeOK
  BY DEF RolesInv
<1> QED BY <1>1, InitRoles, NextRoles, PTL DEF Roles!Spec

(* The deletion of a role, whatever it overlaps, takes no permission from   *)
(* anyone.                                                                 *)
THEOREM RoleDeletionWidens == Roles!Spec => Roles!DeletingARoleOnlyWidens
<1>1. RolesInv /\ [Roles!Next]_(Roles!vars) => [Roles!DeletionOnlyWidens]_(Roles!vars)
  BY DeletionWidens
<1> QED BY <1>1, InitRoles, NextRoles, PTL DEF Roles!Spec, Roles!DeletingARoleOnlyWidens

--------------------------------------------------------------------------------
(* Passwords and reset codes. *)

(* The row of a reset is that of its email.                                 *)
PasswordsInv ==
    /\ Passwords!TypeOK
    /\ \A r \in Requests :
           Passwords!In(r, "reset") => passwordCall[r].row = passwordCall[r].email

(* Calls neither overlap nor fail: the row has the code of the last mail,   *)
(* unless the one call is about to send it; a reset has the code of its row. *)
CodesInv ==
    /\ Alone(passwordCall)
    /\ \A s \in Staff :
           (\A r \in Requests : Passwords!In(r, "mail") => passwordCall[r].row # s)
               => resetCode[s] = latest[s]
    /\ \A r \in Requests :
           Passwords!In(r, "mail") \/ Passwords!In(r, "reset")
               => resetCode[passwordCall[r].row] = passwordCall[r].code

LEMMA PasswordCallFields ==
    ASSUME NEW c \in Passwords!Call
    PROVE  /\ c.op \in {"login", "change", "forget", "mail", "reset"} /\ c.row \in Staff
           /\ c.op \in {"forget", "mail", "reset"} => c.code \in Values
           /\ c.op \in {"change", "reset"} => c.new \in Values
           /\ c.op = "reset" => c.email \in Staff
           /\ c.op = "forget" =>
                  /\ [c EXCEPT !.op = "mail"] \in Passwords!Call
                  /\ [c EXCEPT !.op = "mail"].op = "mail"
                  /\ [c EXCEPT !.op = "mail"].row = c.row
                  /\ [c EXCEPT !.op = "mail"].code = c.code
BY DEF Passwords!Call

(* A call that begins has read its row.                                     *)
PasswordCallBegins(r, c) ==
    /\ passwordCall[r] = Idle /\ c \in Passwords!Call
    /\ passwordCall' = [passwordCall EXCEPT ![r] = c]
    /\ UNCHANGED <<password, resetCode, latest>>
    /\ c.op \in {"login", "change", "forget", "reset"}
    /\ c.op = "reset" => c.row = c.email /\ resetCode[c.row] = c.code

LEMMA PasswordBegins ==
    ASSUME PasswordsInv, Passwords!StaffAuthResolver \/ Passwords!StaffResolver
    PROVE  \/ \E r \in Requests, c \in Passwords!Call : PasswordCallBegins(r, c)
           \/ \E s \in Staff, p \in Values : Passwords!StorePayload(s, p)
<1>1. password \in [Staff -> Passwords!Password]
  BY DEF PasswordsInv, Passwords!TypeOK
<1>2. ASSUME NEW r \in Requests, NEW s \in Staff, Passwords!sendStaffForgetPasswordNotification(r, s)
      PROVE \E c \in Passwords!Call : PasswordCallBegins(r, c)
  <2> PICK code \in Values : Passwords!Begin(r, [op |-> "forget", row |-> s, code |-> code])
    BY <1>2 DEF Passwords!sendStaffForgetPasswordNotification
  <2> DEFINE new == [op |-> "forget", row |-> s, code |-> code]
  <2>1. new \in Passwords!Call
    BY DEF Passwords!Call
  <2>2. PasswordCallBegins(r, new)
    BY <2>1 DEF Passwords!Begin, PasswordCallBegins
  <2> QED BY <2>1, <2>2
<1>3. ASSUME NEW r \in Requests, NEW s \in Staff, NEW p \in Values, Passwords!login(r, s, p)
      PROVE \E c \in Passwords!Call : PasswordCallBegins(r, c)
  <2> DEFINE new == [op |-> "login", row |-> s, seen |-> password[s], old |-> p]
  <2>1. new \in Passwords!Call
    BY <1>1 DEF Passwords!Call
  <2>2. PasswordCallBegins(r, new)
    BY <1>3, <2>1 DEF Passwords!login, Passwords!Begin, PasswordCallBegins
  <2> QED BY <2>1, <2>2
<1>4. ASSUME NEW r \in Requests, NEW s \in Staff, NEW code \in Values, NEW p \in Values,
             Passwords!resetStaffPassword(r, s, code, p)
      PROVE \E c \in Passwords!Call : PasswordCallBegins(r, c)
  <2> DEFINE new == [op |-> "reset", email |-> s, row |-> s, code |-> code, new |-> p]
  <2>1. new \in Passwords!Call
    BY DEF Passwords!Call
  <2>2. PasswordCallBegins(r, new)
    BY <1>4, <2>1 DEF Passwords!resetStaffPassword, Passwords!Begin, PasswordCallBegins
  <2> QED BY <2>1, <2>2
<1>5. ASSUME NEW r \in Requests, NEW s \in Staff, NEW old \in Values, NEW p \in Values,
             Passwords!updateStaffPassword(r, s, old, p)
      PROVE \E c \in Passwords!Call : PasswordCallBegins(r, c)
  <2> DEFINE new == [op |-> "change", row |-> s, seen |-> password[s], old |-> old, new |-> p]
  <2>1. new \in Passwords!Call
    BY <1>1 DEF Passwords!Call
  <2>2. PasswordCallBegins(r, new)
    BY <1>5, <2>1 DEF Passwords!updateStaffPassword, Passwords!Begin, PasswordCallBegins
  <2> QED BY <2>1, <2>2
<1>6. ASSUME NEW s \in Staff, NEW p \in Values,
             Passwords!updateStaffProfile(s, p) \/ Passwords!updateStaff(s, p)
      PROVE  Passwords!StorePayload(s, p)
  BY <1>6 DEF Passwords!updateStaffProfile, Passwords!updateStaff
<1> QED BY <1>2, <1>3, <1>4, <1>5, <1>6 DEF Passwords!StaffAuthResolver, Passwords!StaffResolver

(* The step of a call; only that of a "forget" does not end it.             *)
LEMMA PasswordContinues ==
    ASSUME PasswordsInv, NEW r \in Requests, Passwords!Continue(r) \/ Passwords!loseCall(r)
    PROVE  /\ passwordCall[r] \in Passwords!Call /\ passwordCall[r] # Idle
           /\ \A q \in Requests \ {r} : passwordCall'[q] = passwordCall[q]
           /\ \/ Passwords!storeCode(r) /\ passwordCall'[r] = [passwordCall[r] EXCEPT !.op = "mail"]
              \/ ~Passwords!storeCode(r) /\ passwordCall'[r] = Idle
           /\ Passwords!TypeOK'
<1> USE PasswordsAssumption DEF Passwords!NoCodeAssumption, Passwords!IdleAssumption
<1>1. Passwords!TypeOK
  BY DEF PasswordsInv
<1>2. passwordCall[r] # Idle
  BY DEF Passwords!Continue, Passwords!answerLogin, Passwords!storeCode, Passwords!sendCode,
         Passwords!saveReset, Passwords!savePassword, Passwords!loseCall, Passwords!In
<1>3. passwordCall[r] \in Passwords!Call
  BY <1>1, <1>2 DEF Passwords!TypeOK
<1>4. CASE Passwords!storeCode(r)
  <2>1. passwordCall[r].op = "forget" /\ passwordCall' = [passwordCall EXCEPT ![r].op = "mail"]
        /\ resetCode' = [resetCode EXCEPT ![passwordCall[r].row] = passwordCall[r].code]
        /\ password' = password /\ latest' = latest
    BY <1>4 DEF Passwords!storeCode, Passwords!In
  <2>2. passwordCall[r].row \in Staff /\ passwordCall[r].code \in Values
        /\ [passwordCall[r] EXCEPT !.op = "mail"] \in Passwords!Call
    BY <1>3, <2>1, PasswordCallFields
  <2> QED BY <1>1, <1>2, <1>3, <1>4, <2>1, <2>2 DEF Passwords!TypeOK
<1>5. CASE ~Passwords!storeCode(r)
  <2>1. passwordCall' = [passwordCall EXCEPT ![r] = Idle]
    BY <1>5 DEF Passwords!Continue, Passwords!answerLogin, Passwords!sendCode, Passwords!End,
                Passwords!saveReset, Passwords!savePassword, Passwords!loseCall
  <2>2. /\ password' \in [Staff -> Passwords!Password]
        /\ resetCode' \in [Staff -> Values \cup {NoCode}]
        /\ latest' \in [Staff -> Values \cup {NoCode}]
    <3>1. /\ passwordCall[r].row \in Staff
          /\ passwordCall[r].op \in {"mail", "reset"} => passwordCall[r].code \in Values
          /\ passwordCall[r].op \in {"change", "reset"} =>
                Passwords!hashPassword(passwordCall[r].new) \in Passwords!Password
      BY <1>3, PasswordCallFields DEF Passwords!hashPassword, Passwords!Password
    <3>2. CASE Passwords!sendCode(r)
      BY <1>1, <3>1, <3>2 DEF Passwords!TypeOK, Passwords!sendCode, Passwords!In
    <3>3. CASE Passwords!saveReset(r)
      BY <1>1, <3>1, <3>3 DEF Passwords!TypeOK, Passwords!saveReset, Passwords!In
    <3>4. CASE Passwords!savePassword(r)
      BY <1>1, <3>1, <3>4 DEF Passwords!TypeOK, Passwords!savePassword, Passwords!In
    <3>5. CASE Passwords!answerLogin(r) \/ Passwords!loseCall(r)
      BY <1>1, <3>5 DEF Passwords!TypeOK, Passwords!answerLogin, Passwords!loseCall
    <3> QED BY <1>5, <3>2, <3>3, <3>4, <3>5 DEF Passwords!Continue
  <2> QED BY <1>1, <1>2, <1>3, <1>5, <2>1, <2>2 DEF Passwords!TypeOK
<1> QED BY <1>4, <1>5

LEMMA InitPasswords == Passwords!Init => PasswordsInv /\ CodesInv
BY DEF Passwords!Init, PasswordsInv, CodesInv, Passwords!TypeOK, Passwords!In, Alone, Busy,
       Passwords!hashPassword, Passwords!Password

LEMMA PasswordUpdated ==
    ASSUME PasswordsInv, NEW s \in Staff, NEW p \in Values, Passwords!StorePayload(s, p)
    PROVE  PasswordsInv' /\ UNCHANGED <<resetCode, latest, passwordCall>>
BY DEF PasswordsInv, Passwords!StorePayload, Passwords!TypeOK, Passwords!Password, Passwords!In

LEMMA NextPasswords == PasswordsInv /\ [Passwords!Next]_(Passwords!vars) => PasswordsInv'
<1> SUFFICES ASSUME PasswordsInv, [Passwords!Next]_(Passwords!vars) PROVE PasswordsInv'
  OBVIOUS
<1>1. ASSUME NEW r \in Requests, NEW c \in Passwords!Call, PasswordCallBegins(r, c)
      PROVE PasswordsInv'
  BY <1>1 DEF PasswordsInv, PasswordCallBegins, Passwords!TypeOK, Passwords!In
<1>2. ASSUME NEW r \in Requests, Passwords!Continue(r) \/ Passwords!loseCall(r) PROVE PasswordsInv'
  <2>1. \A q \in Requests : Passwords!In(q, "reset")' => Passwords!In(q, "reset") /\ q # r
    <3>1. Passwords!storeCode(r) => passwordCall[r].op = "forget"
      BY DEF Passwords!storeCode, Passwords!In
    <3>2. /\ passwordCall'[r] = Idle \/ passwordCall'[r].op = "mail"
          /\ \A q \in Requests \ {r} : passwordCall'[q] = passwordCall[q]
      BY <1>2, <3>1, PasswordContinues, PasswordCallFields
    <3> QED BY <3>2 DEF Passwords!In
  <2> QED BY <1>2, <2>1, PasswordContinues DEF PasswordsInv
<1>3. CASE UNCHANGED Passwords!vars
  BY <1>3 DEF PasswordsInv, Passwords!TypeOK, Passwords!vars, Passwords!In
<1> QED BY <1>1, <1>2, <1>3, PasswordBegins, PasswordUpdated
        DEF Passwords!Next, Passwords!Serve

LEMMA ResetsTouch == PasswordsInv /\ [Passwords!Next]_(Passwords!vars) => Passwords!ResetTouchesItsOwn
<1> SUFFICES ASSUME PasswordsInv, [Passwords!Next]_(Passwords!vars), NEW r \in Requests,
                    Passwords!In(r, "reset"), passwordCall'[r] = Idle,
                    NEW s \in Staff \ {passwordCall[r].email}
             PROVE  password'[s] = password[s]
  BY DEF Passwords!ResetTouchesItsOwn
<1>1. passwordCall'[r] # passwordCall[r]
  BY DEF Passwords!In
<1>2. Passwords!Continue(r) \/ Passwords!loseCall(r)
  <2>1. ASSUME NEW q \in Requests, NEW c \in Passwords!Call, PasswordCallBegins(q, c) PROVE FALSE
    BY <1>1, <2>1 DEF PasswordCallBegins, Passwords!In, PasswordsInv, Passwords!TypeOK
  <2>2. \A q \in Requests : Passwords!Continue(q) \/ Passwords!loseCall(q) => q = r
    BY <1>1, PasswordContinues
  <2> QED BY <1>1, <2>1, <2>2, PasswordBegins, PasswordUpdated
          DEF Passwords!Next, Passwords!Serve, Passwords!vars
<1>3. Passwords!saveReset(r) \/ Passwords!loseCall(r)
  BY <1>2 DEF Passwords!Continue, Passwords!In, Passwords!answerLogin, Passwords!storeCode,
              Passwords!sendCode, Passwords!savePassword
<1> QED BY <1>3 DEF Passwords!saveReset, Passwords!loseCall, PasswordsInv, Passwords!TypeOK

(* The run leaves logins to the part without overlaps; here all calls       *)
(* overlap, and a reset changes the password of its own email only.        *)
THEOREM ResetsStayWithTheirOwn == Passwords!Spec => Passwords!ResetsTouchTheirOwn
<1>1. PasswordsInv /\ [Passwords!Next]_(Passwords!vars)
        => [Passwords!ResetTouchesItsOwn]_(Passwords!vars)
  BY ResetsTouch
<1> QED BY <1>1, InitPasswords, NextPasswords, PTL DEF Passwords!Spec, Passwords!ResetsTouchTheirOwn

LEMMA CodesStay ==
    PasswordsInv /\ CodesInv /\ Passwords!Serve /\ Alone(passwordCall') => CodesInv'
<1> SUFFICES ASSUME PasswordsInv, CodesInv, Passwords!Serve, Alone(passwordCall') PROVE CodesInv'
  OBVIOUS
<1> USE PasswordsAssumption DEF Passwords!NoCodeAssumption, Passwords!IdleAssumption
<1>1. ASSUME NEW r \in Requests, NEW c \in Passwords!Call, PasswordCallBegins(r, c) PROVE CodesInv'
  <2>1. passwordCall'[r] = c /\ \A q \in Requests \ {r} : passwordCall'[q] = passwordCall[q]
    BY <1>1 DEF PasswordCallBegins, PasswordsInv, Passwords!TypeOK
  <2>2. \A q \in Requests : /\ Passwords!In(q, "mail")' <=> Passwords!In(q, "mail")
                            /\ Passwords!In(q, "mail") => passwordCall'[q] = passwordCall[q]
    BY <1>1, <2>1 DEF PasswordCallBegins, Passwords!In
  <2> QED BY <1>1, <2>1, <2>2 DEF CodesInv, PasswordCallBegins, Passwords!In
<1>2. ASSUME NEW r \in Requests, Passwords!Continue(r) PROVE CodesInv'
  <2> PICK c \in Passwords!Call : c = passwordCall[r]
    BY <1>2, PasswordContinues
  <2>1. /\ c # Idle /\ c.row \in Staff
        /\ \A q \in Requests \ {r} : passwordCall[q] = Idle /\ passwordCall'[q] = Idle
    <3>1. c # Idle /\ \A q \in Requests \ {r} : passwordCall'[q] = passwordCall[q]
      BY <1>2, PasswordContinues
    <3>2. \A q \in Requests \ {r} : passwordCall[q] = Idle
      BY <3>1 DEF CodesInv, Alone, Busy
    <3> QED BY <3>1, <3>2, PasswordCallFields
  <2>2. resetCode \in [Staff -> Values \cup {NoCode}] /\ latest \in [Staff -> Values \cup {NoCode}]
    BY DEF PasswordsInv, Passwords!TypeOK
  <2>3. c.op # "mail" => resetCode = latest
    BY <2>1, <2>2 DEF CodesInv, Passwords!In
  <2>4. CASE Passwords!storeCode(r)
    <3>1. /\ passwordCall'[r].op = "mail" /\ passwordCall'[r].row = c.row
          /\ passwordCall'[r].code = c.code /\ passwordCall'[r] # Idle
      <4>1. passwordCall'[r] = [c EXCEPT !.op = "mail"] /\ c.op = "forget"
        BY <1>2, <2>4, PasswordContinues DEF Passwords!storeCode, Passwords!In
      <4> QED BY <4>1, PasswordCallFields
    <3>2. /\ resetCode' = [resetCode EXCEPT ![c.row] = c.code] /\ latest' = latest
          /\ resetCode = latest
      BY <2>3, <2>4 DEF Passwords!storeCode, Passwords!In
    <3> QED BY <2>1, <2>2, <3>1, <3>2 DEF CodesInv, Passwords!In
  <2>5. CASE ~Passwords!storeCode(r)
    <3>1. \A q \in Requests : passwordCall'[q] = Idle
      BY <1>2, <2>1, <2>5, PasswordContinues
    <3>2. resetCode' = latest'
      <4>1. CASE Passwords!sendCode(r)
        <5>1. /\ c.op = "mail" /\ resetCode' = resetCode
              /\ latest' = [latest EXCEPT ![c.row] = c.code]
          BY <4>1 DEF Passwords!sendCode, Passwords!In
        <5>2. /\ resetCode[c.row] = c.code
              /\ \A s \in Staff \ {c.row} : resetCode[s] = latest[s]
          BY <2>1, <5>1 DEF CodesInv, Passwords!In
        <5> QED BY <2>1, <2>2, <5>1, <5>2
      <4>2. CASE Passwords!saveReset(r)
        <5>1. /\ c.op = "reset" /\ resetCode' = [resetCode EXCEPT ![c.row] = NoCode]
              /\ latest' = [latest EXCEPT ![c.row] = IF @ = c.code THEN NoCode ELSE @]
          BY <4>2 DEF Passwords!saveReset, Passwords!In
        <5>2. latest[c.row] = c.code
          BY <2>1, <2>3, <5>1 DEF CodesInv, Passwords!In
        <5> QED BY <2>1, <2>2, <2>3, <5>1, <5>2
      <4>3. CASE Passwords!answerLogin(r) \/ Passwords!savePassword(r)
        BY <2>3, <4>3 DEF Passwords!answerLogin, Passwords!savePassword, Passwords!In
      <4> QED BY <1>2, <2>5, <4>1, <4>2, <4>3 DEF Passwords!Continue
    <3> QED BY <3>1, <3>2 DEF CodesInv, Passwords!In
  <2> QED BY <2>4, <2>5
<1>3. ASSUME NEW s \in Staff, NEW p \in Values, Passwords!StorePayload(s, p) PROVE CodesInv'
  BY <1>3, PasswordUpdated DEF CodesInv, Passwords!In
<1> QED BY <1>1, <1>2, <1>3, PasswordBegins DEF Passwords!Serve

LEMMA CodesAreRight ==
    PasswordsInv /\ CodesInv => Passwords!LatestCodeIsStored /\ Passwords!LatestCodeResets
<1> SUFFICES ASSUME PasswordsInv, CodesInv
             PROVE  Passwords!LatestCodeIsStored /\ Passwords!LatestCodeResets
  OBVIOUS
<1>1. resetCode \in [Staff -> Values \cup {NoCode}] /\ latest \in [Staff -> Values \cup {NoCode}]
  BY DEF PasswordsInv, Passwords!TypeOK
<1>2. Passwords!LatestCodeIsStored
  BY <1>1 DEF CodesInv, Passwords!LatestCodeIsStored, Passwords!Quiet, Passwords!In
<1>3. ASSUME NEW r \in Requests, Passwords!In(r, "reset")
      PROVE  latest[passwordCall[r].email] = passwordCall[r].code
  <2>1. passwordCall[r].row = passwordCall[r].email /\ passwordCall[r].row \in Staff
    <3>1. passwordCall[r] \in Passwords!Call /\ passwordCall[r].op = "reset"
      BY <1>3 DEF PasswordsInv, Passwords!TypeOK, Passwords!In
    <3> QED BY <1>3, <3>1, PasswordCallFields DEF PasswordsInv
  <2>2. \A q \in Requests : ~Passwords!In(q, "mail")
    BY <1>3 DEF CodesInv, Alone, Busy, Passwords!In
  <2> QED BY <1>3, <2>1, <2>2 DEF CodesInv
<1> QED BY <1>2, <1>3 DEF Passwords!LatestCodeResets

--------------------------------------------------------------------------------
(* Profiles and avatars. *)

Updating == {r \in Busy(profileCall) : profileCall[r].at = "update" /\ profileCall[r].avatar # Absent}

(* A call has uploaded nothing before the update, and then what it was given. *)
AvatarsAreUploaded ==
    \A r \in Busy(profileCall) :
        /\ profileCall[r].at \in {"phone", "email", "upload"} => profileCall[r].avatar = Absent
        /\ profileCall[r].at = "update" =>
              (profileCall[r].avatar # Absent <=> profileCall[r].payload.avatarFile)

AvatarsDiffer ==
    \A s, t \in Staff : row[s].avatar # Absent /\ row[s].avatar = row[t].avatar => s = t

(* An avatar that waits for the update of its row is on the disk, belongs   *)
(* to one call, and nobody has seen it.                                    *)
NewAvatarsAreUnseen ==
    \A r \in Updating :
        /\ profileCall[r].avatar \in disk
        /\ \A s \in Staff : row[s].avatar # profileCall[r].avatar
        /\ \A q \in Busy(profileCall) : profileCall[q].seen # profileCall[r].avatar
        /\ \A q \in Updating : profileCall[q].avatar = profileCall[r].avatar => q = r

(* What a call has seen was uploaded, and is nobody else's.                 *)
SeenAvatarsAreOwn ==
    \A r \in Busy(profileCall) : profileCall[r].seen # Absent =>
        /\ profileCall[r].seen \in written
        /\ \A s \in Staff : row[s].avatar = profileCall[r].seen => s = profileCall[r].staff

(* What a call is about to delete is named by no row.                       *)
ReplacedAvatarIsUnnamed ==
    \A r \in Busy(profileCall) :
        profileCall[r].at = "delete" /\ profileCall[r].payload.avatarFile /\ profileCall[r].seen # Absent
            => \A s \in Staff : row[s].avatar # profileCall[r].seen

ProfileInv ==
    /\ Profile!TypeOK
    /\ Profile!AvatarExists
    /\ AvatarsAreUploaded
    /\ AvatarsDiffer
    /\ NewAvatarsAreUnseen
    /\ SeenAvatarsAreOwn
    /\ ReplacedAvatarIsUnnamed

(* The avatars that may be there when no call is on its way. *)
Kept == Profile!Avatars \cup refused

(* How far the one call is: what it has found to be free stays free, and    *)
(* what it has put on the disk, or left there, is its own to name or delete. *)
UpdateGoesWell(c) ==
    /\ c.at # "delete" => c.seen = row[c.staff].avatar
    /\ c.at \in {"email", "upload", "update"} => Profile!IgnoreUnique(c.staff, "phone", c.payload.phone)
    /\ c.at \in {"upload", "update"} =>
          c.payload.email = Absent \/ Profile!IgnoreUnique(c.staff, "email", c.payload.email)
    /\ c.at \in {"phone", "email", "upload"} => disk \subseteq Kept
    /\ c.at = "update" => disk \subseteq Kept \cup {c.avatar} /\ c.avatar \notin refused
    /\ c.at = "delete" =>
          /\ disk \subseteq Kept \cup (IF c.payload.avatarFile THEN {c.seen} ELSE {})
          /\ c.payload.avatarFile => c.seen \notin refused

(* What a refused update has left stays, and no row comes to name it.       *)
RefusedStay == refused \subseteq disk /\ \A s \in Staff : row[s].avatar \notin refused

ProfileAloneInv ==
    /\ Alone(profileCall)
    /\ \A s, t \in Staff : row[s].email = row[t].email => s = t
    /\ RefusedStay
    /\ Busy(profileCall) = {} => disk \subseteq Kept
    /\ \A r \in Busy(profileCall) : UpdateGoesWell(profileCall[r])

LEMMA ProfileCallFields ==
    ASSUME Profile!TypeOK, NEW r \in Busy(profileCall)
    PROVE  /\ r \in Requests /\ profileCall[r] \in Profile!Call
           /\ profileCall[r].at \in {"phone", "email", "upload", "update", "delete"}
           /\ profileCall[r].staff \in Staff
           /\ profileCall[r].payload.username \in Usernames \cup {Absent}
           /\ profileCall[r].payload.phone \in Phones \cup {Absent}
           /\ profileCall[r].payload.email \in Emails \cup {Absent}
           /\ profileCall[r].payload.avatarFile \in BOOLEAN
           /\ profileCall[r].seen \in Files \cup {Absent}
           /\ profileCall[r].avatar \in Files \cup {Absent}
BY DEF Busy, Profile!TypeOK, Profile!Call, Profile!Given, Profile!StaffUpdateInput

LEMMA RowFields ==
    ASSUME Profile!TypeOK, NEW s \in Staff
    PROVE  /\ row[s].username \in Usernames
           /\ row[s].phone \in Phones \cup {Absent} /\ row[s].email \in Emails
           /\ row[s].avatar \in Files \cup {Absent}
BY DEF Profile!TypeOK, Profile!StaffRow, Profile!Given

(* A call goes from one place to another with everything it has.            *)
CallMoves(r, place, avatar) ==
    /\ Busy(profileCall)' = Busy(profileCall)
    /\ \A q \in Busy(profileCall) : q # r => profileCall'[q] = profileCall[q]
    /\ profileCall'[r] \in Profile!Call
    /\ profileCall'[r].at = place /\ profileCall'[r].avatar = avatar
    /\ profileCall'[r].staff = profileCall[r].staff /\ profileCall'[r].payload = profileCall[r].payload
    /\ profileCall'[r].seen = profileCall[r].seen

CallEnds(r) ==
    /\ Busy(profileCall)' = Busy(profileCall) \ {r}
    /\ \A q \in Busy(profileCall) : q # r => profileCall'[q] = profileCall[q]

LEMMA ProfileMoves ==
    ASSUME Profile!TypeOK, NEW r \in Busy(profileCall),
           NEW place \in {"email", "upload", "update", "delete"}, NEW avatar \in Files \cup {Absent},
           \/ profileCall' = [profileCall EXCEPT ![r].at = place, ![r].avatar = avatar]
           \/ Profile!Goto(r, place) /\ avatar = profileCall[r].avatar
    PROVE  CallMoves(r, place, avatar) /\ profileCall' \in [Requests -> Profile!Call \cup {Idle}]
<1> USE ProfileAssumption DEF Profile!IdleAssumption
<1>1. r \in Requests /\ profileCall[r] \in Profile!Call
  BY ProfileCallFields
<1>2. \/ profileCall'[r] = [profileCall[r] EXCEPT !.at = place, !.avatar = avatar]
      \/ profileCall'[r] = [profileCall[r] EXCEPT !.at = place] /\ avatar = profileCall[r].avatar
  BY <1>1 DEF Profile!TypeOK, Profile!Goto
<1>3. /\ profileCall'[r] \in Profile!Call
      /\ profileCall'[r].at = place /\ profileCall'[r].avatar = avatar
      /\ profileCall'[r].staff = profileCall[r].staff /\ profileCall'[r].payload = profileCall[r].payload
      /\ profileCall'[r].seen = profileCall[r].seen
  BY <1>1, <1>2 DEF Profile!Call, Profile!Given
<1>4. \A q \in Requests : q # r => profileCall'[q] = profileCall[q]
  BY <1>1 DEF Profile!TypeOK, Profile!Goto
<1>5. Busy(profileCall)' = Busy(profileCall)
  BY <1>3, <1>4 DEF Busy
<1>6. profileCall' \in [Requests -> Profile!Call \cup {Idle}]
  BY <1>3 DEF Profile!TypeOK, Profile!Goto
<1> QED BY <1>3, <1>4, <1>5, <1>6 DEF CallMoves, Busy

LEMMA ProfileEnds ==
    ASSUME Profile!TypeOK, NEW r \in Busy(profileCall), Profile!End(r)
    PROVE  CallEnds(r) /\ profileCall' \in [Requests -> Profile!Call \cup {Idle}]
BY DEF Profile!TypeOK, Profile!End, CallEnds, Busy

(* A call begins with the avatar its guard has read.                        *)
ProfileCallBegins(r, s, payload) ==
    /\ r \notin Busy(profileCall)
    /\ Busy(profileCall)' = Busy(profileCall) \cup {r}
    /\ \A q \in Busy(profileCall) : profileCall'[q] = profileCall[q]
    /\ profileCall' \in [Requests -> Profile!Call \cup {Idle}]
    /\ profileCall'[r].at = "phone" /\ profileCall'[r].avatar = Absent
    /\ profileCall'[r].staff = s /\ profileCall'[r].payload = payload
    /\ profileCall'[r].seen = row[s].avatar
    /\ UNCHANGED <<row, disk, written, refused>>

LEMMA ProfileBegins ==
    ASSUME Profile!TypeOK, NEW r \in Requests, NEW s \in Staff, NEW payload \in Profile!StaffUpdateInput,
           Profile!updateStaffProfile(r, s, payload)
    PROVE  ProfileCallBegins(r, s, payload)
<1> USE ProfileAssumption DEF Profile!IdleAssumption
<1> DEFINE new == [at |-> "phone", staff |-> s, payload |-> payload,
                   seen |-> row[s].avatar, avatar |-> Absent]
<1>1. new \in Profile!Call
  BY RowFields DEF Profile!Call, Profile!Given
<1>2. /\ profileCall[r] = Idle /\ profileCall' = [profileCall EXCEPT ![r] = new]
      /\ UNCHANGED <<row, disk, written, refused>>
  BY DEF Profile!updateStaffProfile
<1>3. profileCall'[r] = new /\ \A q \in Requests : q # r => profileCall'[q] = profileCall[q]
  BY <1>2 DEF Profile!TypeOK
<1>4. new # Idle
  BY <1>1
<1>5. profileCall' \in [Requests -> Profile!Call \cup {Idle}]
  BY <1>1, <1>2 DEF Profile!TypeOK
<1>6. Busy(profileCall)' = Busy(profileCall) \cup {r} /\ r \notin Busy(profileCall)
  BY <1>2, <1>3, <1>4 DEF Busy
<1> QED BY <1>2, <1>3, <1>5, <1>6 DEF ProfileCallBegins, Busy

LEMMA InitProfile == Profile!Init => ProfileInv /\ ProfileAloneInv
<1> SUFFICES ASSUME Profile!Init PROVE ProfileInv /\ ProfileAloneInv
  OBVIOUS
<1>1. /\ row \in [Staff -> [username: Usernames, phone: {Absent}, email: Emails, avatar: {Absent}]]
      /\ disk = {} /\ written = {} /\ refused = {} /\ profileCall = [r \in Requests |-> Idle]
      /\ \A s, t \in Staff : row[s].email = row[t].email => s = t
  BY DEF Profile!Init
<1>2. Busy(profileCall) = {}
  BY <1>1 DEF Busy
<1>3. Profile!TypeOK
  BY <1>1 DEF Profile!TypeOK, Profile!StaffRow, Profile!Given
<1>4. \A s \in Staff : row[s].avatar = Absent
  BY <1>1
<1>5. ProfileInv
  BY <1>2, <1>3, <1>4 DEF ProfileInv, Profile!AvatarExists, AvatarsAreUploaded, AvatarsDiffer,
     NewAvatarsAreUnseen, SeenAvatarsAreOwn, ReplacedAvatarIsUnnamed, Updating
<1> QED BY <1>1, <1>2, <1>5 DEF ProfileAloneInv, RefusedStay, Alone

LEMMA BeginKeepsAvatars ==
    ASSUME ProfileInv, NEW r \in Requests, NEW s \in Staff, NEW payload \in Profile!StaffUpdateInput,
           ProfileCallBegins(r, s, payload)
    PROVE  ProfileInv'
<1>1. Profile!TypeOK' /\ Profile!AvatarExists' /\ AvatarsDiffer'
  BY DEF ProfileInv, ProfileCallBegins, Profile!TypeOK, Profile!AvatarExists, AvatarsDiffer
<1>2. Updating' = Updating
  BY DEF ProfileCallBegins, Updating
<1>3. AvatarsAreUploaded' /\ ReplacedAvatarIsUnnamed'
  BY DEF ProfileInv, ProfileCallBegins, AvatarsAreUploaded, ReplacedAvatarIsUnnamed
<1>4. NewAvatarsAreUnseen'
  BY <1>2 DEF ProfileInv, ProfileCallBegins, NewAvatarsAreUnseen, Updating
<1>5. SeenAvatarsAreOwn'
  <2>1. row[s].avatar # Absent => row[s].avatar \in written
    BY DEF ProfileInv, Profile!AvatarExists, Profile!TypeOK
  <2> QED BY <2>1 DEF ProfileInv, ProfileCallBegins, SeenAvatarsAreOwn, AvatarsDiffer
<1> QED BY <1>1, <1>3, <1>4, <1>5 DEF ProfileInv

(* A call ends, or goes on to a place where it neither updates nor deletes. *)
LEMMA GoingOnKeepsAvatars ==
    ASSUME ProfileInv, NEW r \in Busy(profileCall),
           \/ Profile!End(r)
           \/ profileCall[r].at = "phone" /\ Profile!Goto(r, "email")
           \/ profileCall[r].at = "email" /\ Profile!Goto(r, "upload"),
           UNCHANGED <<row, disk, written>>, refused' \subseteq written
    PROVE  ProfileInv'
<1>1. Profile!TypeOK
  BY DEF ProfileInv
<1>2. /\ profileCall' \in [Requests -> Profile!Call \cup {Idle}]
      /\ \/ CallEnds(r)
         \/ CallMoves(r, "email", profileCall[r].avatar) /\ profileCall[r].at = "phone"
         \/ CallMoves(r, "upload", profileCall[r].avatar) /\ profileCall[r].at = "email"
  BY <1>1, ProfileMoves, ProfileEnds, ProfileCallFields
<1>3. Profile!TypeOK' /\ Profile!AvatarExists' /\ AvatarsDiffer'
  BY <1>1, <1>2 DEF ProfileInv, Profile!TypeOK, Profile!AvatarExists, AvatarsDiffer
<1>4. Busy(profileCall)' \subseteq Busy(profileCall) /\ Updating' \subseteq Updating \ {r}
  BY <1>2 DEF CallEnds, CallMoves, Updating
<1>5. AvatarsAreUploaded'
  BY <1>2 DEF ProfileInv, AvatarsAreUploaded, CallEnds, CallMoves
<1>6. ReplacedAvatarIsUnnamed'
  BY <1>2 DEF ProfileInv, ReplacedAvatarIsUnnamed, CallEnds, CallMoves
<1>7. NewAvatarsAreUnseen'
  BY <1>2, <1>4 DEF ProfileInv, NewAvatarsAreUnseen, CallEnds, CallMoves, Updating
<1>8. SeenAvatarsAreOwn'
  BY <1>2 DEF ProfileInv, SeenAvatarsAreOwn, CallEnds, CallMoves
<1> QED BY <1>3, <1>5, <1>6, <1>7, <1>8 DEF ProfileInv

LEMMA UploadKeepsAvatars ==
    ASSUME ProfileInv, NEW r \in Requests, Profile!upload(r)
    PROVE  ProfileInv'
<1> USE ProfileAssumption DEF Profile!AbsentAssumption
<1>1. /\ Profile!TypeOK /\ r \in Busy(profileCall) /\ profileCall[r].at = "upload"
      /\ row' = row /\ refused' = refused /\ profileCall[r].payload.avatarFile \in BOOLEAN
  BY ProfileCallFields DEF ProfileInv, Profile!upload, Profile!At, Busy
<1>2. PICK f \in IF profileCall[r].payload.avatarFile THEN Files \ written ELSE {Absent} :
        /\ disk' = disk \cup ({f} \ {Absent})
        /\ written' = written \cup ({f} \ {Absent})
        /\ profileCall' = [profileCall EXCEPT ![r].at = "update", ![r].avatar = f]
  BY DEF Profile!upload
<1>3. /\ f \in Files \cup {Absent} /\ f \notin written
      /\ f # Absent <=> profileCall[r].payload.avatarFile
  BY <1>2, <1>1 DEF Profile!TypeOK
<1>4. CallMoves(r, "update", f) /\ profileCall' \in [Requests -> Profile!Call \cup {Idle}]
  BY <1>2, <1>1, <1>3, ProfileMoves
<1>5. Profile!TypeOK' /\ Profile!AvatarExists' /\ AvatarsDiffer'
  BY <1>2, <1>1, <1>3, <1>4 DEF ProfileInv, Profile!TypeOK, Profile!AvatarExists, AvatarsDiffer
<1>6. AvatarsAreUploaded' /\ ReplacedAvatarIsUnnamed' /\ SeenAvatarsAreOwn'
  <2>1. /\ profileCall'[r].at = "update" /\ profileCall'[r].avatar = f
        /\ profileCall'[r].payload = profileCall[r].payload
        /\ profileCall'[r].seen = profileCall[r].seen /\ profileCall'[r].staff = profileCall[r].staff
        /\ Busy(profileCall)' = Busy(profileCall)
        /\ \A q \in Busy(profileCall) : q # r => profileCall'[q] = profileCall[q]
    BY <1>4 DEF CallMoves
  <2>2. AvatarsAreUploaded'
    BY <1>3, <2>1 DEF ProfileInv, AvatarsAreUploaded
  <2>3. ReplacedAvatarIsUnnamed'
    <3>1. \A q \in Busy(profileCall) : profileCall'[q].at = "delete" => q # r
      BY <2>1
    <3> QED BY <1>1, <2>1, <3>1 DEF ProfileInv, ReplacedAvatarIsUnnamed
  <2>4. SeenAvatarsAreOwn'
    <3>1. \A q \in Busy(profileCall) :
             profileCall'[q].seen = profileCall[q].seen /\ profileCall'[q].staff = profileCall[q].staff
      BY <2>1
    <3>2. written \subseteq written'
      BY <1>2
    <3> QED BY <1>1, <2>1, <3>1, <3>2 DEF ProfileInv, SeenAvatarsAreOwn
  <2> QED BY <2>2, <2>3, <2>4
<1>7. NewAvatarsAreUnseen'
  <2>1. f # Absent =>
          /\ \A s \in Staff : row[s].avatar # f
          /\ \A q \in Busy(profileCall) : profileCall[q].seen # f
          /\ \A q \in Updating : profileCall[q].avatar # f
    BY <1>1, <1>3 DEF ProfileInv, Profile!TypeOK, Profile!AvatarExists, SeenAvatarsAreOwn, NewAvatarsAreUnseen
  <2>2. Updating' = Updating \cup (IF f = Absent THEN {} ELSE {r}) /\ r \notin Updating
    <3>1. \A q \in Busy(profileCall) :
             (profileCall'[q].at = "update" /\ profileCall'[q].avatar # Absent)
                 <=> (q \in Updating \/ (q = r /\ f # Absent))
      BY <1>1, <1>4 DEF CallMoves, Updating
    <3>2. Updating \subseteq Busy(profileCall) /\ Busy(profileCall)' = Busy(profileCall) /\ r \notin Updating
      BY <1>1, <1>4 DEF CallMoves, Updating
    <3> QED BY <1>1, <3>1, <3>2 DEF Updating
  <2>3. /\ disk \subseteq disk'
        /\ f # Absent => f \in disk'
        /\ Busy(profileCall)' = Busy(profileCall)
        /\ profileCall'[r].avatar = f /\ profileCall'[r].seen = profileCall[r].seen
        /\ \A q \in Busy(profileCall) : q # r => profileCall'[q] = profileCall[q]
    BY <1>2, <1>1, <1>4 DEF CallMoves
  <2>4. Updating \subseteq Busy(profileCall)
    BY DEF Updating
  <2>5. ASSUME NEW q \in Updating'
        PROVE  /\ profileCall'[q].avatar \in disk'
               /\ \A s \in Staff : row'[s].avatar # profileCall'[q].avatar
               /\ \A p \in Busy(profileCall)' : profileCall'[p].seen # profileCall'[q].avatar
    BY <1>1, <2>1, <2>2, <2>3, <2>4, <2>5 DEF ProfileInv, NewAvatarsAreUnseen
  <2>6. ASSUME NEW q \in Updating', NEW p \in Updating', profileCall'[p].avatar = profileCall'[q].avatar
        PROVE  p = q
    BY <2>1, <2>2, <2>3, <2>4, <2>6 DEF ProfileInv, NewAvatarsAreUnseen
  <2> QED BY <2>5, <2>6 DEF NewAvatarsAreUnseen
<1> QED BY <1>5, <1>6, <1>7 DEF ProfileInv

(* The new avatar takes the place of the one that the row has, which need   *)
(* not be the one the call has seen; then no row names what it has seen.    *)
LEMMA UpdateKeepsAvatars ==
    ASSUME ProfileInv, NEW r \in Requests, Profile!update(r)
    PROVE  ProfileInv'
<1> USE ProfileAssumption DEF Profile!AbsentAssumption
<1>1. /\ Profile!TypeOK /\ r \in Busy(profileCall) /\ profileCall[r].at = "update"
      /\ disk' = disk /\ written' = written
  BY DEF ProfileInv, Profile!update, Profile!At, Busy
<1> PICK s \in Staff, new \in Profile!StaffRow, f \in Files \cup {Absent} :
        /\ s = profileCall[r].staff /\ f = profileCall[r].avatar
        /\ new = Profile!Updated(row[s], profileCall[r])
        /\ new.avatar = IF f = Absent THEN row[s].avatar ELSE f
  <2>1. /\ profileCall[r].staff \in Staff /\ profileCall[r].avatar \in Files \cup {Absent}
        /\ profileCall[r].payload.username \in Usernames \cup {Absent}
        /\ profileCall[r].payload.phone \in Phones \cup {Absent}
        /\ profileCall[r].payload.email \in Emails \cup {Absent}
    BY <1>1, ProfileCallFields
  <2>2. Profile!Updated(row[profileCall[r].staff], profileCall[r]) \in Profile!StaffRow
    BY <1>1, <2>1, RowFields DEF Profile!Updated, Profile!StaffRow, Profile!Given
  <2> QED BY <2>1, <2>2 DEF Profile!Updated
<1>2. CASE Profile!End(r) /\ row' = row /\ refused' \subseteq refused \cup ({f} \ {Absent})
  <2>1. f # Absent => f \in written
    BY <1>1 DEF ProfileInv, NewAvatarsAreUnseen, Updating, Profile!TypeOK
  <2> QED BY <1>1, <1>2, <2>1, GoingOnKeepsAvatars DEF Profile!TypeOK
<1>3. CASE Profile!Goto(r, "delete") /\ row' = [row EXCEPT ![s] = new] /\ refused' = refused
  <2>1. CallMoves(r, "delete", f) /\ profileCall' \in [Requests -> Profile!Call \cup {Idle}]
    BY <1>1, <1>3, ProfileMoves
  <2>2. /\ row' \in [Staff -> Profile!StaffRow]
        /\ row'[s].avatar = IF f = Absent THEN row[s].avatar ELSE f
        /\ \A t \in Staff \ {s} : row'[t].avatar = row[t].avatar
    BY <1>1, <1>3 DEF Profile!TypeOK
  <2>3. f # Absent =>
          /\ f \in disk
          /\ \A t \in Staff : row[t].avatar # f
          /\ \A q \in Busy(profileCall) : profileCall[q].seen # f
          /\ \A q \in Updating : profileCall[q].avatar = f => q = r
    BY <1>1 DEF ProfileInv, NewAvatarsAreUnseen, Updating
  <2>4. /\ profileCall[r].payload.avatarFile => f # Absent
        /\ profileCall[r].seen # Absent =>
              \A t \in Staff : row[t].avatar = profileCall[r].seen => t = s
    BY <1>1 DEF ProfileInv, AvatarsAreUploaded, SeenAvatarsAreOwn
  <2>5. Profile!TypeOK' /\ Profile!AvatarExists' /\ AvatarsDiffer'
    BY <1>1, <1>3, <2>1, <2>2, <2>3 DEF ProfileInv, Profile!TypeOK, Profile!AvatarExists, AvatarsDiffer
  <2>6. AvatarsAreUploaded'
    BY <2>1 DEF ProfileInv, AvatarsAreUploaded, CallMoves
  <2>7. NewAvatarsAreUnseen'
    <3>1. Updating' = Updating \ {r}
      BY <2>1 DEF CallMoves, Updating
    <3> QED BY <1>1, <2>1, <2>2, <2>3, <3>1 DEF ProfileInv, NewAvatarsAreUnseen, CallMoves, Updating
  <2>8. SeenAvatarsAreOwn'
    BY <1>1, <2>1, <2>2, <2>3 DEF ProfileInv, SeenAvatarsAreOwn, CallMoves
  <2>9. ReplacedAvatarIsUnnamed'
    BY <1>1, <2>1, <2>2, <2>3, <2>4 DEF ProfileInv, ReplacedAvatarIsUnnamed, CallMoves
  <2> QED BY <2>5, <2>6, <2>7, <2>8, <2>9 DEF ProfileInv
<1> QED BY <1>2, <1>3 DEF Profile!update

LEMMA DeleteKeepsAvatars ==
    ASSUME ProfileInv, NEW r \in Requests, Profile!deleteFile(r)
    PROVE  ProfileInv'
<1> DEFINE old == IF profileCall[r].payload.avatarFile THEN {profileCall[r].seen} ELSE {}
<1>1. /\ Profile!TypeOK /\ r \in Busy(profileCall) /\ profileCall[r].at = "delete"
      /\ disk' = disk \ old /\ row' = row /\ written' = written /\ Profile!End(r)
      /\ refused' = refused
  BY DEF ProfileInv, Profile!deleteFile, Profile!At, Busy
<1>2. CallEnds(r) /\ profileCall' \in [Requests -> Profile!Call \cup {Idle}]
  BY <1>1, ProfileEnds
<1>3. \A s \in Staff : row[s].avatar # Absent => row[s].avatar \notin old
  BY <1>1 DEF ProfileInv, ReplacedAvatarIsUnnamed
<1>4. \A q \in Updating : profileCall[q].avatar \notin old
  BY <1>1 DEF ProfileInv, NewAvatarsAreUnseen
<1> HIDE DEF old
<1>5. Profile!TypeOK' /\ Profile!AvatarExists' /\ AvatarsDiffer'
  BY <1>1, <1>2, <1>3 DEF ProfileInv, Profile!TypeOK, Profile!AvatarExists, AvatarsDiffer
<1>6. AvatarsAreUploaded' /\ SeenAvatarsAreOwn' /\ ReplacedAvatarIsUnnamed'
  BY <1>1, <1>2 DEF ProfileInv, AvatarsAreUploaded, SeenAvatarsAreOwn, ReplacedAvatarIsUnnamed, CallEnds
<1>7. NewAvatarsAreUnseen'
  <2>1. Updating' \subseteq Updating
    BY <1>2 DEF CallEnds, Updating
  <2> QED BY <1>1, <1>2, <1>4, <2>1 DEF ProfileInv, NewAvatarsAreUnseen, CallEnds, Updating
<1> QED BY <1>5, <1>6, <1>7 DEF ProfileInv

LEMMA NextProfile == ProfileInv /\ [Profile!Next]_(Profile!vars) => ProfileInv'
<1> SUFFICES ASSUME ProfileInv, [Profile!Next]_(Profile!vars) PROVE ProfileInv'
  OBVIOUS
<1>1. ASSUME NEW r \in Requests, NEW s \in Staff, NEW payload \in Profile!StaffUpdateInput,
             Profile!updateStaffProfile(r, s, payload)
      PROVE ProfileInv'
  BY <1>1, ProfileBegins, BeginKeepsAvatars DEF ProfileInv
<1>2. ASSUME NEW r \in Requests,
             Profile!checkPhone(r) \/ Profile!checkEmail(r) \/ Profile!loseCall(r)
      PROVE ProfileInv'
  BY <1>2, GoingOnKeepsAvatars
     DEF ProfileInv, Profile!TypeOK, Profile!checkPhone, Profile!checkEmail, Profile!loseCall, Profile!At, Busy
<1>3. CASE UNCHANGED Profile!vars
  BY <1>3 DEF Profile!vars, ProfileInv, Profile!TypeOK, Profile!AvatarExists, AvatarsAreUploaded,
     AvatarsDiffer, NewAvatarsAreUnseen, SeenAvatarsAreOwn, ReplacedAvatarIsUnnamed, Busy, Updating
<1> QED BY <1>1, <1>2, <1>3, UploadKeepsAvatars, UpdateKeepsAvatars, DeleteKeepsAvatars
        DEF Profile!Next, Profile!Serve

(* The run leaves usernames and roles that are refused to the part without  *)
(* overlaps; here any payloads overlap, and the avatar a row names exists.  *)
THEOREM AvatarsExist == Profile!Spec => []Profile!AvatarExists
<1>1. ProfileInv => Profile!AvatarExists
  BY DEF ProfileInv
<1> QED BY <1>1, InitProfile, NextProfile, PTL DEF Profile!Spec

LEMMA AloneProfile ==
    ASSUME ProfileInv, ProfileAloneInv, NEW r \in Busy(profileCall),
           \/ Profile!checkPhone(r) \/ Profile!checkEmail(r) \/ Profile!upload(r)
           \/ Profile!update(r) \/ Profile!deleteFile(r)
    PROVE  ProfileAloneInv'
<1> USE ProfileAssumption DEF Profile!AbsentAssumption
<1> PICK c \in Profile!Call, s \in Staff : c = profileCall[r] /\ s = c.staff
  BY ProfileCallFields DEF ProfileInv
<1>1. /\ Profile!TypeOK /\ Busy(profileCall) = {r} /\ UpdateGoesWell(c) /\ RefusedStay
      /\ \A t, v \in Staff : row[t].email = row[v].email => t = v
  BY DEF ProfileInv, ProfileAloneInv, Alone
<1>2. /\ c.payload.username \in Usernames \cup {Absent}
      /\ c.payload.phone \in Phones \cup {Absent} /\ c.payload.email \in Emails \cup {Absent}
      /\ c.payload.avatarFile \in BOOLEAN /\ c.avatar \in Files \cup {Absent}
  BY <1>1, ProfileCallFields
<1>3. ASSUME Profile!End(r), disk' \subseteq Kept', RefusedStay',
             \A t, v \in Staff : row'[t].email = row'[v].email => t = v
      PROVE  ProfileAloneInv'
  <2>1. Busy(profileCall)' = {}
    BY <1>1, <1>3, ProfileEnds DEF CallEnds
  <2> QED BY <1>3, <2>1 DEF ProfileAloneInv, Alone
<1>4. ASSUME NEW place, NEW avatar, CallMoves(r, place, avatar), UpdateGoesWell(profileCall[r])', RefusedStay',
             \A t, v \in Staff : row'[t].email = row'[v].email => t = v
      PROVE  ProfileAloneInv'
  BY <1>1, <1>4 DEF ProfileAloneInv, Alone, CallMoves
<1>10. ASSUME row' = row
       PROVE  \A column \in {"phone", "email"} : \A value :
                 Profile!IgnoreUnique(s, column, value) => Profile!IgnoreUnique(s, column, value)'
  BY <1>10 DEF Profile!IgnoreUnique
<1>5. CASE Profile!checkPhone(r)
  <2>1. /\ c.at = "phone" /\ UNCHANGED <<row, disk, written, refused>>
        /\ IF Profile!IgnoreUnique(s, "phone", c.payload.phone)
             THEN Profile!Goto(r, "email") ELSE Profile!End(r)
    BY <1>5 DEF Profile!checkPhone, Profile!At
  <2>2. disk' \subseteq Kept' /\ Kept' = Kept /\ RefusedStay'
    BY <1>1, <2>1 DEF UpdateGoesWell, Kept, Profile!Avatars, RefusedStay
  <2>3. CASE Profile!IgnoreUnique(s, "phone", c.payload.phone)
    <3>1. CallMoves(r, "email", c.avatar)
      BY <1>1, <1>2, <2>1, <2>3, ProfileMoves
    <3>2. UpdateGoesWell(profileCall[r])'
      <4> DEFINE d == profileCall'[r]
      <4>1. d.at = "email" /\ d.staff = s /\ d.payload = c.payload /\ d.seen = c.seen
        BY <3>1 DEF CallMoves
      <4>2. c.seen = row[s].avatar
        BY <1>1, <2>1 DEF UpdateGoesWell
      <4>3. Profile!IgnoreUnique(s, "phone", c.payload.phone)'
        BY <1>10, <2>1, <2>3
      <4> QED BY <2>1, <2>2, <4>1, <4>2, <4>3 DEF UpdateGoesWell
    <3> QED BY <1>1, <1>4, <2>1, <2>2, <3>1, <3>2
  <2> QED BY <1>1, <1>3, <2>1, <2>2, <2>3
<1>6. CASE Profile!checkEmail(r)
  <2>1. /\ c.at = "email" /\ UNCHANGED <<row, disk, written, refused>>
        /\ IF c.payload.email = Absent \/ Profile!IgnoreUnique(s, "email", c.payload.email)
             THEN Profile!Goto(r, "upload") ELSE Profile!End(r)
    BY <1>6 DEF Profile!checkEmail, Profile!At
  <2>2. disk' \subseteq Kept' /\ Kept' = Kept /\ RefusedStay'
    BY <1>1, <2>1 DEF UpdateGoesWell, Kept, Profile!Avatars, RefusedStay
  <2>3. CASE c.payload.email = Absent \/ Profile!IgnoreUnique(s, "email", c.payload.email)
    <3>1. CallMoves(r, "upload", c.avatar)
      BY <1>1, <1>2, <2>1, <2>3, ProfileMoves
    <3>2. UpdateGoesWell(profileCall[r])'
      <4> DEFINE d == profileCall'[r]
      <4>1. d.at = "upload" /\ d.staff = s /\ d.payload = c.payload /\ d.seen = c.seen
        BY <3>1 DEF CallMoves
      <4>2. c.seen = row[s].avatar /\ Profile!IgnoreUnique(s, "phone", c.payload.phone)
        BY <1>1, <2>1 DEF UpdateGoesWell
      <4>3. /\ Profile!IgnoreUnique(s, "phone", c.payload.phone)'
            /\ c.payload.email = Absent \/ Profile!IgnoreUnique(s, "email", c.payload.email)'
        BY <1>10, <2>1, <2>3, <4>2
      <4> QED BY <2>1, <2>2, <4>1, <4>2, <4>3 DEF UpdateGoesWell
    <3> QED BY <1>1, <1>4, <2>1, <2>2, <3>1, <3>2
  <2> QED BY <1>1, <1>3, <2>1, <2>2, <2>3
<1>7. CASE Profile!upload(r)
  <2>1. PICK f \in Files \cup {Absent} :
           /\ f \notin written
           /\ disk' = disk \cup ({f} \ {Absent}) /\ row' = row /\ refused' = refused
           /\ profileCall' = [profileCall EXCEPT ![r].at = "update", ![r].avatar = f]
    BY <1>1, <1>7 DEF Profile!upload, Profile!TypeOK
  <2>2. c.at = "upload" /\ CallMoves(r, "update", f) /\ Kept' = Kept
    <3>1. c.at = "upload"
      BY <1>7 DEF Profile!upload, Profile!At
    <3>2. CallMoves(r, "update", f)
      BY <1>1, <2>1, ProfileMoves
    <3> QED BY <2>1, <3>1, <3>2 DEF Kept, Profile!Avatars
  <2>3. disk' \subseteq Kept' \cup {f} /\ f \notin refused' /\ RefusedStay'
    BY <1>1, <2>1, <2>2 DEF UpdateGoesWell, RefusedStay, Profile!TypeOK
  <2>4. UpdateGoesWell(profileCall[r])'
    <3> DEFINE d == profileCall'[r]
    <3>1. d.at = "update" /\ d.avatar = f /\ d.staff = s /\ d.payload = c.payload /\ d.seen = c.seen
      BY <2>2 DEF CallMoves
    <3>2. /\ c.seen = row[s].avatar /\ Profile!IgnoreUnique(s, "phone", c.payload.phone)
          /\ c.payload.email = Absent \/ Profile!IgnoreUnique(s, "email", c.payload.email)
      BY <1>1, <2>2 DEF UpdateGoesWell
    <3>3. /\ Profile!IgnoreUnique(s, "phone", c.payload.phone)'
          /\ c.payload.email = Absent \/ Profile!IgnoreUnique(s, "email", c.payload.email)'
      BY <1>10, <2>1, <3>2
    <3> QED BY <2>1, <2>3, <3>1, <3>2, <3>3 DEF UpdateGoesWell
  <2> QED BY <1>1, <1>4, <2>1, <2>2, <2>3, <2>4
<1>8. CASE Profile!update(r)
  <2>1. PICK old \in Profile!StaffRow, new \in Profile!StaffRow :
          /\ old = row[s] /\ new = Profile!Updated(old, c)
          /\ new.phone = (IF c.payload.phone = Absent THEN old.phone ELSE c.payload.phone)
          /\ new.email = (IF c.payload.email = Absent THEN old.email ELSE c.payload.email)
          /\ new.avatar = (IF c.avatar = Absent THEN old.avatar ELSE c.avatar)
    <3>1. row[s] \in Profile!StaffRow
      BY <1>1 DEF Profile!TypeOK
    <3>2. Profile!Updated(row[s], c) \in Profile!StaffRow
      BY <1>1, <1>2, RowFields DEF Profile!Updated, Profile!StaffRow, Profile!Given
    <3> QED BY <3>1, <3>2 DEF Profile!Updated
  <2>2. /\ c.at = "update" /\ c.seen = old.avatar /\ disk' = disk
        /\ disk \subseteq Kept \cup {c.avatar} /\ c.avatar \notin refused
        /\ Profile!IgnoreUnique(s, "phone", c.payload.phone)
        /\ c.payload.email = Absent \/ Profile!IgnoreUnique(s, "email", c.payload.email)
        /\ c.avatar # Absent <=> c.payload.avatarFile
    BY <1>1, <1>8, <2>1 DEF Profile!update, Profile!At, UpdateGoesWell, ProfileInv, AvatarsAreUploaded
  <2>3. c.avatar # Absent => c.avatar \in disk /\ \A t \in Staff : row[t].avatar # c.avatar
    BY <1>1, <2>2 DEF ProfileInv, NewAvatarsAreUnseen, Updating
  <2>4. CASE Profile!BreaksUnsearched(c, new)
    <3>1. Profile!End(r) /\ row' = row /\ refused' = refused \cup ({c.avatar} \ {Absent})
      BY <1>8, <2>1, <2>4 DEF Profile!update
    <3>2. disk' \subseteq Kept' /\ RefusedStay'
      <4>1. Absent \notin disk
        BY <1>1 DEF Profile!TypeOK
      <4> QED BY <1>1, <2>2, <2>3, <3>1, <4>1 DEF Kept, Profile!Avatars, RefusedStay
    <3> QED BY <1>1, <1>3, <3>1, <3>2
  <2>5. CASE ~Profile!BreaksUnsearched(c, new)
    <3>1. \A t \in Staff \ {s} :
             /\ c.payload.phone # Absent /\ row[t].phone # c.payload.phone
             /\ row[t].email # new.email
      BY <1>1, <2>1, <2>2 DEF Profile!IgnoreUnique
    <3>2. ~Profile!TakesSearchedKey(s, new)
      BY <2>1, <3>1 DEF Profile!TakesSearchedKey
    <3>3. Profile!Goto(r, "delete") /\ row' = [row EXCEPT ![s] = new] /\ refused' = refused
      BY <1>8, <2>1, <2>5, <3>2 DEF Profile!update
    <3>4. row'[s] = new /\ \A t \in Staff \ {s} : row'[t] = row[t]
      BY <1>1, <3>3 DEF Profile!TypeOK
    <3>5. CallMoves(r, "delete", c.avatar)
      BY <1>1, <1>2, <3>3, ProfileMoves
    <3>6. disk' \subseteq Kept' \cup (IF c.payload.avatarFile THEN {c.seen} ELSE {})
      <4>1. \A a \in Profile!Avatars : a \in Profile!Avatars' \/ (c.payload.avatarFile /\ a = c.seen)
        BY <2>1, <2>2, <3>4 DEF Profile!Avatars
      <4>2. c.avatar # Absent => c.avatar \in Profile!Avatars'
        BY <2>1, <3>4 DEF Profile!Avatars
      <4>3. Absent \notin disk
        BY <1>1 DEF Profile!TypeOK
      <4> QED BY <2>2, <3>3, <4>1, <4>2, <4>3 DEF Kept
    <3>7. RefusedStay' /\ c.seen \notin refused'
      BY <1>1, <2>1, <2>2, <3>3, <3>4 DEF RefusedStay
    <3>8. \A t, v \in Staff : row'[t].email = row'[v].email => t = v
      BY <1>1, <3>1, <3>4
    <3>9. UpdateGoesWell(profileCall[r])'
      BY <3>5, <3>6, <3>7 DEF UpdateGoesWell, CallMoves
    <3> QED BY <1>4, <3>5, <3>7, <3>8, <3>9
  <2> QED BY <2>4, <2>5
<1>9. CASE Profile!deleteFile(r)
  <2>1. /\ c.at = "delete" /\ Profile!End(r) /\ row' = row /\ refused' = refused
        /\ disk' = IF c.payload.avatarFile THEN disk \ {c.seen} ELSE disk
    BY <1>9 DEF Profile!deleteFile, Profile!At
  <2>2. disk' \subseteq Kept' /\ RefusedStay'
    BY <1>1, <2>1 DEF UpdateGoesWell, Kept, Profile!Avatars, RefusedStay
  <2> QED BY <1>1, <1>3, <2>1, <2>2
<1> QED BY <1>5, <1>6, <1>7, <1>8, <1>9

LEMMA AloneProfileStep ==
    ProfileInv /\ ProfileAloneInv /\ Profile!Serve /\ Alone(profileCall') => ProfileAloneInv'
<1> SUFFICES ASSUME ProfileInv, ProfileAloneInv, Profile!Serve, Alone(profileCall')
             PROVE  ProfileAloneInv'
  OBVIOUS
<1>1. ASSUME NEW r \in Requests, NEW s \in Staff, NEW payload \in Profile!StaffUpdateInput,
             Profile!updateStaffProfile(r, s, payload)
      PROVE ProfileAloneInv'
  <2>1. ProfileCallBegins(r, s, payload)
    BY <1>1, ProfileBegins DEF ProfileInv
  <2>2. Busy(profileCall) = {} /\ Busy(profileCall)' = {r}
    <3>1. Busy(profileCall') = Busy(profileCall) \cup {r} /\ r \notin Busy(profileCall)
      BY <2>1 DEF ProfileCallBegins, Busy
    <3> QED BY <3>1 DEF Alone, Busy
  <2>3. disk' \subseteq Kept' /\ RefusedStay'
    BY <2>1, <2>2 DEF ProfileAloneInv, ProfileCallBegins, Kept, Profile!Avatars, RefusedStay
  <2>4. UpdateGoesWell(profileCall[r])'
    BY <2>1, <2>3 DEF UpdateGoesWell, ProfileCallBegins
  <2> QED BY <2>1, <2>2, <2>3, <2>4 DEF ProfileAloneInv, ProfileCallBegins, Alone
<1>2. ASSUME NEW r \in Requests,
             \/ Profile!checkPhone(r) \/ Profile!checkEmail(r) \/ Profile!upload(r)
             \/ Profile!update(r) \/ Profile!deleteFile(r)
      PROVE  ProfileAloneInv'
  <2>1. r \in Busy(profileCall)
    BY <1>2 DEF Profile!checkPhone, Profile!checkEmail, Profile!upload, Profile!update,
                Profile!deleteFile, Profile!At, Busy
  <2> QED BY <1>2, <2>1, AloneProfile
<1> QED BY <1>1, <1>2 DEF Profile!Serve

--------------------------------------------------------------------------------
(* Pages of a list. *)

Shown(i) == \E k \in DOMAIN walk.seen : walk.seen[k] = i

(* As long as the row the walk stands on stays as it is, the walk has shown, *)
(* of the rows that stay, those that do not come after it, each once; and   *)
(* when there are no more, all of them.                                    *)
WalkInv ==
    /\ walk.after # Null => walk.after \in Pages!Existing /\ Pages!where(rows[walk.after])
    /\ \A i \in Pages!Matching :
           /\ Shown(i) <=> walk.after # Null /\ ~Pages!Before(walk.after, i)
           /\ \A j, k \in DOMAIN walk.seen : walk.seen[j] = i /\ walk.seen[k] = i => j = k
    /\ walk.at # "page" /\ ~walk.more => \A i \in Pages!Matching : Shown(i)

(* Nothing has changed yet.                                                 *)
StillInv ==
    /\ steady = Pages!Existing /\ ~touched
    /\ \A k \in DOMAIN walk.seen : walk.seen[k] \in Pages!Matching
    /\ walk.at = "end" => walk.total = Cardinality(Pages!Matching)

PagesInv ==
    /\ Pages!TypeOK
    /\ steady \subseteq Pages!Existing /\ \A i \in Pages!Existing : i <= lastId
    /\ walk.after = Null => walk.seen = <<>>
    /\ walk.at = "end" => ~walk.more
    /\ ~touched => WalkInv
    /\ changes = 0 => StillInv

ListsInOrder(s, S) ==
    /\ s \in Seq(Ids)
    /\ \A k \in DOMAIN s : s[k] \in S
    /\ \A i \in S : \E k \in DOMAIN s : s[k] = i
    /\ \A j, k \in DOMAIN s : j < k => Pages!Before(s[j], s[k])

LEMMA CountsAgree == ASSUME NEW S PROVE Pages!Cardinality(S) = Cardinality(S)
BY DEF Pages!Cardinality, Cardinality

(* A finite set with a strict total order can be listed in that order: an   *)
(* element is listed at the number of those before it.                     *)
LEMMA OrderedListing ==
    ASSUME NEW S, IsFiniteSet(S), NEW R,
           \A x \in S : <<x, x>> \notin R,
           \A x, y, z \in S : <<x, y>> \in R /\ <<y, z>> \in R => <<x, z>> \in R,
           \A x, y \in S : x # y => <<x, y>> \in R \/ <<y, x>> \in R
    PROVE  \E s \in [1..Cardinality(S) -> S] :
              /\ \A j, k \in 1..Cardinality(S) : j # k => s[j] # s[k]
              /\ \A j, k \in 1..Cardinality(S) : j < k => <<s[j], s[k]>> \in R
<1> DEFINE n == Cardinality(S)
           Below(x) == {y \in S : <<y, x>> \in R}
           place == [x \in S |-> Cardinality(Below(x)) + 1]
<1>1. n \in Nat
  BY FS_CardinalityType
<1>2. ASSUME NEW x \in S PROVE Cardinality(Below(x)) \in Nat /\ Cardinality(Below(x)) < n
  <2>1. Below(x) \in SUBSET S /\ Below(x) # S
    OBVIOUS
  <2>2. IsFiniteSet(Below(x)) /\ Cardinality(Below(x)) <= n /\ Cardinality(Below(x)) # n
    BY <2>1, FS_Subset
  <2> QED BY <1>1, <2>2, FS_CardinalityType
<1>3. place \in [S -> 1..n]
  BY <1>1, <1>2
<1>4. ASSUME NEW x \in S, NEW y \in S, <<x, y>> \in R PROVE place[x] < place[y]
  <2>1. Below(x) \in SUBSET Below(y) /\ Below(x) # Below(y) /\ Below(y) \in SUBSET S
    <3>1. Below(x) \in SUBSET Below(y)
      BY <1>4
    <3>2. x \in Below(y) /\ x \notin Below(x)
      BY <1>4
    <3> QED BY <3>1, <3>2
  <2>2. IsFiniteSet(Below(y))
    BY <2>1, FS_Subset
  <2>3. Cardinality(Below(x)) <= Cardinality(Below(y)) /\ Cardinality(Below(x)) # Cardinality(Below(y))
    BY <2>1, <2>2, FS_Subset
  <2> QED BY <1>2, <2>3
<1> HIDE DEF place
<1>5. ASSUME NEW x \in S, NEW y \in S, place[x] = place[y] PROVE x = y
  <2>1. place[x] \in Int /\ ~(place[x] < place[y]) /\ ~(place[y] < place[x])
    BY <1>1, <1>3, <1>5
  <2> QED BY <1>4, <2>1
<1>6. place \in Injection(S, 1..n)
  BY <1>3, <1>5, Fun_IsInj
<1>7. IsFiniteSet(1..n) /\ Cardinality(1..n) = n
  BY <1>1, FS_Interval
<1>8. place \in Surjection(S, 1..n)
  BY <1>6, <1>7, FS_Injection
<1>9. place \in Bijection(S, 1..n)
  BY <1>6, <1>8 DEF Bijection
<1> DEFINE s == Inverse(place, S, 1..n)
<1>10. s \in Bijection(1..n, S) /\ \A x \in S : s[place[x]] = x
  BY <1>9, Fun_BijInverse
<1> HIDE DEF s
<1>11. s \in [1..n -> S] /\ \A j, k \in 1..n : s[j] = s[k] => j = k
  BY <1>10 DEF Bijection, Injection, IsInjective
<1>12. \A k \in 1..n : place[s[k]] = k
  BY <1>3, <1>10, <1>11
<1>13. \A j, k \in 1..n : j < k => <<s[j], s[k]>> \in R
  <2> SUFFICES ASSUME NEW j \in 1..n, NEW k \in 1..n, j < k PROVE <<s[j], s[k]>> \in R
    OBVIOUS
  <2>1. s[j] \in S /\ s[k] \in S /\ s[j] # s[k]
    BY <1>11
  <2>2. <<s[k], s[j]>> \notin R
    <3>1. ~(place[s[k]] < place[s[j]])
      BY <1>1, <1>12
    <3> QED BY <1>4, <2>1, <3>1
  <2> QED BY <2>1, <2>2
<1> QED BY <1>11, <1>13

LEMMA BeforeOrders ==
    ASSUME Pages!TypeOK
    PROVE  /\ \A i \in Pages!Existing : ~Pages!Before(i, i)
           /\ \A i, j, k \in Pages!Existing : Pages!Before(i, j) /\ Pages!Before(j, k) => Pages!Before(i, k)
           /\ \A i, j \in Pages!Existing : i # j => Pages!Before(i, j) \/ Pages!Before(j, i)
<1>1. \A i \in Pages!Existing : i \in Nat /\ rows[i].key \in Nat
  BY PagesAssumption DEF Pages!PageAssumption, Pages!TypeOK, Pages!Existing, Pages!Row
<1> QED BY <1>1 DEF Pages!Before

LEMMA RowsAreFinite ==
    ASSUME PagesInv
    PROVE  IsFiniteSet(Pages!Existing)
<1>1. Pages!Existing \in SUBSET Nat /\ lastId \in Nat /\ \A i \in Pages!Existing : i <= lastId
  BY PagesAssumption DEF Pages!PageAssumption, PagesInv, Pages!TypeOK, Pages!Existing
<1> QED BY <1>1, FS_BoundedSetOfNaturals

LEMMA OrderedLists ==
    ASSUME PagesInv, NEW S \in SUBSET Pages!Existing
    PROVE  ListsInOrder(Pages!Ordered(S), S)
<1> DEFINE n == Cardinality(S)
           R == {p \in S \X S : Pages!Before(p[1], p[2])}
           s == Pages!Ordered(S)
<1>1. IsFiniteSet(S) /\ n \in Nat
  BY RowsAreFinite, FS_Subset, FS_CardinalityType
<1>2. \E t \in [1..n -> S] : /\ \A j, k \in 1..n : j # k => t[j] # t[k]
                             /\ \A j, k \in 1..n : j < k => Pages!Before(t[j], t[k])
  <2>1. \A x, y \in S : <<x, y>> \in R <=> Pages!Before(x, y)
    OBVIOUS
  <2> HIDE DEF R
  <2>2. /\ \A x \in S : <<x, x>> \notin R
        /\ \A x, y, z \in S : <<x, y>> \in R /\ <<y, z>> \in R => <<x, z>> \in R
        /\ \A x, y \in S : x # y => <<x, y>> \in R \/ <<y, x>> \in R
    BY <2>1, BeforeOrders DEF PagesInv
  <2>3. PICK t \in [1..n -> S] : /\ \A j, k \in 1..n : j # k => t[j] # t[k]
                                /\ \A j, k \in 1..n : j < k => <<t[j], t[k]>> \in R
    BY <1>1, <2>2, OrderedListing
  <2> QED BY <2>1, <2>3
<1>3. \A t : t \in Pages!SetToSeqs(S) <=> t \in [1..n -> S] /\ \A j, k \in 1..n : j # k => t[j] # t[k]
  BY CountsAgree DEF Pages!SetToSeqs
<1>4. /\ s \in [1..n -> S] /\ \A j, k \in 1..n : j # k => s[j] # s[k]
      /\ \A j, k \in 1..n : j < k => Pages!Before(s[j], s[k])
  <2>1. \E t \in Pages!SetToSeqs(S) : \A j, k \in DOMAIN t : j < k => Pages!Before(t[j], t[k])
    BY <1>2, <1>3
  <2>2. s \in Pages!SetToSeqs(S) /\ \A j, k \in DOMAIN s : j < k => Pages!Before(s[j], s[k])
    BY <2>1 DEF Pages!Ordered
  <2> QED BY <1>3, <2>2
<1> HIDE DEF s
<1>5. s \in Injection(1..n, S)
  BY <1>4, Fun_IsInj
<1>6. s \in Surjection(1..n, S)
  BY <1>1, <1>5, FS_Interval, FS_Injection
<1>7. \A i \in S : \E k \in 1..n : s[k] = i
  BY <1>6 DEF Surjection
<1>8. s \in Seq(Ids)
  <2>1. S \subseteq Ids
    BY DEF Pages!Existing
  <2> QED BY <1>1, <1>4, <2>1
<1> QED BY <1>4, <1>7, <1>8 DEF ListsInOrder, s

(* The rows that come after the one the walk stands on.                     *)
Rest == {i \in Pages!Existing : Pages!where(rows[i])
                                  /\ (walk.after # Null => Pages!Before(walk.after, i))}

LEMMA NodesAreIds == PagesInv => Pages!NodesAfter \in Seq(Ids)
<1> SUFFICES ASSUME PagesInv PROVE Pages!NodesAfter \in Seq(Ids)
  OBVIOUS
<1>1. Pages!FromCursor \in Seq(Ids)
  <2>1. ASSUME NEW S \in SUBSET Pages!Existing PROVE Pages!Ordered(S) \in Seq(Ids)
    BY <2>1, OrderedLists DEF ListsInOrder
  <2>2. /\ {i \in Pages!Existing : Pages!where(rows[i])} \in SUBSET Pages!Existing
        /\ {i \in Pages!Existing : Pages!where(rows[i]) /\ ~Pages!Before(i, walk.after)}
              \in SUBSET Pages!Existing
    OBVIOUS
  <2>3. <<>> \in Seq(Ids)
    OBVIOUS
  <2> QED BY <2>1, <2>2, <2>3 DEF Pages!FromCursor
<1>2. Pages!FromCursor # <<>> => Tail(Pages!FromCursor) \in Seq(Ids)
  BY <1>1
<1> QED BY <1>1, <1>2 DEF Pages!NodesAfter

(* The row of the cursor, as long as it is as it was, is the first of the   *)
(* rows from the cursor on, so that `skip: 1` drops just that one.          *)
LEMMA NodesInOrder == PagesInv /\ ~touched => ListsInOrder(Pages!NodesAfter, Rest)
<1> SUFFICES ASSUME PagesInv, ~touched PROVE ListsInOrder(Pages!NodesAfter, Rest)
  OBVIOUS
<1>1. CASE walk.after = Null
  <2>1. Pages!NodesAfter = Pages!Ordered(Rest)
    <3>1. Rest = {i \in Pages!Existing : Pages!where(rows[i])}
      BY <1>1 DEF Rest
    <3> QED BY <1>1, <3>1 DEF Pages!NodesAfter, Pages!FromCursor
  <2>2. Rest \in SUBSET Pages!Existing
    BY DEF Rest
  <2> QED BY <2>1, <2>2, OrderedLists
<1>2. CASE walk.after # Null
  <2> DEFINE c == walk.after
             S == {i \in Pages!Existing : Pages!where(rows[i]) /\ ~Pages!Before(i, c)}
  <2>1. c \in Pages!Existing /\ Pages!where(rows[c]) /\ rows[c] # Null
    BY <1>2 DEF PagesInv, WalkInv, Pages!Existing
  <2>2. Rest = S \ {c} /\ c \in S
    BY <1>2, <2>1, BeforeOrders DEF Rest, PagesInv
  <2> PICK from : from = Pages!FromCursor
    OBVIOUS
  <2>3. from = Pages!Ordered(S)
    BY <1>2, <2>1 DEF Pages!FromCursor
  <2>4. S \in SUBSET Pages!Existing
    OBVIOUS
  <2>5. ListsInOrder(from, S)
    BY <2>3, <2>4, OrderedLists
  <2>6. \A i \in S \ {c} : Pages!Before(c, i)
    BY <2>2, <1>2 DEF Rest
  <2> HIDE DEF S, c
  <2>7. /\ from \in Seq(Ids) /\ from # <<>> /\ DOMAIN from = 1..Len(from)
        /\ \A j \in 1..Len(from) : from[j] \in S
        /\ \A i \in S : \E j \in 1..Len(from) : from[j] = i
        /\ \A j, k \in 1..Len(from) : j < k => Pages!Before(from[j], from[k])
    BY <2>2, <2>5 DEF ListsInOrder
  <2>8. from[1] = c
    <3>1. PICK j \in 1..Len(from) : from[j] = c
      BY <2>2, <2>7
    <3>2. 1 \in 1..Len(from) /\ from[1] \in S
      BY <2>7, <3>1
    <3>3. CASE j = 1
      BY <3>1, <3>3
    <3>4. CASE j # 1
      <4>1. Pages!Before(from[1], c)
        BY <2>7, <3>1, <3>2, <3>4
      <4>2. from[1] \in Pages!Existing /\ ~Pages!Before(from[1], c)
        BY <3>2 DEF S
      <4> QED BY <4>1, <4>2
    <3> QED BY <3>3, <3>4
  <2>9. Pages!NodesAfter = Tail(from)
    BY <1>2, <2>7 DEF Pages!NodesAfter
  <2>10. /\ Tail(from) \in Seq(Ids) /\ Len(Tail(from)) = Len(from) - 1
         /\ \A k \in 1..Len(Tail(from)) : Tail(from)[k] = from[k + 1]
         /\ DOMAIN Tail(from) = 1..Len(Tail(from))
    BY <2>7
  <2> PICK nodes \in Seq(Ids) : nodes = Tail(from)
    BY <2>10
  <2>11. /\ Len(nodes) = Len(from) - 1 /\ DOMAIN nodes = 1..Len(nodes) /\ Len(from) \in Nat
         /\ \A k \in 1..Len(nodes) : nodes[k] = from[k + 1]
    BY <2>7, <2>10
  <2>12. \A j, k \in 1..Len(nodes) : j < k => Pages!Before(nodes[j], nodes[k])
    BY <2>7, <2>11
  <2>13. \A k \in 1..Len(nodes) : nodes[k] \in S \ {c}
    <3> SUFFICES ASSUME NEW k \in 1..Len(nodes) PROVE nodes[k] \in S /\ nodes[k] # c
      OBVIOUS
    <3>1. nodes[k] \in S /\ Pages!Before(c, nodes[k])
      <4>1. k + 1 \in 1..Len(from) /\ 1 \in 1..Len(from) /\ 1 < k + 1
        BY <2>11
      <4> QED BY <2>7, <2>8, <2>11, <4>1
    <3>2. ~Pages!Before(c, c)
      BY <2>1, BeforeOrders DEF PagesInv, c
    <3> QED BY <3>1, <3>2
  <2>14. \A i \in S \ {c} : \E k \in 1..Len(nodes) : nodes[k] = i
    <3> SUFFICES ASSUME NEW i \in S, i # c PROVE \E k \in 1..Len(nodes) : nodes[k] = i
      OBVIOUS
    <3>1. PICK j \in 1..Len(from) : from[j] = i
      BY <2>7
    <3>2. j # 1
      BY <2>8, <3>1
    <3>3. j - 1 \in 1..Len(nodes) /\ nodes[j - 1] = from[j]
      BY <2>11, <3>2
    <3> QED BY <3>1, <3>3
  <2> QED BY <2>2, <2>9, <2>11, <2>12, <2>13, <2>14 DEF ListsInOrder
<1> QED BY <1>1, <1>2

LEMMA FirstPage ==
    ASSUME NEW nodes \in Seq(Ids)
    PROVE  /\ Pages!Page(nodes) \in Seq(Ids)
           /\ Len(Pages!Page(nodes)) = IF Len(nodes) > first THEN first ELSE Len(nodes)
           /\ \A k \in 1..Len(Pages!Page(nodes)) : Pages!Page(nodes)[k] = nodes[k]
<1> DEFINE m == IF Len(nodes) > first THEN first ELSE Len(nodes)
<1>1. first \in Nat \ {0} /\ Len(nodes) \in Nat
  BY PagesAssumption DEF Pages!PageAssumption
<1>2. Pages!Min({first, Len(nodes)}) = m
  BY <1>1 DEF Pages!Min
<1>3. m \in 0..Len(nodes)
  BY <1>1
<1>4. Pages!Page(nodes) = SubSeq(nodes, 1, m)
  BY <1>2 DEF Pages!Page
<1> HIDE DEF m
<1>5. /\ SubSeq(nodes, 1, m) \in Seq(Ids) /\ Len(SubSeq(nodes, 1, m)) = m
      /\ \A k \in 1..m : SubSeq(nodes, 1, m)[k] = nodes[k]
  BY <1>3
<1> QED BY <1>4, <1>5 DEF m

(* A page adds the first m nodes to a walk that was of length n.            *)
PageAdds(nodes, m, n) ==
    /\ m \in 0..Len(nodes) /\ (m = 0 => Len(nodes) = 0)
    /\ walk.at = "page" /\ DOMAIN walk.seen = 1..n
    /\ walk' \in Pages!Walk /\ walk'.at = "count" /\ (~walk'.more => m = Len(nodes))
    /\ walk'.after = IF m = 0 THEN walk.after ELSE nodes[m]
    /\ walk'.after # Null => walk'.after = Pages!Last(walk'.seen)
    /\ walk'.after = Null => walk'.seen = <<>>
    /\ DOMAIN walk'.seen = 1..(n + m)
    /\ \A k \in 1..n : walk'.seen[k] = walk.seen[k]
    /\ \A k \in 1..m : walk'.seen[n + k] = nodes[k]
    /\ UNCHANGED <<rows, lastId, arg, changes, steady, touched>>

LEMMA PageIsAdded ==
    ASSUME PagesInv, Pages!getPage
    PROVE  \E nodes \in Seq(Ids), m \in Nat, n \in Nat :
              nodes = Pages!NodesAfter /\ PageAdds(nodes, m, n)
<1>1. PICK nodes \in Seq(Ids) : nodes = Pages!NodesAfter
  BY NodesAreIds
<1>2. PICK page \in Seq(Ids) : page = Pages!Page(nodes)
  BY FirstPage
<1>3. first \in Nat \ {0} /\ Len(nodes) \in Nat /\ Null \notin Ids
  BY PagesAssumption DEF Pages!PageAssumption
<1>4. PICK m \in 0..Len(nodes) : m = IF Len(nodes) > first THEN first ELSE Len(nodes)
  BY <1>3
<1>5. /\ m = 0 => Len(nodes) = 0
      /\ ~(Len(nodes) > first) => m = Len(nodes)
      /\ m \in Nat
  BY <1>3, <1>4
<1>6. Len(page) = m /\ \A k \in 1..m : page[k] = nodes[k]
  BY <1>2, <1>4, FirstPage
<1>7. page = <<>> <=> m = 0
  BY <1>2, <1>5, <1>6
<1>8. walk \in Pages!Walk /\ walk.seen \in Seq(Ids) /\ walk.after \in Ids \cup {Null}
  BY DEF PagesInv, Pages!TypeOK, Pages!Walk
<1>9. PICK n \in Nat : n = Len(walk.seen)
  BY <1>8
<1>10. PICK seen \in Seq(Ids) : seen = walk.seen \o page
  <2>1. walk.seen \o page \in Seq(Ids)
    BY <1>2, <1>8
  <2> QED BY <2>1
<1>11. /\ Len(seen) = n + m /\ DOMAIN walk.seen = 1..n /\ DOMAIN seen = 1..(n + m)
       /\ \A k \in 1..n : seen[k] = walk.seen[k]
       /\ \A k \in 1..m : seen[n + k] = page[k]
  <2>1. /\ page \in Seq(Ids) /\ walk.seen \in Seq(Ids)
        /\ Len(page) = m /\ Len(walk.seen) = n /\ m \in Nat
    BY <1>2, <1>5, <1>6, <1>8, <1>9
  <2>2. /\ Len(seen) = n + m
        /\ \A i \in 1..(n + m) : seen[i] = IF i <= n THEN walk.seen[i] ELSE page[i - n]
    BY <1>10, <2>1, ConcatProperties, Zenon
  <2>3. DOMAIN walk.seen = 1..n /\ DOMAIN seen = 1..(n + m)
    BY <1>10, <2>1, <2>2
  <2>4. \A k \in 1..m : n + k \in 1..(n + m) /\ ~(n + k <= n) /\ (n + k) - n = k
    BY <2>1
  <2> QED BY <2>1, <2>2, <2>3, <2>4
<1>12. m # 0 => Pages!Last(page) = nodes[m] /\ Pages!Last(page) \in Ids /\ Pages!Last(seen) = nodes[m]
  <2>1. m # 0 => m \in 1..m /\ page[m] = nodes[m] /\ page[m] \in Ids
    BY <1>2, <1>5, <1>6
  <2> QED BY <1>5, <1>6, <1>11, <2>1 DEF Pages!Last
<1>13. m = 0 => seen = walk.seen
  BY <1>2, <1>7, <1>8, <1>10
<1>14. /\ walk.at = "page" /\ UNCHANGED <<rows, lastId, arg, changes, steady, touched>>
       /\ walk' = [walk EXCEPT !.at = "count", !.seen = seen,
                               !.after = IF m = 0 THEN @ ELSE Pages!Last(page),
                               !.more = Len(nodes) > first]
  BY <1>1, <1>2, <1>7, <1>10 DEF Pages!getPage
<1>15. /\ walk' \in Pages!Walk
       /\ walk'.at = "count" /\ walk'.seen = seen /\ walk'.more = (Len(nodes) > first)
       /\ walk'.after = IF m = 0 THEN walk.after ELSE nodes[m]
  <2>1. (Len(nodes) > first) \in BOOLEAN
    BY <1>3
  <2> QED BY <1>8, <1>10, <1>12, <1>14, <2>1 DEF Pages!Walk
<1>16. walk'.after # Null => walk'.after = Pages!Last(walk'.seen)
  BY <1>12, <1>13, <1>15 DEF PagesInv, Pages!TypeOK
<1>17. walk'.after = Null => walk'.seen = <<>>
  BY <1>3, <1>12, <1>13, <1>15 DEF PagesInv
<1>18. PageAdds(nodes, m, n)
  BY <1>4, <1>5, <1>6, <1>11, <1>14, <1>15, <1>16, <1>17 DEF PageAdds
<1> QED BY <1>1, <1>5, <1>18

LEMMA PageStep == PagesInv /\ Pages!getPage => PagesInv'
<1> SUFFICES ASSUME PagesInv, Pages!getPage PROVE PagesInv'
  OBVIOUS
<1>1. PICK nodes \in Seq(Ids), m \in Nat, n \in Nat :
        nodes = Pages!NodesAfter /\ PageAdds(nodes, m, n)
  BY PageIsAdded
<1>2. /\ m \in 0..Len(nodes) /\ Len(nodes) \in Nat /\ (m = 0 => Len(nodes) = 0)
      /\ walk' \in Pages!Walk /\ walk'.at = "count" /\ walk.at = "page"
      /\ UNCHANGED <<rows, lastId, arg, changes, steady, touched>>
      /\ walk'.after = IF m = 0 THEN walk.after ELSE nodes[m]
      /\ walk'.after # Null => walk'.after = Pages!Last(walk'.seen)
      /\ walk'.after = Null => walk'.seen = <<>>
      /\ ~walk'.more => m = Len(nodes)
      /\ DOMAIN walk.seen = 1..n /\ DOMAIN walk'.seen = 1..(n + m)
      /\ \A k \in 1..n : walk'.seen[k] = walk.seen[k]
      /\ \A k \in 1..m : walk'.seen[n + k] = nodes[k]
  BY <1>1 DEF PageAdds
<1>3. \A k \in DOMAIN walk'.seen : k \notin 1..n => k - n \in 1..m /\ walk'.seen[k] = nodes[k - n]
  <2> SUFFICES ASSUME NEW k \in 1..(n + m), k \notin 1..n
               PROVE  k - n \in 1..m /\ walk'.seen[k] = nodes[k - n]
    BY <1>2
  <2>1. k - n \in 1..m /\ n + (k - n) = k
    OBVIOUS
  <2> QED BY <1>2, <2>1
<1>4. /\ Pages!Existing' = Pages!Existing /\ Pages!Matching' = Pages!Matching
      /\ \A i, j : Pages!Before(i, j)' <=> Pages!Before(i, j)
      /\ \A i : Pages!where(rows[i])' <=> Pages!where(rows[i])
  BY <1>2 DEF Pages!Existing, Pages!Matching, Pages!Before, Pages!where, Pages!staffWhere, Pages!userWhere
<1>5. Pages!TypeOK' /\ steady' \subseteq Pages!Existing' /\ (\A i \in Pages!Existing' : i <= lastId')
  BY <1>2, <1>4 DEF PagesInv, Pages!TypeOK
<1>6. ASSUME ~touched
      PROVE  /\ \A k \in 1..Len(nodes) : nodes[k] \in Rest
             /\ \A i \in Rest : \E k \in 1..Len(nodes) : nodes[k] = i
             /\ \A j, k \in 1..Len(nodes) : j < k => Pages!Before(nodes[j], nodes[k])
             /\ WalkInv
  <2>1. ListsInOrder(nodes, Rest) /\ DOMAIN nodes = 1..Len(nodes)
    BY <1>1, <1>6, NodesInOrder
  <2> QED BY <1>6, <2>1 DEF ListsInOrder, PagesInv
<1>7. /\ Rest \subseteq Pages!Existing
      /\ \A i \in Pages!Matching : i \in Pages!Existing /\ Pages!where(rows[i])
  BY DEF Rest, Pages!Matching, PagesInv
<1>8. ASSUME ~touched PROVE WalkInv'
  <2>1. walk'.after # Null => walk'.after \in Pages!Existing /\ Pages!where(rows[walk'.after])
    BY <1>2, <1>6, <1>8 DEF Rest, WalkInv
  <2>2. ASSUME NEW i \in Pages!Matching, i \in Rest
        PROVE  /\ Shown(i)' <=> walk'.after # Null /\ ~Pages!Before(walk'.after, i)
               /\ \A j, k \in DOMAIN walk'.seen : walk'.seen[j] = i /\ walk'.seen[k] = i => j = k
               /\ ~walk'.more => Shown(i)'
    <3>1. \A k \in 1..n : walk.seen[k] # i
      BY <1>2, <1>6, <1>8, <2>2 DEF WalkInv, Shown, Rest
    <3>2. PICK p \in 1..Len(nodes) : nodes[p] = i
      BY <1>6, <1>8, <2>2
    <3>3. m \in 1..Len(nodes) /\ walk'.after = nodes[m] /\ nodes[m] # Null
      BY <1>2, <3>2
    <3>4. \A k \in 1..Len(nodes) : nodes[k] = i => k = p
      <4> SUFFICES ASSUME NEW k \in 1..Len(nodes), nodes[k] = i PROVE k = p
        OBVIOUS
      <4>1. ~(k < p) /\ ~(p < k)
        BY <1>6, <1>7, <1>8, <2>2, <3>2, BeforeOrders DEF PagesInv
      <4> QED BY <4>1
    <3>5. Shown(i)' <=> p <= m
      <4>1. p <= m => walk'.seen[n + p] = i /\ n + p \in DOMAIN walk'.seen
        BY <1>2, <3>2
      <4>2. ASSUME NEW k \in DOMAIN walk'.seen, walk'.seen[k] = i PROVE p <= m
        <5>1. k - n \in 1..m /\ nodes[k - n] = i
          BY <1>2, <1>3, <3>1, <4>2
        <5> QED BY <1>2, <3>4, <5>1
      <4> QED BY <4>1, <4>2 DEF Shown
    <3>6. p <= m <=> ~Pages!Before(nodes[m], i)
      <4>1. nodes[m] \in Pages!Existing /\ i \in Pages!Existing
        BY <1>6, <1>7, <1>8, <2>2, <3>3
      <4>2. p < m => Pages!Before(i, nodes[m])
        BY <1>6, <1>8, <3>2, <3>3
      <4>3. m < p => Pages!Before(nodes[m], i)
        BY <1>6, <1>8, <3>2, <3>3
      <4> QED BY <1>2, <3>2, <3>3, <4>1, <4>2, <4>3, BeforeOrders DEF PagesInv
    <3>7. \A j, k \in DOMAIN walk'.seen : walk'.seen[j] = i /\ walk'.seen[k] = i => j = k
      <4> SUFFICES ASSUME NEW j \in DOMAIN walk'.seen, NEW k \in DOMAIN walk'.seen,
                          walk'.seen[j] = i, walk'.seen[k] = i
                   PROVE  j = k
        OBVIOUS
      <4>1. j - n \in 1..m /\ nodes[j - n] = i /\ k - n \in 1..m /\ nodes[k - n] = i
        BY <1>2, <1>3, <3>1
      <4>2. j - n \in 1..Len(nodes) /\ k - n \in 1..Len(nodes)
        BY <1>2, <4>1
      <4>3. j - n = p /\ k - n = p
        BY <3>4, <4>1, <4>2
      <4> QED BY <1>2, <4>3
    <3> QED BY <1>2, <3>2, <3>3, <3>5, <3>6, <3>7
  <2>3. ASSUME NEW i \in Pages!Matching, i \notin Rest
        PROVE  /\ Shown(i)' /\ walk'.after # Null /\ ~Pages!Before(walk'.after, i)
               /\ \A j, k \in DOMAIN walk'.seen : walk'.seen[j] = i /\ walk'.seen[k] = i => j = k
    <3>1. walk.after # Null /\ ~Pages!Before(walk.after, i) /\ Shown(i)
      BY <1>6, <1>7, <1>8, <2>3 DEF Rest, WalkInv
    <3>2. Shown(i)'
      BY <1>2, <3>1 DEF Shown
    <3>3. walk'.after # Null
      BY <1>2, <3>1
    <3>4. ~Pages!Before(walk'.after, i)
      <4>1. m # 0 => m \in 1..Len(nodes) /\ nodes[m] \in Rest
        BY <1>2, <1>6, <1>8
      <4>2. m # 0 => Pages!Before(walk.after, nodes[m]) /\ nodes[m] \in Pages!Existing
        BY <3>1, <4>1 DEF Rest
      <4>3. walk.after \in Pages!Existing /\ i \in Pages!Existing
        BY <1>6, <1>7, <1>8, <2>3, <3>1 DEF WalkInv
      <4> QED BY <1>2, <3>1, <4>2, <4>3, BeforeOrders DEF PagesInv
    <3>5. \A k \in DOMAIN walk'.seen : walk'.seen[k] = i => k \in 1..n /\ walk.seen[k] = i
      <4>1. \A k \in 1..m : nodes[k] # i
        BY <1>2, <1>6, <1>8, <2>3
      <4> QED BY <1>2, <1>3, <4>1
    <3>6. \A j, k \in DOMAIN walk'.seen : walk'.seen[j] = i /\ walk'.seen[k] = i => j = k
      BY <1>2, <1>6, <1>8, <3>5 DEF WalkInv
    <3> QED BY <3>2, <3>3, <3>4, <3>6
  <2> QED BY <1>4, <2>1, <2>2, <2>3 DEF WalkInv
<1>9. ASSUME changes = 0 PROVE StillInv'
  <2>1. StillInv /\ ~touched
    BY <1>9 DEF PagesInv, StillInv
  <2>2. \A k \in 1..m : nodes[k] \in Pages!Matching
    BY <1>2, <1>6, <2>1 DEF Rest, StillInv, Pages!Matching
  <2>3. \A k \in DOMAIN walk'.seen : walk'.seen[k] \in Pages!Matching
    BY <1>2, <1>3, <2>1, <2>2 DEF StillInv
  <2> QED BY <1>2, <1>4, <2>1, <2>3 DEF StillInv
<1> QED BY <1>2, <1>5, <1>8, <1>9 DEF PagesInv

LEMMA CountStep == PagesInv /\ Pages!count => PagesInv'
<1> SUFFICES ASSUME PagesInv, Pages!count PROVE PagesInv'
  OBVIOUS
<1>1. walk \in Pages!Walk /\ walk.more \in BOOLEAN
  BY DEF PagesInv, Pages!TypeOK, Pages!Walk
<1>2. PICK total : total = Cardinality({i \in Pages!Existing : Pages!where(rows[i])})
  OBVIOUS
<1>3. total \in Nat
  <2>1. {i \in Pages!Existing : Pages!where(rows[i])} \in SUBSET Pages!Existing
    OBVIOUS
  <2> QED BY <1>2, <2>1, RowsAreFinite, FS_Subset, FS_CardinalityType
<1>4. /\ walk.at = "count" /\ UNCHANGED <<rows, lastId, arg, changes, steady, touched>>
      /\ walk' = [walk EXCEPT !.at = IF walk.more THEN "page" ELSE "end", !.total = total]
  BY <1>2, CountsAgree DEF Pages!count, Pages!countWhere
<1>5. /\ walk' \in Pages!Walk /\ walk'.seen = walk.seen /\ walk'.after = walk.after
      /\ walk'.more = walk.more /\ walk'.total = total
      /\ walk'.at = "page" \/ ~walk.more
      /\ walk'.at = "end" => ~walk.more
  BY <1>1, <1>3, <1>4 DEF Pages!Walk
<1>6. /\ Pages!Existing' = Pages!Existing /\ Pages!Matching' = Pages!Matching
      /\ \A i, j : Pages!Before(i, j)' <=> Pages!Before(i, j)
      /\ \A i : Pages!where(rows[i])' <=> Pages!where(rows[i])
      /\ \A i : Shown(i)' <=> Shown(i)
  BY <1>4, <1>5 DEF Pages!Existing, Pages!Matching, Pages!Before, Pages!where, Pages!staffWhere,
                    Pages!userWhere, Shown
<1>7. Pages!TypeOK' /\ steady' \subseteq Pages!Existing' /\ (\A i \in Pages!Existing' : i <= lastId')
  BY <1>4, <1>5, <1>6 DEF PagesInv, Pages!TypeOK
<1>8. ASSUME ~touched PROVE WalkInv'
  <2>1. WalkInv
    BY <1>8 DEF PagesInv
  <2>2. walk'.after # Null => walk'.after \in Pages!Existing' /\ Pages!where(rows[walk.after])'
    BY <1>5, <1>6, <2>1 DEF WalkInv
  <2>3. \A i \in Pages!Matching' :
           /\ Shown(i)' <=> walk'.after # Null /\ ~Pages!Before(walk.after, i)'
           /\ \A j, k \in DOMAIN walk'.seen : walk'.seen[j] = i /\ walk'.seen[k] = i => j = k
    BY <1>5, <1>6, <2>1 DEF WalkInv
  <2>4. ~walk'.more => \A i \in Pages!Matching' : Shown(i)'
    BY <1>4, <1>5, <1>6, <2>1 DEF WalkInv
  <2> QED BY <1>4, <1>5, <2>2, <2>3, <2>4 DEF WalkInv, Pages!Before, Pages!where, Pages!staffWhere, Pages!userWhere
<1>9. ASSUME changes = 0 PROVE StillInv'
  <2>1. StillInv
    BY <1>9 DEF PagesInv
  <2>2. Pages!Matching = {i \in Pages!Existing : Pages!where(rows[i])}
    BY <2>1 DEF StillInv, Pages!Matching
  <2> QED BY <1>2, <1>4, <1>5, <1>6, <2>1, <2>2 DEF StillInv
<1> QED BY <1>4, <1>5, <1>7, <1>8, <1>9 DEF PagesInv

(* A change of a row, on which the walk does not stand or which it touches. *)
LEMMA ChangeStep ==
    ASSUME PagesInv, NEW i \in Ids, NEW r \in Pages!Row \cup {Null}, Pages!Changed(i),
           rows' = [rows EXCEPT ![i] = r], lastId' \in Ids, lastId <= lastId', i <= lastId' \/ r = Null
    PROVE  PagesInv'
<1> USE PagesAssumption DEF Pages!PageAssumption, Pages!NullAssumption
<1>1. /\ walk.at # "end" /\ changes < MaxChanges /\ changes' = changes + 1
      /\ steady' = steady \ {i} /\ touched' = (touched \/ i = walk.after)
      /\ arg' = arg /\ walk' = walk
  BY DEF Pages!Changed
<1>2. Pages!TypeOK
  BY DEF PagesInv
<1>3. \A j \in Ids \ {i} : rows'[j] = rows[j]
  BY <1>2 DEF Pages!TypeOK
<1>4. /\ Pages!Existing' \subseteq Pages!Existing \cup {i}
      /\ \A j \in Pages!Existing : j # i => j \in Pages!Existing'
      /\ i \in Pages!Existing' => r # Null
  BY <1>2, <1>3 DEF Pages!Existing, Pages!TypeOK
<1>5. Pages!TypeOK'
  BY <1>1, <1>2 DEF Pages!TypeOK
<1>6. \A j \in Pages!Existing' : j <= lastId'
  <2>1. lastId \in Nat /\ lastId' \in Nat /\ \A j \in Pages!Existing : j \in Nat /\ j <= lastId
    BY <1>2 DEF PagesInv, Pages!TypeOK, Pages!Existing
  <2> QED BY <1>4, <2>1
<1>7. steady' \subseteq Pages!Existing'
  BY <1>1, <1>4 DEF PagesInv
<1>8. changes' # 0
  BY <1>1, <1>2 DEF Pages!TypeOK
<1>9. ASSUME ~touched' PROVE WalkInv'
  <2>1. ~touched /\ i # walk.after /\ WalkInv
    BY <1>1, <1>9 DEF PagesInv
  <2>2. \A j \in Ids \ {i} : Pages!where(rows[j])' <=> Pages!where(rows[j])
    BY <1>1, <1>3 DEF Pages!where, Pages!staffWhere, Pages!userWhere
  <2>3. \A j, k \in Ids \ {i} : Pages!Before(j, k)' <=> Pages!Before(j, k)
    BY <1>1, <1>3 DEF Pages!Before
  <2>4. Pages!Matching' \subseteq Pages!Matching \ {i} /\ steady \subseteq Ids
    BY <1>1, <1>2, <2>2 DEF Pages!Matching, Pages!TypeOK
  <2>5. \A j : Shown(j)' <=> Shown(j)
    BY <1>1 DEF Shown
  <2>6. walk.after # Null => walk.after \in Ids \ {i} /\ walk.after \in Pages!Existing'
                              /\ Pages!where(rows[walk.after])'
    <3>1. walk.after # Null => walk.after \in Ids \ {i} /\ walk.after \in Pages!Existing'
      BY <1>4, <2>1 DEF WalkInv, Pages!Existing
    <3>2. \A a \in Ids \ {i} : a = walk.after => (Pages!where(rows[walk.after])' <=> Pages!where(rows[a]))
      BY <1>1, <1>3 DEF Pages!where, Pages!staffWhere, Pages!userWhere
    <3> QED BY <2>1, <3>1, <3>2 DEF WalkInv
  <2>7. \A j \in Pages!Matching' :
           /\ Shown(j)' <=> walk'.after # Null /\ ~Pages!Before(walk.after, j)'
           /\ \A p, q \in DOMAIN walk'.seen : walk'.seen[p] = j /\ walk'.seen[q] = j => p = q
    <3> SUFFICES ASSUME NEW j \in Pages!Matching'
                 PROVE  /\ Shown(j)' <=> walk'.after # Null /\ ~Pages!Before(walk.after, j)'
                        /\ \A p, q \in DOMAIN walk'.seen : walk'.seen[p] = j /\ walk'.seen[q] = j => p = q
      OBVIOUS
    <3>1. j \in Pages!Matching /\ j \in Ids \ {i}
      BY <2>4 DEF Pages!Matching
    <3>2. walk.after # Null => (Pages!Before(walk.after, j)' <=> Pages!Before(walk.after, j))
      BY <1>1, <1>3, <2>6, <3>1 DEF Pages!Before
    <3> QED BY <1>1, <2>1, <2>5, <3>1, <3>2 DEF WalkInv
  <2>8. walk'.at # "page" /\ ~walk'.more => \A j \in Pages!Matching' : Shown(j)'
    BY <1>1, <2>1, <2>4, <2>5 DEF WalkInv
  <2> QED BY <1>1, <2>6, <2>7, <2>8 DEF WalkInv
<1> QED BY <1>1, <1>5, <1>6, <1>7, <1>8, <1>9 DEF PagesInv

LEMMA InitPages == Pages!Init => PagesInv
<1> SUFFICES ASSUME Pages!Init PROVE PagesInv
  OBVIOUS
<1> USE PagesAssumption DEF Pages!PageAssumption
<1>1. /\ rows \in [Ids -> Pages!Row \cup {Null}]
      /\ lastId \in Ids /\ \A i \in Pages!Existing : i <= lastId
      /\ arg \in Pages!Arg /\ changes = 0 /\ steady = Pages!Existing /\ touched = FALSE
      /\ walk = [at |-> "page", seen |-> <<>>, after |-> Null, total |-> Null, more |-> TRUE]
  BY DEF Pages!Init
<1>2. /\ walk \in Pages!Walk /\ walk.at = "page" /\ walk.seen = <<>> /\ walk.after = Null
      /\ DOMAIN walk.seen = {}
  <2>1. <<>> \in Seq(Ids)
    OBVIOUS
  <2> QED BY <1>1, <2>1 DEF Pages!Walk
<1>3. Pages!TypeOK
  <2>1. changes \in 0..MaxChanges
    BY <1>1
  <2>2. steady \subseteq Ids /\ touched \in BOOLEAN
    BY <1>1 DEF Pages!Existing
  <2> QED BY <1>1, <1>2, <2>1, <2>2 DEF Pages!TypeOK
<1> QED BY <1>1, <1>2, <1>3 DEF PagesInv, WalkInv, StillInv, Shown

LEMMA NextPages == PagesInv /\ [Pages!Next]_(Pages!vars) => PagesInv'
<1> SUFFICES ASSUME PagesInv, [Pages!Next]_(Pages!vars) PROVE PagesInv'
  OBVIOUS
<1>1. lastId \in Ids /\ lastId \in Nat /\ rows \in [Ids -> Pages!Row \cup {Null}]
  BY PagesAssumption DEF PagesInv, Pages!TypeOK, Pages!PageAssumption
<1>2. ASSUME NEW i \in Ids, NEW r \in Pages!Row, Pages!create(i, r) PROVE PagesInv'
  <2>1. i = lastId + 1 /\ lastId' = i /\ rows' = [rows EXCEPT ![i] = r] /\ Pages!Changed(i)
    BY <1>2 DEF Pages!create
  <2>2. r \in Pages!Row \cup {Null} /\ lastId' \in Ids /\ lastId <= lastId' /\ i <= lastId'
    BY <1>1, <2>1
  <2> QED BY <2>1, <2>2, ChangeStep
<1>3. ASSUME NEW i \in Ids, NEW r \in Pages!Row, Pages!update(i, r) PROVE PagesInv'
  <2>1. rows[i] # Null /\ lastId' = lastId /\ rows' = [rows EXCEPT ![i] = r] /\ Pages!Changed(i)
    BY <1>3 DEF Pages!update
  <2>2. i <= lastId
    BY <2>1 DEF PagesInv, Pages!Existing
  <2>3. r \in Pages!Row \cup {Null} /\ lastId' \in Ids /\ lastId <= lastId' /\ i <= lastId'
    BY <1>1, <2>1, <2>2
  <2> QED BY <2>1, <2>3, ChangeStep
<1>4. ASSUME NEW i \in Ids, Pages!delete(i) PROVE PagesInv'
  <2>1. lastId' = lastId /\ rows' = [rows EXCEPT ![i] = Null] /\ Pages!Changed(i)
    BY <1>4 DEF Pages!delete
  <2>2. Null \in Pages!Row \cup {Null} /\ lastId' \in Ids /\ lastId <= lastId'
    BY <1>1, <2>1
  <2> QED BY <2>1, <2>2, ChangeStep
<1>5. CASE UNCHANGED Pages!vars
  BY <1>5 DEF Pages!vars, PagesInv, Pages!TypeOK, Pages!Existing, WalkInv, StillInv, Shown,
              Pages!Matching, Pages!where, Pages!staffWhere, Pages!userWhere, Pages!Before
<1> QED BY <1>2, <1>3, <1>4, <1>5, PageStep, CountStep DEF Pages!Next

LEMMA WalksAreRight ==
    PagesInv => Pages!SteadyRowsAreShownOnce /\ Pages!TotalIsWhatTheWalkShows
<1> SUFFICES ASSUME PagesInv, walk.at = "end"
             PROVE  /\ ~touched => \A i \in Pages!Matching : Pages!Times(i) = 1
                    /\ changes = 0 => walk.total = Len(walk.seen)
  BY DEF Pages!SteadyRowsAreShownOnce, Pages!TotalIsWhatTheWalkShows
<1>1. walk.seen \in Seq(Ids) /\ Len(walk.seen) \in Nat /\ DOMAIN walk.seen = 1..Len(walk.seen)
  BY DEF PagesInv, Pages!TypeOK, Pages!Walk
<1>2. ASSUME ~touched, NEW i \in Pages!Matching PROVE Pages!Times(i) = 1
  <2>1. PICK k \in DOMAIN walk.seen : walk.seen[k] = i
    BY <1>2 DEF PagesInv, WalkInv, Shown
  <2>2. {j \in DOMAIN walk.seen : walk.seen[j] = i} = {k}
    BY <1>2, <2>1 DEF PagesInv, WalkInv
  <2> QED BY <2>2, FS_Singleton, CountsAgree DEF Pages!Times
<1>3. ASSUME changes = 0 PROVE walk.total = Len(walk.seen)
  <2>1. StillInv /\ WalkInv /\ ~walk.more
    BY <1>3 DEF PagesInv, StillInv
  <2>2. walk.seen \in [1..Len(walk.seen) -> Pages!Matching]
    BY <1>1, <2>1 DEF StillInv
  <2>3. \A j, k \in 1..Len(walk.seen) : walk.seen[j] = walk.seen[k] => j = k
    BY <1>1, <2>1, <2>2 DEF WalkInv
  <2>4. \A i \in Pages!Matching : \E k \in 1..Len(walk.seen) : walk.seen[k] = i
    BY <1>1, <2>1 DEF WalkInv, Shown
  <2>5. walk.seen \in Bijection(1..Len(walk.seen), Pages!Matching)
    BY <2>2, <2>3, <2>4 DEF Bijection, Injection, Surjection, IsInjective
  <2>6. Cardinality(Pages!Matching) = Len(walk.seen)
    BY <1>1, <2>5, FS_CountingElements DEF ExistsBijection
  <2> QED BY <2>1, <2>6 DEF StillInv
<1> QED BY <1>2, <1>3

(* The run starts with rows that are equal where a list does not look; here *)
(* they are any rows: a walk shows each that stays as it is exactly once,   *)
(* unless the row a page ended with changed, and an undisturbed walk as     *)
(* many as its pages say.                                                  *)
THEOREM WalksOfAllLists ==
    Pages!Spec => []Pages!SteadyRowsAreShownOnce /\ []Pages!TotalIsWhatTheWalkShows
BY WalksAreRight, InitPages, NextPages, PTL DEF Pages!Spec

--------------------------------------------------------------------------------
(* The four parts side by side. *)

StaffInv ==
    /\ part \in {"roles", "roles alone"} => RolesInv
    /\ part = "roles alone" => SomebodyInv
    /\ part \in {"passwords", "passwords alone"} => PasswordsInv
    /\ part = "passwords alone" => CodesInv
    /\ part \in {"profile", "profile alone"} => ProfileInv
    /\ part = "profile alone" => ProfileAloneInv
    /\ part = "pages" => PagesInv

LEMMA InitStaff == Init => StaffInv
BY InitRoles, InitPasswords, InitProfile, InitPages DEF Init, StaffInv

LEMMA NextStaff ==
    StaffInv /\ [RolesNext \/ PasswordsNext \/ ProfileNext \/ PagesNext]_vars => StaffInv'
<1> SUFFICES ASSUME StaffInv, [RolesNext \/ PasswordsNext \/ ProfileNext \/ PagesNext]_vars
             PROVE  StaffInv'
  OBVIOUS
<1>1. UNCHANGED part
  BY DEF RolesNext, PasswordsNext, ProfileNext, PagesNext, vars
<1>2. part \in {"roles", "roles alone"} => RolesInv'
  <2>1. part \in {"roles", "roles alone"} => [Roles!Next]_(Roles!vars)
    BY DEF RolesNext, PasswordsNext, ProfileNext, PagesNext, vars, roleVars, Roles!vars
  <2> QED BY <2>1, NextRoles DEF StaffInv
<1>3. part = "roles alone" => SomebodyInv'
  <2>1. part = "roles alone" => (Roles!Next /\ Alone(roleCall')) \/ UNCHANGED roleVars
    BY DEF RolesNext, PasswordsNext, ProfileNext, PagesNext, vars
  <2>2. SomebodyInv /\ UNCHANGED roleVars => SomebodyInv'
    BY DEF SomebodyInv, roleVars, Roles!SomebodyRemains, Roles!Present, Alone, Busy
  <2> QED BY <2>1, <2>2, SomebodyStays DEF StaffInv
<1>4. part \in {"passwords", "passwords alone"} => PasswordsInv'
  <2>1. part \in {"passwords", "passwords alone"} => [Passwords!Next]_(Passwords!vars)
    BY DEF RolesNext, PasswordsNext, ProfileNext, PagesNext, vars, passwordVars, Passwords!vars, Passwords!Next
  <2> QED BY <2>1, NextPasswords DEF StaffInv
<1>5. part = "passwords alone" => CodesInv'
  <2>1. part = "passwords alone" => (Passwords!Serve /\ Alone(passwordCall')) \/ UNCHANGED passwordVars
    BY DEF RolesNext, PasswordsNext, ProfileNext, PagesNext, vars
  <2>2. CodesInv /\ UNCHANGED passwordVars => CodesInv'
    BY DEF CodesInv, passwordVars, Passwords!In, Alone, Busy
  <2> QED BY <2>1, <2>2, CodesStay DEF StaffInv
<1>6. part \in {"profile", "profile alone"} => ProfileInv'
  <2>1. part \in {"profile", "profile alone"} => [Profile!Next]_(Profile!vars)
    BY DEF RolesNext, PasswordsNext, ProfileNext, PagesNext, vars, profileVars, Profile!vars, Profile!Next
  <2> QED BY <2>1, NextProfile DEF StaffInv
<1>7. part = "profile alone" => ProfileAloneInv'
  <2>1. part = "profile alone" => (Profile!Serve /\ Alone(profileCall')) \/ UNCHANGED profileVars
    BY DEF RolesNext, PasswordsNext, ProfileNext, PagesNext, vars
  <2>2. ProfileAloneInv /\ UNCHANGED profileVars => ProfileAloneInv'
    BY DEF ProfileAloneInv, profileVars, UpdateGoesWell, Profile!IgnoreUnique, Kept, Profile!Avatars,
           RefusedStay, Alone, Busy
  <2> QED BY <2>1, <2>2, AloneProfileStep DEF StaffInv
<1>8. part = "pages" => PagesInv'
  <2>1. part = "pages" => [Pages!Next]_(Pages!vars)
    BY DEF RolesNext, PasswordsNext, ProfileNext, PagesNext, vars, pageVars, Pages!vars
  <2> QED BY <2>1, NextPages DEF StaffInv
<1> QED BY <1>1, <1>2, <1>3, <1>4, <1>5, <1>6, <1>7, <1>8 DEF StaffInv

(* The deletion of a role, whatever it overlaps, takes no permission from   *)
(* anyone: its staff are left without a role, and the guard admits them to *)
(* everything.                                                             *)
THEOREM DeletionsWiden == Spec => DeletingARoleOnlyWidens
<1>1. /\ StaffInv
      /\ [RolesNext \/ PasswordsNext \/ ProfileNext \/ PagesNext]_vars
      => [(part \in {"roles", "roles alone"}) => Roles!DeletionOnlyWidens]_vars
  <2>1. /\ part \in {"roles", "roles alone"}
        /\ [RolesNext \/ PasswordsNext \/ ProfileNext \/ PagesNext]_vars
        => [Roles!Next]_(Roles!vars)
    BY DEF RolesNext, PasswordsNext, ProfileNext, PagesNext, vars, roleVars, Roles!vars
  <2> QED BY <2>1, DeletionWidens DEF StaffInv
<1> QED BY <1>1, InitStaff, NextStaff, PTL DEF Spec, DeletingARoleOnlyWidens

(* When calls do not overlap, somebody stays in the staff area: the one who *)
(* deletes a staff member is another, and is still there when it is done.  *)
THEOREM SomebodyIsLeft == Spec => []SomebodyRemains
<1>1. StaffInv => SomebodyRemains
  BY DEF StaffInv, SomebodyInv, SomebodyRemains
<1> QED BY <1>1, InitStaff, NextStaff, PTL DEF Spec

(* A reset changes no password but that of the email it came with, whatever *)
(* it overlaps.  As long as calls neither overlap nor fail, the row has the *)
(* code of the last mail, and only that code resets the password, once.    *)
THEOREM CodesAreSound == Spec => ResetCodesAreSound
<1>1. /\ StaffInv
      /\ [RolesNext \/ PasswordsNext \/ ProfileNext \/ PagesNext]_vars
      => [(part \in {"passwords", "passwords alone"}) => Passwords!ResetTouchesItsOwn]_vars
  <2>1. /\ part \in {"passwords", "passwords alone"}
        /\ [RolesNext \/ PasswordsNext \/ ProfileNext \/ PagesNext]_vars
        => [Passwords!Next]_(Passwords!vars)
    BY DEF RolesNext, PasswordsNext, ProfileNext, PagesNext, vars, passwordVars, Passwords!vars, Passwords!Next
  <2> QED BY <2>1, ResetsTouch DEF StaffInv
<1>2. StaffInv => (part = "passwords alone" => Passwords!LatestCodeIsStored)
  BY CodesAreRight DEF StaffInv
<1>3. StaffInv => [part = "passwords alone" => Passwords!LatestCodeResets]_vars
  BY CodesAreRight DEF StaffInv
<1> QED BY <1>1, <1>2, <1>3, InitStaff, NextStaff, PTL DEF Spec, ResetCodesAreSound

(* The avatar a row names exists, whatever overlaps and stops; as long as   *)
(* calls neither overlap nor fail, the disk has no other between them but   *)
(* those of updates that asked for a taken username or an unknown role.     *)
THEOREM AvatarsKept == Spec => []AvatarsAreKept
<1>1. StaffInv => AvatarsAreKept
  <2> SUFFICES ASSUME StaffInv, part = "profile alone", Profile!Quiet PROVE disk = Kept
    BY DEF StaffInv, ProfileInv, AvatarsAreKept, Profile!OnlyUnsearchedLeavesAvatars, Kept
  <2>1. disk \subseteq Kept
    BY DEF Profile!Quiet, Busy, StaffInv, ProfileAloneInv
  <2>2. Kept \subseteq disk
    BY DEF StaffInv, ProfileInv, ProfileAloneInv, Profile!AvatarExists, Profile!Avatars, RefusedStay, Kept
  <2> QED BY <2>1, <2>2
<1> QED BY <1>1, InitStaff, NextStaff, PTL DEF Spec

(* A walk through a list of staff or users shows each row that stays as it  *)
(* is exactly once, unless the row a page ended with changes before the     *)
(* next; when nothing changes, the number on its last page is that of the   *)
(* rows it showed.  For every table, page size and number of changes.       *)
THEOREM WalksComplete == Spec => []WalksAreComplete
<1>1. StaffInv => WalksAreComplete
  BY WalksAreRight DEF StaffInv, WalksAreComplete
<1> QED BY <1>1, InitStaff, NextStaff, PTL DEF Spec

(* Every variable of the four parts keeps its type.                        *)
THEOREM StaffTypes == Spec => []StaffTypeOK
<1>1. StaffInv => StaffTypeOK
  BY DEF StaffInv, RolesInv, PasswordsInv, ProfileInv, PagesInv, StaffTypeOK
<1> QED BY <1>1, InitStaff, NextStaff, PTL DEF Spec
================================================================================
