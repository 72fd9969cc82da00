---------------------------- MODULE CollectionRoles ----------------------------
(***************************************************************************)
(* The roles of the NFT collection (src/contract/nft2.sol, AccessControl,  *)
(* AccessControlEnumerable and EnumerableSet).                             *)
(*                                                                         *)
(* The contract keeps the holders of a role twice: as a mapping, which the *)
(* guards read, and as an enumerable set, an array of the holders and the  *)
(* place of each of them in it.  No role has an administrating role of its *)
(* own, so DEFAULT_ADMIN_ROLE administers all of them.  A call that        *)
(* reverts changes nothing and is a stuttering step.                       *)
(***************************************************************************)
EXTENDS Integers, Sequences

CONSTANTS
    Accounts,   \* the addresses that may hold roles or tokens
    Deployer,   \* the account that deploys the collection
    Roles,      \* the identifiers of the roles
    Admin,      \* DEFAULT_ADMIN_ROLE
    Minter,     \* MINTER_ROLE
    Pauser      \* PAUSER_ROLE

ASSUME RolesAssumption ==
    /\ Deployer \in Accounts
    /\ {Admin, Minter, Pauser} \subseteq Roles

VARIABLES
    members,        \* role -> the accounts the mapping holds true for
    roleMembers     \* role -> the enumerable set

roleVars == <<members, roleMembers>>

EnumerableSet == [values : Seq(Accounts), indexes : [Accounts -> Nat]]

Ranks(seq) == 1..Len(seq)

RolesTypeOK ==
    /\ members \in [Roles -> SUBSET Accounts]
    /\ roleMembers \in [Roles -> EnumerableSet]

(* A place is counted from 1; 0 says that the account is not in the set. *)
add(set, account) ==
    IF set.indexes[account] # 0 THEN set
    ELSE [values |-> Append(set.values, account),
          indexes |-> [set.indexes EXCEPT ![account] = Len(set.values) + 1]]

(* The last holder takes the place of the one that leaves. *)
remove(set, account) ==
    IF set.indexes[account] = 0 THEN set
    ELSE LET at == set.indexes[account]
             end == Len(set.values)
             lastHolder == set.values[end]
         IN [values |-> SubSeq([set.values EXCEPT ![at] = lastHolder], 1, end - 1),
             indexes |-> [set.indexes EXCEPT ![lastHolder] = at, ![account] = 0]]

(* The constructors: the deployer holds the three roles. *)
RolesInit ==
    LET setup(r) == IF r \in {Admin, Minter, Pauser} THEN {Deployer} ELSE {}
        listed(r) == [values |-> IF setup(r) = {} THEN << >> ELSE <<Deployer>>,
                      indexes |-> [a \in Accounts |-> IF a \in setup(r) THEN 1 ELSE 0]]
    IN /\ members = [r \in Roles |-> setup(r)]
       /\ roleMembers = [r \in Roles |-> listed(r)]

hasRole(role, account) == account \in members[role]

(* Variant: whoever holds a role may hand it on. *)
grantRole_ByHolder(sender, role, account) ==
    /\ hasRole(Admin, sender) \/ hasRole(role, sender)
    /\ members' = [members EXCEPT ![role] = @ \cup {account}]
    /\ roleMembers' = [roleMembers EXCEPT ![role] = add(@, account)]

grantRole(sender, role, account) ==
    /\ hasRole(Admin, sender)
    /\ members' = [members EXCEPT ![role] = @ \cup {account}]
    /\ roleMembers' = [roleMembers EXCEPT ![role] = add(@, account)]

dropRole(role, account) ==
    /\ members' = [members EXCEPT ![role] = @ \ {account}]
    /\ roleMembers' = [roleMembers EXCEPT ![role] = remove(@, account)]

revokeRole(sender, role, account) == hasRole(Admin, sender) /\ dropRole(role, account)

renounceRole(sender, role) == dropRole(role, sender)

RolesNext ==
    \E sender \in Accounts, role \in Roles :
        \/ \E account \in Accounts : grantRole(sender, role, account)
        \/ \E account \in Accounts : revokeRole(sender, role, account)
        \/ renounceRole(sender, role)

RolesSpec == RolesInit /\ [][RolesNext]_roleVars

-----------------------------------------------------------------------------

(* The array holds the accounts of S, each once and at its place. *)
Lists(set, S) ==
    /\ \A i \in Ranks(set.values) :
        /\ set.values[i] \in S
        /\ set.indexes[set.values[i]] = i
    /\ \A a \in S :
        /\ set.indexes[a] \in Ranks(set.values)
        /\ set.values[set.indexes[a]] = a
    /\ \A a \in Accounts \ S : set.indexes[a] = 0

(* The enumeration that getRoleMember and getRoleMemberCount give of a     *)
(* role shows every account the guards accept for it, once, and no other,  *)
(* whatever grants, revocations and renunciations came before.             *)
RolesAreListed == \A r \in Roles : Lists(roleMembers[r], members[r])

(* The last administrator may leave, by renouncing or by revoking itself.  *)
(* From then on no account gains any role.                                 *)
NobodyIsAppointedWithoutAdmin ==
    [][members[Admin] = {} => \A r \in Roles : members'[r] \subseteq members[r]]_roleVars
==============================================================================
