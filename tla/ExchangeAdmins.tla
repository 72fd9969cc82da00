---------------------------- MODULE ExchangeAdmins ----------------------------
(***************************************************************************)
(* The administrators and the pause switch of the exchange contract        *)
(* (src/contract/NFTexchange_v3.sol).                                      *)
(*                                                                         *)
(* The contract keeps the administrators twice, as a mapping that          *)
(* onlyAdmin reads and as an array that getAllAdmins returns, with a count *)
(* beside them.  addAdmin does not ask whether the account is one already, *)
(* so the array may hold an account several times.  A call that reverts    *)
(* changes nothing and is a stuttering step.                               *)
(***************************************************************************)
EXTENDS Integers, Sequences

CONSTANTS
    Accounts,       \* addresses that may be administrators
    Deployer,       \* _admin of the constructor
    MaxAdminCount   \* largest value of adminCount; 2^16 - 1 in the contract

ASSUME DeployerAssumption == Deployer \in Accounts
ASSUME MaxAdminCountAssumption == MaxAdminCount \in Nat \ {0}

VARIABLES
    admins,         \* the accounts the mapping holds true for
    allAdmins,      \* the array
    adminCount,
    paused

adminVars == <<admins, allAdmins, adminCount, paused>>

AdminTypeOK ==
    /\ admins \subseteq Accounts
    /\ allAdmins \in Seq(Accounts)
    /\ adminCount \in 0..MaxAdminCount
    /\ paused \in BOOLEAN

(* The constructor. *)
AdminInit ==
    /\ admins = {Deployer}
    /\ allAdmins = <<Deployer>>
    /\ adminCount = 1
    /\ paused = FALSE

(* Checked arithmetic: an increment past the largest value reverts. *)
addAdmin(sender, account) ==
    /\ sender \in admins
    /\ adminCount < MaxAdminCount
    /\ admins' = admins \cup {account}
    /\ allAdmins' = Append(allAdmins, account)
    /\ adminCount' = adminCount + 1
    /\ UNCHANGED paused

FirstIndex(arr, elem) ==
    CHOOSE i \in DOMAIN arr :
        arr[i] = elem /\ \A j \in DOMAIN arr : arr[j] = elem => i <= j

(* Variant: the last element is popped and not moved into the gap. *)
removeAddressArrayElement_PopsLast(arr, elem) ==
    IF \A i \in DOMAIN arr : arr[i] # elem THEN arr
    ELSE [j \in 1..(Len(arr) - 1) |-> arr[j]]

(* The last element takes the place of the first match and is popped. *)
removeAddressArrayElement(arr, elem) ==
    IF \A i \in DOMAIN arr : arr[i] # elem THEN arr
    ELSE LET index == FirstIndex(arr, elem)
         IN  [j \in 1..(Len(arr) - 1) |-> IF j = index THEN arr[Len(arr)] ELSE arr[j]]

deleteAdmin(sender, account) ==
    /\ sender \in admins
    /\ account # sender
    /\ account \in admins
    /\ admins' = admins \ {account}
    /\ allAdmins' = removeAddressArrayElement(allAdmins, account)
    /\ adminCount' = adminCount - 1
    /\ UNCHANGED paused

pauseContract(sender) ==
    /\ sender \in admins
    /\ paused' = TRUE
    /\ UNCHANGED <<admins, allAdmins, adminCount>>

unPauseContract(sender) ==
    /\ sender \in admins
    /\ paused' = FALSE
    /\ UNCHANGED <<admins, allAdmins, adminCount>>

AdminNext ==
    \E sender \in Accounts :
        \/ \E account \in Accounts : addAdmin(sender, account) \/ deleteAdmin(sender, account)
        \/ pauseContract(sender)
        \/ unPauseContract(sender)

AdminSpec == AdminInit /\ [][AdminNext]_adminVars

--------------------------------------------------------------------------------
(* No sequence of calls leaves the contract without an administrator, who  *)
(* alone can unpause it, settle auctions and withdraw the fees.            *)
SomeoneAdministers == admins # {}

(* Every account onlyAdmin lets through is in the array getAllAdmins        *)
(* returns, also after removals have moved entries of the array.           *)
AdminsAreListed == \A a \in admins : \E i \in DOMAIN allAdmins : allAdmins[i] = a

(* The count is the length of the array, so deleteAdmin never reverts for   *)
(* an underflow of the count.                                              *)
CountIsLength == adminCount = Len(allAdmins)

(* The mapping, the array, the 16-bit count and the switch agree after any   *)
(* sequence of calls: no account lets itself out, none is dropped from the *)
(* list while it administers, and no deletion reverts for the count.       *)
RosterIsSound ==
    /\ AdminTypeOK
    /\ SomeoneAdministers
    /\ AdminsAreListed
    /\ CountIsLength
================================================================================
