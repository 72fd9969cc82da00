--------------------------- MODULE MCAuthentication ---------------------------
(***************************************************************************)
(* Logins and tokens on small instances: two wallets with two calls in     *)
(* flight, and one id that names a user and a staff member.  The modules   *)
(* share no variable, so one run explores them side by side: `part` is the *)
(* one that moves, the other stays in its initial state.                   *)
(***************************************************************************)
EXTENDS WalletLogin, TLC

CONSTANTS
    Ids, Slots,         \* ids of both tables; guarded requests
    TTL, MaxTime, NoToken, NoId

VARIABLES part, now, account, issued, presented, guard, actor

Tokens == INSTANCE AccessTokens WITH Requests <- Slots

ASSUME TokensAssumption ==
    /\ Tokens!TTLAssumption /\ Tokens!MaxTimeAssumption
    /\ Tokens!NoIdAssumption /\ Tokens!NoTokenAssumption

tokenVars == <<now, account, issued, presented, guard, actor>>

MCInit == Init /\ Tokens!Init /\ part \in {"logins", "tokens"}

LoginsNext == part = "logins" /\ Next /\ UNCHANGED <<part, tokenVars>>
TokensNext == part = "tokens" /\ Tokens!Next /\ UNCHANGED <<part, vars>>

MCSpec == MCInit /\ [][LoginsNext \/ TokensNext]_<<part, vars, tokenVars>>

(* Codes and requests are interchangeable as well; more permutations cost     *)
(* more time than they save.                                               *)
Symmetry == Permutations(Wallets) \cup Permutations(RowIds)

--------------------------------------------------------------------------------
(* The types of both modules.                                               *)
TypesOK == TypeOK /\ Tokens!TypeOK

(* A session ends one expiresIn after its last refresh, and for good.       *)
SessionsEnd == Tokens!SessionsEnd

(* A handler runs as the account its token is for, if that was active when  *)
(* the guard read it.                                                      *)
AdmittedAsActiveAccount == Tokens!AdmittedAsActiveAccount
================================================================================
