----------------------------- MODULE NFTCollection -----------------------------
(***************************************************************************)
(* The NFT collection (src/contract/nft2.sol, ZladyCollection): owners,    *)
(* approvals, the two enumerations, the pause switch, and the roles of     *)
(* CollectionRoles.                                                        *)
(*                                                                         *)
(* A call that reverts changes nothing and is a stuttering step.  The safe *)
(* transfers ask a contract that receives a token whether it accepts it    *)
(* after every change has been made: a refusal reverts, and what an        *)
(* accepting contract calls in its turn is the next step here, so they are *)
(* transferFrom.  The text that mint stores for tokenURI is left out.      *)
(***************************************************************************)
EXTENDS CollectionRoles

CONSTANTS
    Zero,       \* address(0)
    MaxTokens   \* bound: how many tokens are minted

ASSUME CollectionAssumption ==
    /\ Zero \notin Accounts
    /\ MaxTokens \in Nat \ {0}

Ids == 0..(MaxTokens - 1)

VARIABLES
    owners,             \* _owners
    balances,           \* _balances
    tokenApprovals,     \* _tokenApprovals
    operatorApprovals,  \* _operatorApprovals, the pairs it holds true for
    lists,              \* _ownedTokens and _ownedTokensIndex
    all,                \* _allTokens and _allTokensIndex
    tokenIdTracker,     \* _tokenIdTracker
    paused

tokenVars == <<owners, balances, tokenApprovals, operatorApprovals, lists, all, tokenIdTracker>>
vars == <<members, roleMembers, tokenVars, paused>>

OwnerEnumeration == [owned : [Accounts -> [Ids -> Ids]], place : [Ids -> Ids]]
SupplyEnumeration == [tokens : Seq(Ids), place : [Ids -> Ids]]

TypeOK ==
    /\ RolesTypeOK
    /\ owners \in [Ids -> Accounts \cup {Zero}]
    /\ balances \in [Accounts -> 0..MaxTokens]
    /\ tokenApprovals \in [Ids -> Accounts \cup {Zero}]
    /\ operatorApprovals \subseteq Accounts \X Accounts
    /\ lists \in OwnerEnumeration
    /\ all \in SupplyEnumeration
    /\ tokenIdTracker \in 0..MaxTokens
    /\ paused \in BOOLEAN

Init ==
    /\ RolesInit
    /\ owners = [t \in Ids |-> Zero]
    /\ balances = [a \in Accounts |-> 0]
    /\ tokenApprovals = [t \in Ids |-> Zero]
    /\ operatorApprovals = {}
    /\ lists = [owned |-> [a \in Accounts |-> [i \in Ids |-> 0]], place |-> [t \in Ids |-> 0]]
    /\ all = [tokens |-> << >>, place |-> [t \in Ids |-> 0]]
    /\ tokenIdTracker = 0
    /\ paused = FALSE

-----------------------------------------------------------------------------
(* The enumerations.  They are changed before the balances are. *)

addTokenToOwner(l, to, t) ==
    [owned |-> [l.owned EXCEPT ![to][balances[to]] = t],
     place |-> [l.place EXCEPT ![t] = balances[to]]]

(* Variant: the place of the token that was moved is left as it was. *)
removeTokenFromOwner_KeepsPlace(l, from, t) ==
    LET end == balances[from] - 1
    IN [owned |-> [l.owned EXCEPT ![from][l.place[t]] = l.owned[from][end], ![from][end] = 0],
        place |-> [l.place EXCEPT ![t] = 0]]

(* The last token of the list takes the place of the one that leaves. *)
removeTokenFromOwner(l, from, t) ==
    LET end == balances[from] - 1
        at == l.place[t]
        lastToken == l.owned[from][end]
        moved == IF at = end THEN l
                 ELSE [owned |-> [l.owned EXCEPT ![from][at] = lastToken],
                       place |-> [l.place EXCEPT ![lastToken] = at]]
    IN [owned |-> [moved.owned EXCEPT ![from][end] = 0],
        place |-> [moved.place EXCEPT ![t] = 0]]

addTokenToAll(t) ==
    [tokens |-> Append(all.tokens, t), place |-> [all.place EXCEPT ![t] = Len(all.tokens)]]

removeTokenFromAll(t) ==
    LET end == Len(all.tokens)
        at == all.place[t]
        lastToken == all.tokens[end]
    IN [tokens |-> SubSeq([all.tokens EXCEPT ![at + 1] = lastToken], 1, end - 1),
        place |-> [all.place EXCEPT ![lastToken] = at, ![t] = 0]]

-----------------------------------------------------------------------------

Exists(t) == owners[t] # Zero

isApprovedOrOwner(spender, t) ==
    /\ Exists(t)
    /\ \/ spender \in {owners[t], tokenApprovals[t]}
       \/ <<owners[t], spender>> \in operatorApprovals

(* Variant: the number of tokens gives the number, as the comment warns. *)
mint_AtSupply(sender, to) ==
    LET id == Len(all.tokens)
    IN /\ id < MaxTokens
       /\ hasRole(Minter, sender)
       /\ ~Exists(id)
       /\ ~paused
       /\ all' = addTokenToAll(id)
       /\ lists' = addTokenToOwner(lists, to, id)
       /\ balances' = [balances EXCEPT ![to] = @ + 1]
       /\ owners' = [owners EXCEPT ![id] = to]
       /\ tokenIdTracker' = tokenIdTracker + 1
       /\ UNCHANGED <<tokenApprovals, operatorApprovals, paused, roleVars>>

(* The counter gives the number: tokens may have been burned. *)
mint(sender, to) ==
    LET id == tokenIdTracker
    IN /\ id < MaxTokens
       /\ hasRole(Minter, sender)
       /\ ~Exists(id)
       /\ ~paused
       /\ all' = addTokenToAll(id)
       /\ lists' = addTokenToOwner(lists, to, id)
       /\ balances' = [balances EXCEPT ![to] = @ + 1]
       /\ owners' = [owners EXCEPT ![id] = to]
       /\ tokenIdTracker' = tokenIdTracker + 1
       /\ UNCHANGED <<tokenApprovals, operatorApprovals, paused, roleVars>>

(* Variant: the balance of the caller is taken down. *)
burn_FromSender(sender, t) ==
    LET owner == owners[t]
    IN /\ isApprovedOrOwner(sender, t)
       /\ ~paused
       /\ lists' = removeTokenFromOwner(lists, owner, t)
       /\ all' = removeTokenFromAll(t)
       /\ tokenApprovals' = [tokenApprovals EXCEPT ![t] = Zero]
       /\ balances' = [balances EXCEPT ![sender] = @ - 1]
       /\ owners' = [owners EXCEPT ![t] = Zero]
       /\ UNCHANGED <<operatorApprovals, tokenIdTracker, paused, roleVars>>

burn(sender, t) ==
    LET owner == owners[t]
    IN /\ isApprovedOrOwner(sender, t)
       /\ ~paused
       /\ lists' = removeTokenFromOwner(lists, owner, t)
       /\ all' = removeTokenFromAll(t)
       /\ tokenApprovals' = [tokenApprovals EXCEPT ![t] = Zero]
       /\ balances' = [balances EXCEPT ![owner] = @ - 1]
       /\ owners' = [owners EXCEPT ![t] = Zero]
       /\ UNCHANGED <<operatorApprovals, tokenIdTracker, paused, roleVars>>

(* Variant: the approval of the previous owner is not cleared. *)
transferFrom_KeepsApproval(sender, from, to, t) ==
    /\ isApprovedOrOwner(sender, t)
    /\ owners[t] = from
    /\ ~paused
    /\ lists' = IF from = to THEN lists
                ELSE addTokenToOwner(removeTokenFromOwner(lists, from, t), to, t)
    /\ balances' = [balances EXCEPT ![from] = @ - 1, ![to] = @ + 1]
    /\ owners' = [owners EXCEPT ![t] = to]
    /\ UNCHANGED <<tokenApprovals, operatorApprovals, all, tokenIdTracker, paused, roleVars>>

(* A transfer to the owner itself leaves the enumeration alone. *)
transferFrom(sender, from, to, t) ==
    /\ isApprovedOrOwner(sender, t)
    /\ owners[t] = from
    /\ ~paused
    /\ lists' = IF from = to THEN lists
                ELSE addTokenToOwner(removeTokenFromOwner(lists, from, t), to, t)
    /\ tokenApprovals' = [tokenApprovals EXCEPT ![t] = Zero]
    /\ balances' = [balances EXCEPT ![from] = @ - 1, ![to] = @ + 1]
    /\ owners' = [owners EXCEPT ![t] = to]
    /\ UNCHANGED <<operatorApprovals, all, tokenIdTracker, paused, roleVars>>

approve(sender, to, t) ==
    /\ Exists(t)
    /\ to # owners[t]
    /\ \/ sender = owners[t]
       \/ <<owners[t], sender>> \in operatorApprovals
    /\ tokenApprovals' = [tokenApprovals EXCEPT ![t] = to]
    /\ UNCHANGED <<owners, balances, operatorApprovals, lists, all, tokenIdTracker, paused, roleVars>>

setApprovalForAll(sender, operator, approved) ==
    /\ operator # sender
    /\ operatorApprovals' = IF approved THEN operatorApprovals \cup {<<sender, operator>>}
                            ELSE operatorApprovals \ {<<sender, operator>>}
    /\ UNCHANGED <<owners, balances, tokenApprovals, lists, all, tokenIdTracker, paused, roleVars>>

pause(sender) ==
    /\ hasRole(Pauser, sender)
    /\ ~paused
    /\ paused' = TRUE
    /\ UNCHANGED <<tokenVars, roleVars>>

unpause(sender) ==
    /\ hasRole(Pauser, sender)
    /\ paused
    /\ paused' = FALSE
    /\ UNCHANGED <<tokenVars, roleVars>>

TokenNext ==
    \E sender \in Accounts :
        \/ \E to \in Accounts : mint(sender, to)
        \/ \E t \in Ids : burn(sender, t)
        \/ \E from, to \in Accounts, t \in Ids : transferFrom(sender, from, to, t)
        \/ \E to \in Accounts \cup {Zero}, t \in Ids : approve(sender, to, t)
        \/ \E operator \in Accounts, approved \in BOOLEAN : setApprovalForAll(sender, operator, approved)

PauseNext == \E sender \in Accounts : pause(sender) \/ unpause(sender)

Next ==
    \/ TokenNext
    \/ PauseNext
    \/ RolesNext /\ UNCHANGED <<tokenVars, paused>>

Spec == Init /\ [][Next]_vars

-----------------------------------------------------------------------------

(* Every place of every list holds a token of its account, and every token *)
(* stands at its own place.                                                *)
OwnerLists(l, ow, bal) ==
    /\ \A a \in Accounts : \A i \in 0..(bal[a] - 1) :
        /\ ow[l.owned[a][i]] = a
        /\ l.place[l.owned[a][i]] = i
    /\ \A t \in Ids : ow[t] # Zero =>
        /\ l.place[t] < bal[ow[t]]
        /\ l.owned[ow[t]][l.place[t]] = t

SupplyList(l, ow) ==
    /\ \A i \in Ranks(l.tokens) : ow[l.tokens[i]] # Zero /\ l.place[l.tokens[i]] = i - 1
    /\ \A t \in Ids : ow[t] # Zero =>
        /\ l.place[t] + 1 \in Ranks(l.tokens)
        /\ l.tokens[l.place[t] + 1] = t

(* tokenOfOwnerByIndex lists, for every account, the tokens that ownerOf   *)
(* says it has, each once, in a list as long as balanceOf says.            *)
OwnerListsAreExact == OwnerLists(lists, owners, balances)

(* tokenByIndex and totalSupply list every token that exists, each once.   *)
SupplyListIsExact == SupplyList(all, owners)

(* An approval for one token is gone once the token has another owner or   *)
(* none: what is approved exists, and nobody is approved for what he owns. *)
ApprovalsAreLive ==
    \A t \in Ids : tokenApprovals[t] # Zero => Exists(t) /\ tokenApprovals[t] # owners[t]

(* A collection that is paused when its last pauser and administrator have *)
(* left stays paused: renounceRole keeps nobody back.                      *)
PauseOutlivesItsRoles ==
    [][paused /\ members[Pauser] = {} /\ members[Admin] = {} => paused']_vars

(* What the contract enumerates is what its mappings say: the tokens of each *)
(* account, all tokens, and the members of each role.                      *)
EnumerationsAreExact == OwnerListsAreExact /\ SupplyListIsExact /\ RolesAreListed

(* Rights come from administrators: without one nobody is appointed, and no *)
(* pause ends once its pausers are gone as well.                           *)
RightsComeFromAdmins == NobodyIsAppointedWithoutAdmin /\ PauseOutlivesItsRoles

(* The enumerations are those of TokenLedger: each call makes, moves or    *)
(* burns one token and a number is given once.                             *)
OwnedBy(a) == {lists.owned[a][i] : i \in 0..(balances[a] - 1)}
Held == [a \in Accounts |-> OwnedBy(a)]
Listed == {all.tokens[i] : i \in Ranks(all.tokens)}
Ledger == INSTANCE TokenLedger WITH held <- Held, listed <- Listed, made <- tokenIdTracker
ImplementsTokenLedger == Ledger!LedgerSpec

================================================================================
