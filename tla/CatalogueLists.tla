----------------------------- MODULE CatalogueLists -----------------------------
(***************************************************************************)
(* What the lists of blockchains and payment tokens return while staff     *)
(* switch rows on and off: the queries and the status updates of           *)
(* src/src/app/modules/staff/blockchain/blockchain.service.ts and          *)
(* src/src/app/modules/staff/token/token.service.ts.                       *)
(*                                                                         *)
(* A string is a sequence of letters; Lower gives the lower case of one.   *)
(* Order and pages are left out: a list is a set of ids.                   *)
(***************************************************************************)
EXTENDS Integers, Sequences, FiniteSets

CONSTANTS
    Chains, Tokens,     \* ids
    Strings, Lower,     \* names, symbols and queries
    Statuses,           \* numbers that are given for a status; nothing validates them
    Requests,           \* calls that may be in flight at once
    Null, Idle

IdsAssumption ==
    /\ Chains \subseteq Nat \ {0} /\ Tokens \subseteq Nat \ {0}
    /\ IsFiniteSet(Chains) /\ IsFiniteSet(Tokens)
StringsAssumption == Strings \subseteq Seq(DOMAIN Lower)
StatusAssumption == {0, 1} \subseteq Statuses /\ Statuses \subseteq Int
NullAssumption == Null \notin Strings \cup Int

VARIABLES
    chains, tokens,     \* the tables
    call                \* the status updates in flight: between their read and their write

vars == <<chains, tokens, call>>

STATUS_INACTIVE == 0
STATUS_ACTIVE == 1
PAYMENT_TOKEN_TYPE_NATIVE_COIN == 1
PAYMENT_TOKEN_TYPE_TOKEN == 2

Ids == Chains \cup Tokens
Call == [id: Ids, status: Statuses]

(* The chain_id of a blockchain is its id plus 100, which no id equals.     *)
ChainId(c) == 100 + c
BlockchainRow == [network_name: Strings, status: Statuses]

(* is_wrapable is only compared with STATUS_ACTIVE. *)
TokenRow == [name: Strings, token_symbol: Strings, blockchain: Chains, status: Statuses,
             type: {PAYMENT_TOKEN_TYPE_NATIVE_COIN, PAYMENT_TOKEN_TYPE_TOKEN},
             is_wrapable: {STATUS_INACTIVE, STATUS_ACTIVE}]

TypeOK ==
    /\ chains \in [Chains -> BlockchainRow]
    /\ tokens \in [Tokens -> TokenRow]
    /\ call \in [Requests -> Call \cup {Idle}]

(* Every table; the seeds have native coins that are wrapable. *)
Init ==
    /\ chains \in [Chains -> BlockchainRow]
    /\ tokens \in [Tokens -> TokenRow]
    /\ call = [r \in Requests |-> Idle]

--------------------------------------------------------------------------------
(* PaymentTokenFilter and the filter of blockchains, their fields in use.   *)
Filter == [query: Strings \cup {Null}, status: Statuses \cup {Null}]

LowerCase(s) == [i \in DOMAIN s |-> Lower[s[i]]]

(* `contains` with mode insensitive. *)
Contains(s, query) ==
    \E i \in 0..(Len(s) - Len(query)) :
        SubSeq(LowerCase(s), i + 1, i + Len(query)) = LowerCase(query)

(* `status || default` and `query || ''`: 0 and Null are alike, and so are   *)
(* the empty query and Null.                                               *)
StatusOr(status, default) == IF status \in {Null, 0} THEN default ELSE status
QueryOrEmpty(query) == IF query = Null THEN <<>> ELSE query
HasStatus(row, status) == status = Null \/ row.status = status

getBlockchainLists(status) ==
    {c \in Chains : chains[c].status = IF status = Null THEN STATUS_ACTIVE ELSE status}

(* In a condition 0 is as good as nothing. *)
Given(x) == x \notin {Null, 0}

(* Variant: the filter applies only when both arguments are given. *)
OfChain_Both(t, id, chain_id) ==
    Given(id) /\ Given(chain_id) =>
        id = tokens[t].blockchain /\ chain_id = ChainId(tokens[t].blockchain)

OfChain(t, id, chain_id) ==
    Given(id) \/ Given(chain_id) =>
        /\ id \in {Null, tokens[t].blockchain}
        /\ chain_id \in {Null, ChainId(tokens[t].blockchain)}

getTokenLists(id, chain_id) ==
    {t \in Tokens : tokens[t].status = STATUS_ACTIVE /\ OfChain(t, id, chain_id)}

(* The candidates for native_token and wrap_token; one of each is returned. *)
getNativeNwrapToken(id, chain_id) ==
    [native_token |-> {t \in Tokens : /\ tokens[t].type = PAYMENT_TOKEN_TYPE_NATIVE_COIN
                                      /\ OfChain(t, id, chain_id)},
     wrap_token |-> {t \in Tokens : /\ tokens[t].type = PAYMENT_TOKEN_TYPE_TOKEN
                                    /\ tokens[t].is_wrapable = STATUS_ACTIVE
                                    /\ OfChain(t, id, chain_id)}]

staffTokenList(f) ==
    {t \in Tokens :
        /\ \E s \in {tokens[t].name, tokens[t].token_symbol,
                     chains[tokens[t].blockchain].network_name} :
               Contains(s, QueryOrEmpty(f.query))
        /\ HasStatus(tokens[t], StatusOr(f.status, Null))}

(* The count compares the whole name and keeps a status of 0. *)
staffTokenCount(f) ==
    Cardinality({t \in Tokens : f.query \in {Null, tokens[t].name} /\ HasStatus(tokens[t], f.status)})

staffBlockchainList(f) ==
    {c \in Chains : /\ Contains(chains[c].network_name, QueryOrEmpty(f.query))
                    /\ HasStatus(chains[c], f.status)}

staffBlockchainCount(f) ==
    Cardinality({c \in Chains : f.query \in {Null, chains[c].network_name}
                                /\ HasStatus(chains[c], f.status)})

--------------------------------------------------------------------------------
(* The row is looked for, then written. *)
findForStatus(r, i, status) ==
    /\ call[r] = Idle
    /\ call' = [call EXCEPT ![r] = [id |-> i, status |-> status]]
    /\ UNCHANGED <<chains, tokens>>

updateBlockchainStatus(r) ==
    /\ call[r] # Idle /\ call[r].id \in Chains
    /\ chains' = [chains EXCEPT ![call[r].id].status = call[r].status]
    /\ call' = [call EXCEPT ![r] = Idle]
    /\ UNCHANGED tokens

updatePaymentTokenStatus(r) ==
    /\ call[r] # Idle /\ call[r].id \in Tokens
    /\ tokens' = [tokens EXCEPT ![call[r].id].status = call[r].status]
    /\ call' = [call EXCEPT ![r] = Idle]
    /\ UNCHANGED chains

Next == \E r \in Requests :
    \/ \E i \in Ids, status \in Statuses : findForStatus(r, i, status)
    \/ updateBlockchainStatus(r) \/ updatePaymentTokenStatus(r)

Spec == Init /\ [][Next]_vars

--------------------------------------------------------------------------------
(* A status of 0 asks for the inactive, and is not taken for no status,     *)
(* which asks for the active: no blockchain is in both lists.  In neither   *)
(* are those, and only those, for which somebody gave another number.       *)
BlockchainListsByStatus ==
    LET inactive == getBlockchainLists(STATUS_INACTIVE)
        active == getBlockchainLists(Null)
    IN  /\ inactive \cap active = {}
        /\ Chains \ (inactive \cup active)
              = {c \in Chains : chains[c].status \notin {STATUS_INACTIVE, STATUS_ACTIVE}}

(* Asked by id, by chain_id or by both, the listed tokens, the native coin  *)
(* and its wrapped token are of the blockchain that was asked for, whatever *)
(* the types and flags of the tokens are.                                  *)
PairIsOfOneChain ==
    \A c \in Chains : \A id \in {Null, c} : \A chain_id \in {Null, ChainId(c)} :
        LET pair == getNativeNwrapToken(id, chain_id)
        IN  Given(id) \/ Given(chain_id) =>
                \A t \in getTokenLists(id, chain_id) \cup pair.native_token \cup pair.wrap_token :
                    tokens[t].blockchain = c

(* The total shown beside a staff list filters in another way than the list *)
(* (whole name against part of it, 0 against no status), yet it never      *)
(* announces more rows than the list can show, and is their number when    *)
(* there is no query and the status is not 0.                              *)
TokenCountFitsList ==
    \A f \in Filter :
        /\ staffTokenCount(f) <= Cardinality(staffTokenList(f))
        /\ f.query = Null /\ f.status # 0 => staffTokenCount(f) = Cardinality(staffTokenList(f))

(* The same for blockchains, where only the query is compared differently.  *)
BlockchainCountFitsList ==
    \A f \in Filter :
        /\ staffBlockchainCount(f) <= Cardinality(staffBlockchainList(f))
        /\ f.query = Null => staffBlockchainCount(f) = Cardinality(staffBlockchainList(f))
================================================================================
