------------------------------- MODULE Seeding -------------------------------
(***************************************************************************)
(* Seeding of the database (src/prisma/seed.ts), which the start scripts   *)
(* run before every start of the server.                                   *)
(*                                                                         *)
(* Four createMany statements with skipDuplicates run one after the other; *)
(* each adds its rows that break no unique key, or fails as a whole.  The  *)
(* process may stop anywhere, and staff change the data between two runs   *)
(* and, where the old server is still up, during one.                      *)
(***************************************************************************)
EXTENDS SettingKeys, Naturals

CONSTANTS
    Networks,       \* networks; each stands for its slug and for its name
    MaxId,          \* bound of the ids of blockchains
    MaxEdits,       \* bound of what staff do
    NoRow

BoundsAssumption == MaxId \in Nat /\ MaxId >= 3 /\ MaxEdits \in Nat

VARIABLES
    main,           \* the next step of the seeding, or "off", or "exit 0"
    admin,          \* the staff member 'admin'
    settings,       \* the rows of settings
    chains,         \* the rows of blockchains, by id
    nextId,         \* the sequence of their ids
    tokens,         \* the rows of payment_tokens that have the key of a seed
    edits,          \* how often staff have changed a row
    rearranged      \* staff have created, renamed or deleted a blockchain

vars == <<main, admin, settings, chains, nextId, tokens, edits, rearranged>>

Groups == DOMAIN Inputs
Origin == {"seeded", "saved"}
Setting == [option_group: Groups, media: BOOLEAN, value: Origin]

Blockchain == [network_name: Networks, slug: Networks]

(* The seeds of blockchains, in order. *)
SeededNetworks == <<"rinkeby", "mumbai", "bsctestnet">>

(* A symbol stands for the contract address of its seed: the key of a token *)
(* is its blockchain and its address.                                      *)
PaymentTokens ==
    [blockchain_id: {1}, token_symbol: {"ETH", "WETH", "DKFT20"}]
        \cup [blockchain_id: {2}, token_symbol: {"MATIC", "WMATIC", "DKFT20"}]
        \cup [blockchain_id: {3}, token_symbol: {"BNB", "WBNB", "DKFT20"}]

NetworksAssumption ==
    /\ {SeededNetworks[i] : i \in DOMAIN SeededNetworks} \subseteq Networks
    /\ NoRow \notin Blockchain \cup Setting \cup Origin

TypeOK ==
    /\ main \in {"off", "staffs", "settings", "blockchains", "tokens", "exit 0"}
    /\ admin \in Origin \cup {NoRow}
    /\ settings \in [Keys -> Setting \cup {NoRow}]
    /\ chains \in [1..MaxId -> Blockchain \cup {NoRow}]
    /\ nextId \in 1..MaxId + 1
    /\ tokens \in [PaymentTokens -> Origin \cup {NoRow}]
    /\ edits \in 0..MaxEdits /\ rearranged \in BOOLEAN

Init ==
    /\ main = "off" /\ admin = NoRow
    /\ settings = [k \in Keys |-> NoRow]
    /\ chains = [i \in 1..MaxId |-> NoRow] /\ nextId = 1
    /\ tokens = [t \in PaymentTokens |-> NoRow] /\ edits = 0 /\ rearranged = FALSE

--------------------------------------------------------------------------------
start ==
    /\ main \in {"off", "exit 0"}
    /\ main' = "staffs"
    /\ UNCHANGED <<admin, settings, chains, nextId, tokens, edits, rearranged>>

seedStaffs ==
    /\ main = "staffs" /\ main' = "settings"
    /\ admin' = IF admin = NoRow THEN "seeded" ELSE admin
    /\ UNCHANGED <<settings, chains, nextId, tokens, edits, rearranged>>

SeededSettings ==
    [k \in SeededHomepage \cup UNION {SeededOthers[g] : g \in DOMAIN SeededOthers} |->
        [option_group |-> IF k \in SeededHomepage
                            THEN "homepage_settings"
                            ELSE CHOOSE g \in DOMAIN SeededOthers : k \in SeededOthers[g],
         media |-> k \in SeededMedia, value |-> "seeded"]]

(* Variant: rows that exist are written again. *)
settingsSeeder_Upserts ==
    /\ main = "settings"
    /\ settings' = [k \in Keys |-> IF k \in DOMAIN SeededSettings THEN SeededSettings[k]
                                                                  ELSE settings[k]]
    /\ main' \in {"blockchains", "exit 0"}
    /\ UNCHANGED <<admin, chains, nextId, tokens, edits, rearranged>>

(* In production it is the last step. *)
settingsSeeder ==
    /\ main = "settings"
    /\ settings' = [k \in Keys |-> IF settings[k] = NoRow /\ k \in DOMAIN SeededSettings
                                     THEN SeededSettings[k] ELSE settings[k]]
    /\ main' \in {"blockchains", "exit 0"}
    /\ UNCHANGED <<admin, chains, nextId, tokens, edits, rearranged>>

(* The name and the slug are unique among all blockchains but i.            *)
Collides(i, c) ==
    \E j \in 1..MaxId \ {i} :
        /\ chains[j] # NoRow
        /\ chains[j].network_name = c.network_name \/ chains[j].slug = c.slug

SeededChain(n) == [network_name |-> SeededNetworks[n], slug |-> SeededNetworks[n]]

(* Every seed takes an id, also the one that is skipped.                    *)
seedBlockchain ==
    /\ main = "blockchains" /\ main' = "tokens"
    /\ nextId + 2 <= MaxId
    /\ chains' = [i \in 1..MaxId |->
          IF i \in nextId..nextId + 2 /\ ~Collides(i, SeededChain(i - nextId + 1))
            THEN SeededChain(i - nextId + 1) ELSE chains[i]]
    /\ nextId' = nextId + 3
    /\ UNCHANGED <<admin, settings, tokens, edits, rearranged>>

(* The ids that a statement has taken stay taken when it fails.             *)
seedBlockchainFails ==
    /\ main = "blockchains" /\ main' = "off"
    /\ nextId' \in {i \in nextId..nextId + 3 : i <= MaxId}
    /\ UNCHANGED <<admin, settings, chains, tokens, edits, rearranged>>

(* The statement fails when a token that it adds refers to no blockchain.   *)
seedPaymentToken ==
    /\ main = "tokens"
    /\ IF \A t \in PaymentTokens : tokens[t] = NoRow => chains[t.blockchain_id] # NoRow
         THEN /\ main' = "exit 0"
              /\ tokens' = [t \in PaymentTokens |-> IF tokens[t] = NoRow THEN "seeded" ELSE tokens[t]]
         ELSE main' = "off" /\ UNCHANGED tokens
    /\ UNCHANGED <<admin, settings, chains, nextId, edits, rearranged>>

(* The process stops or the database cannot be reached. *)
crash ==
    /\ main \in {"staffs", "settings", "blockchains", "tokens"}
    /\ main' = "off"
    /\ UNCHANGED <<admin, settings, chains, nextId, tokens, edits, rearranged>>

--------------------------------------------------------------------------------
Edit == edits < MaxEdits /\ edits' = edits + 1

(* One setting through settingSave: the row of this group and key, or a new *)
(* one, which the database refuses when another group has the key.         *)
saveSetting(g, k) ==
    /\ Edit
    /\ settings[k] # NoRow => settings[k].option_group = g
    /\ settings' = [settings EXCEPT ![k] =
          [option_group |-> g, media |-> k \in imageSlugList, value |-> "saved"]]
    /\ UNCHANGED <<main, admin, chains, nextId, tokens, rearranged>>

(* createStaff and updateStaff can give any row the name or the mail        *)
(* address of the seed; the seed is skipped while a row has one of them.   *)
changeAdmin ==
    /\ Edit
    /\ admin' = "saved"
    /\ UNCHANGED <<main, settings, chains, nextId, tokens, rearranged>>

(* updateStaff that gives up both, or deleteStaff.                          *)
loseAdmin ==
    /\ Edit
    /\ admin # NoRow /\ admin' = NoRow
    /\ UNCHANGED <<main, settings, chains, nextId, tokens, rearranged>>

createBlockchain(c) ==
    /\ Edit
    /\ nextId <= MaxId /\ ~Collides(nextId, c)
    /\ chains' = [chains EXCEPT ![nextId] = c]
    /\ nextId' = nextId + 1 /\ rearranged' = TRUE
    /\ UNCHANGED <<main, admin, settings, tokens>>

updateBlockchain(i, c) ==
    /\ Edit
    /\ chains[i] # NoRow /\ chains[i] # c /\ ~Collides(i, c)
    /\ chains' = [chains EXCEPT ![i] = c] /\ rearranged' = TRUE
    /\ UNCHANGED <<main, admin, settings, nextId, tokens>>

deleteBlockchain(i) ==
    /\ Edit
    /\ chains[i] # NoRow /\ \A t \in PaymentTokens : t.blockchain_id = i => tokens[t] = NoRow
    /\ chains' = [chains EXCEPT ![i] = NoRow] /\ rearranged' = TRUE
    /\ UNCHANGED <<main, admin, settings, nextId, tokens>>

(* createPaymentToken, or updatePaymentToken of the row of another key.     *)
savePaymentToken(t) ==
    /\ Edit
    /\ tokens[t] = NoRow /\ chains[t.blockchain_id] # NoRow
    /\ \/ tokens' = [tokens EXCEPT ![t] = "saved"]
       \/ \E old \in PaymentTokens :
             tokens[old] # NoRow /\ tokens' = [tokens EXCEPT ![t] = "saved", ![old] = NoRow]
    /\ UNCHANGED <<main, admin, settings, chains, nextId, rearranged>>

(* deletePaymentToken, and updatePaymentToken that keeps the key or takes   *)
(* one that no seed has.                                                   *)
changePaymentToken(t) ==
    /\ Edit
    /\ tokens[t] # NoRow
    /\ \E new \in {NoRow, "saved"} : tokens' = [tokens EXCEPT ![t] = new]
    /\ UNCHANGED <<main, admin, settings, chains, nextId, rearranged>>

Seed == seedStaffs \/ settingsSeeder \/ seedBlockchain \/ seedPaymentToken

Next ==
    \/ start \/ Seed \/ seedBlockchainFails \/ crash
    \/ \E g \in Groups : \E k \in Inputs[g] : saveSetting(g, k)
    \/ changeAdmin \/ loseAdmin
    \/ \E c \in Blockchain :
          createBlockchain(c) \/ \E i \in 1..MaxId : updateBlockchain(i, c)
    \/ \E i \in 1..MaxId : deleteBlockchain(i)
    \/ \E t \in PaymentTokens : savePaymentToken(t) \/ changePaymentToken(t)

Spec == Init /\ [][Next]_vars

--------------------------------------------------------------------------------
(* However often the seeding runs, wherever it stops and whatever staff do  *)
(* beside it: the row that a key has when a step of the seeding begins is   *)
(* left as it is.  A row that staff deleted, or that gave up its key, has   *)
(* none, and comes back.                                                   *)
Kept(old, new) == old # NoRow => new = old
StepKeepsRows ==
    main' # main =>
        /\ Kept(admin, admin')
        /\ \A k \in Keys : Kept(settings[k], settings'[k])
        /\ \A i \in DOMAIN chains : Kept(chains[i], chains'[i])
        /\ \A t \in PaymentTokens : Kept(tokens[t], tokens'[t])
SeedingKeepsRows == [][StepKeepsRows]_vars

(* Seeds and inputs agree on the group of a key, so that a save of any group *)
(* finds the seeded row instead of colliding with it.                      *)
EveryKeyCanBeSaved ==
    \A g \in Groups : \A k \in Inputs[g] :
        settings[k] # NoRow => settings[k].option_group = g

(* Rows are marked as media exactly if their input takes an upload, whether *)
(* they were seeded or saved: the link to the file is made from the mark.   *)
MediaRowsAreUploads ==
    \A k \in Keys : settings[k] # NoRow =>
        (settings[k].media <=> k \in HomepageUploads \cup logoSettingsInput)

(* The tokens name their blockchain by a fixed id, while ids come from a    *)
(* sequence that failed statements advance as well.  As long as staff have  *)
(* not created, renamed or deleted a blockchain, each token that a seeding  *)
(* has added, at first or again, is on its own blockchain.                 *)
TokenNetwork ==
    [ETH |-> "rinkeby", WETH |-> "rinkeby", MATIC |-> "mumbai", WMATIC |-> "mumbai",
     BNB |-> "bsctestnet", WBNB |-> "bsctestnet"]

TokensAreOnTheirChain ==
    ~rearranged =>
        \A t \in PaymentTokens :
            tokens[t] = "seeded" /\ t.token_symbol \in DOMAIN TokenNetwork =>
                /\ chains[t.blockchain_id] # NoRow
                /\ chains[t.blockchain_id].slug = TokenNetwork[t.token_symbol]
================================================================================
