------------------------------- MODULE Catalogue -------------------------------
(***************************************************************************)
(* Blockchains and payment tokens, and the logo files their rows name:     *)
(* src/src/app/modules/staff/blockchain/blockchain.service.ts and          *)
(* src/src/app/modules/staff/token/token.service.ts.                       *)
(*                                                                         *)
(* Each handler awaits one statement or file operation after the other, on *)
(* the row it has `seen`; other handlers run in between.  The columns are  *)
(* the keys, the logo and the reference of a token to its blockchain;      *)
(* rates are in UsdRates, the status is in CatalogueLists.                 *)
(***************************************************************************)
EXTENDS Naturals

CONSTANTS
    Chains, Tokens,     \* ids of blockchains and of payment tokens
    Names,              \* network names
    Slugs,              \* slugs of payloads
    Addresses,          \* contract addresses
    Files,              \* names of uploaded files; each is a new UUID
    Requests,           \* calls that may be in flight at once
    NoRow, Gone,        \* an id not yet used; the id of a deleted row
    NoFile,             \* null, or a payload without a file
    Idle                \* a call slot that is free

IdsAssumption == Chains \cap Tokens = {}
NoFileAssumption == NoFile \notin Files

VARIABLES
    rows,           \* both tables, by id
    disk,           \* the logo files that exist
    written,        \* the file names that have been used
    failedUpdates,  \* the ids with an update that was answered by an error
    call            \* the calls in flight

vars == <<rows, disk, written, failedUpdates, call>>

Ids == Chains \cup Tokens

BlockchainSlugMapping ==
    [rinkeby |-> 4, ropsten |-> 3, goerli |-> 5, kovan |-> 42, bsctestnet |-> 97,
     mumbai |-> 80001, ethereum |-> 1, polygon |-> 137, bscmainnet |-> 56]

Logo == Files \cup {NoFile}
Blockchain == [network_name: Names, slug: DOMAIN BlockchainSlugMapping,
               chain_id: Nat, logo: Logo]
PaymentToken == [blockchain_id: Chains, contract_address: Addresses, logo: Logo]
RowAssumption == {NoRow, Gone} \cap (Blockchain \cup PaymentToken) = {}

CreateBlockChainDto == [network_name: Names, slug: Slugs]
CreatePaymentTokenDto == [blockchain_id: Chains, contract_address: Addresses]
Payload == CreateBlockChainDto \cup CreatePaymentTokenDto

(* `update` tells the calls on an existing row from those that create one.  *)
Call == [at: {"validating", "uploading", "checking", "deleting", "saving"},
         update: BOOLEAN, id: Ids, data: Payload, seen: Logo,
         brings: BOOLEAN, file: Logo]
IdleAssumption == Idle \notin Call

TypeOK ==
    /\ \A c \in Chains : rows[c] \in Blockchain \cup {NoRow, Gone}
    /\ \A t \in Tokens : rows[t] \in PaymentToken \cup {NoRow, Gone}
    /\ disk \subseteq written /\ written \subseteq Files
    /\ failedUpdates \subseteq Ids
    /\ call \in [Requests -> Call \cup {Idle}]

Init ==
    /\ rows = [i \in Ids |-> NoRow]
    /\ disk = {} /\ written = {} /\ failedUpdates = {}
    /\ call = [r \in Requests |-> Idle]

--------------------------------------------------------------------------------
At(r, place) == call[r] # Idle /\ call[r].at = place
Goto(r, place) == call' = [call EXCEPT ![r].at = place]
Answer(r) == call' = [call EXCEPT ![r] = Idle] /\ UNCHANGED failedUpdates
Refuse(r) ==
    /\ call' = [call EXCEPT ![r] = Idle]
    /\ failedUpdates' = failedUpdates \cup IF call[r].update THEN {call[r].id} ELSE {}

Exists(i) == rows[i] \notin {NoRow, Gone}
OtherChains(i) == {c \in Chains \ {i} : Exists(c)}
OtherTokens(i) == {t \in Tokens \ {i} : Exists(t)}

NameTaken(i, data) == \E c \in OtherChains(i) : rows[c].network_name = data.network_name
SlugTaken(i, data) == \E c \in OtherChains(i) : rows[c].slug = data.slug
AddressTaken(i, data) ==
    \E t \in OtherTokens(i) : /\ rows[t].blockchain_id = data.blockchain_id
                              /\ rows[t].contract_address = data.contract_address

Start(r, place, update, i, data, brings) ==
    /\ call[r] = Idle
    /\ call' = [call EXCEPT ![r] =
          [at |-> place, update |-> update, id |-> i, data |-> data,
           seen |-> IF update THEN rows[i].logo ELSE NoFile, brings |-> brings, file |-> NoFile]]
    /\ UNCHANGED <<rows, disk, written, failedUpdates>>

(* The id of a new row comes from a sequence, so no two calls share it.     *)
New(i) == rows[i] = NoRow /\ \A q \in Requests : call[q] # Idle => call[q].id # i

createBlockchain(r, i, data, brings) ==
    i \in Chains /\ New(i) /\ Start(r, "validating", FALSE, i, data, brings)

(* @Unique on slug and network_name, before the handler runs. *)
unique(r) ==
    /\ At(r, "validating")
    /\ LET c == call[r]
       IN  IF NameTaken(c.id, c.data) \/ SlugTaken(c.id, c.data)
             THEN Refuse(r) ELSE Goto(r, "uploading") /\ UNCHANGED failedUpdates
    /\ UNCHANGED <<rows, disk, written>>

(* updateBlockchain and updatePaymentToken read the row first. *)
updateBlockchain(r, i, data, brings) ==
    i \in Chains /\ Exists(i) /\ Start(r, "checking", TRUE, i, data, brings)
updatePaymentToken(r, i, data, brings) ==
    i \in Tokens /\ Exists(i) /\ Start(r, "checking", TRUE, i, data, brings)

createPaymentToken(r, i, data, brings) ==
    i \in Tokens /\ New(i) /\ Start(r, "uploading", FALSE, i, data, brings)

(* getBlockchainByNetwork, which does not look at the slug. *)
getBlockchainByNetwork(r) ==
    /\ At(r, "checking") /\ call[r].id \in Chains
    /\ IF NameTaken(call[r].id, call[r].data)
         THEN Refuse(r) ELSE Goto(r, "uploading") /\ UNCHANGED failedUpdates
    /\ UNCHANGED <<rows, disk, written>>

(* The search for the address: after the upload when a token is created,    *)
(* before it when one is updated.                                          *)
checkTokenAddress(r) ==
    /\ At(r, "checking") /\ call[r].id \in Tokens
    /\ IF AddressTaken(call[r].id, call[r].data)
         THEN Refuse(r)
         ELSE /\ Goto(r, IF call[r].update THEN "uploading" ELSE "saving")
              /\ UNCHANGED failedUpdates
    /\ UNCHANGED <<rows, disk, written>>

AfterUpload(c) ==
    IF c.update THEN "deleting" ELSE IF c.id \in Tokens THEN "checking" ELSE "saving"

(* Variant: files keep the name the client gives them. *)
uploadImage_ClientName(r) ==
    /\ At(r, "uploading")
    /\ \E f \in IF call[r].brings THEN Files ELSE {NoFile} :
           /\ disk' = disk \cup ({f} \ {NoFile})
           /\ written' = written \cup ({f} \ {NoFile})
           /\ call' = [call EXCEPT ![r].at = AfterUpload(call[r]), ![r].file = f]
    /\ UNCHANGED <<rows, failedUpdates>>

(* A file that is not an image is refused. *)
uploadImage(r) ==
    /\ At(r, "uploading")
    /\ \/ /\ \E f \in IF call[r].brings THEN Files \ written ELSE {NoFile} :
                 /\ disk' = disk \cup ({f} \ {NoFile})
                 /\ written' = written \cup ({f} \ {NoFile})
                 /\ call' = [call EXCEPT ![r].at = AfterUpload(call[r]), ![r].file = f]
          /\ UNCHANGED failedUpdates
       \/ call[r].brings /\ Refuse(r) /\ UNCHANGED <<disk, written>>
    /\ UNCHANGED rows

(* The logo that was seen is deleted before the row stops naming it; the    *)
(* disk's delete may throw when the file is gone.                          *)
deleteFile(r) ==
    /\ At(r, "deleting")
    /\ LET old == IF call[r].file = NoFile THEN {} ELSE {call[r].seen} \ {NoFile}
       IN  /\ disk' = disk \ old
           /\ \/ Goto(r, "saving") /\ UNCHANGED failedUpdates
              \/ ~(old \subseteq disk) /\ Refuse(r)
    /\ UNCHANGED <<rows, written>>

(* Variant: chain_id is only computed when the row is created. *)
savedBlockchain_KeepsChainId(c) ==
    [network_name |-> c.data.network_name, slug |-> c.data.slug,
     chain_id |-> IF c.update /\ Exists(c.id) THEN rows[c.id].chain_id
                  ELSE BlockchainSlugMapping[c.data.slug],
     logo |-> IF c.file = NoFile THEN c.seen ELSE c.file]

savedBlockchain(c) ==
    [network_name |-> c.data.network_name, slug |-> c.data.slug,
     chain_id |-> BlockchainSlugMapping[c.data.slug],
     logo |-> IF c.file = NoFile THEN c.seen ELSE c.file]

savedPaymentToken(c) ==
    [blockchain_id |-> c.data.blockchain_id, contract_address |-> c.data.contract_address,
     logo |-> IF c.file = NoFile THEN c.seen ELSE c.file]

(* The last statement throws on a slug without a mapping, on a second row   *)
(* with a unique key and on a token without its blockchain.                *)
Savable(c) ==
    IF c.id \in Chains
      THEN c.data.slug \in DOMAIN BlockchainSlugMapping
             /\ ~NameTaken(c.id, c.data) /\ ~SlugTaken(c.id, c.data)
      ELSE Exists(c.data.blockchain_id) /\ ~AddressTaken(c.id, c.data)

(* The last statement of the four handlers: create, or update of the row if *)
(* it is still there.                                                      *)
save(r) ==
    /\ At(r, "saving")
    /\ LET c == call[r]
       IN  IF Savable(c) /\ (c.update => Exists(c.id))
             THEN /\ rows' = [rows EXCEPT ![c.id] = IF c.id \in Chains THEN savedBlockchain(c)
                                                                      ELSE savedPaymentToken(c)]
                  /\ Answer(r)
             ELSE Refuse(r) /\ UNCHANGED rows
    /\ UNCHANGED <<disk, written>>

(* A row goes, its file stays; the database refuses to delete a blockchain  *)
(* with tokens.                                                            *)
deleteRow(i) ==
    /\ Exists(i)
    /\ i \in Chains => \A t \in OtherTokens(i) : rows[t].blockchain_id # i
    /\ rows' = [rows EXCEPT ![i] = Gone]
    /\ UNCHANGED <<disk, written, failedUpdates, call>>

(* A statement fails or the process stops: the call ends where it is. *)
loseCall(r) ==
    /\ call[r] # Idle
    /\ Refuse(r)
    /\ UNCHANGED <<rows, disk, written>>

--------------------------------------------------------------------------------
Continue(r) ==
    unique(r) \/ getBlockchainByNetwork(r) \/ checkTokenAddress(r)
        \/ uploadImage(r) \/ deleteFile(r) \/ save(r)

ServeBlockchains ==
    \/ \E r \in Requests, i \in Chains, data \in CreateBlockChainDto, brings \in BOOLEAN :
          createBlockchain(r, i, data, brings) \/ updateBlockchain(r, i, data, brings)
    \/ \E i \in Chains : deleteRow(i)

ServeTokens ==
    \/ \E r \in Requests, i \in Tokens, data \in CreatePaymentTokenDto, brings \in BOOLEAN :
          createPaymentToken(r, i, data, brings) \/ updatePaymentToken(r, i, data, brings)
    \/ \E i \in Tokens : deleteRow(i)

Serve == ServeBlockchains \/ ServeTokens \/ \E r \in Requests : Continue(r)

Next == Serve \/ \E r \in Requests : loseCall(r)

Spec == Init /\ [][Next]_vars

(* Every statement succeeds. *)
FaultlessSpec == Init /\ [][Serve]_vars

--------------------------------------------------------------------------------
(* A blockchain is looked up by its chain_id and findFirst takes any row:   *)
(* no two rows have the same, through creation, renaming and races of both. *)
OneRowPerChain ==
    \A c, d \in Chains : c # d /\ Exists(c) /\ Exists(d) => rows[c].chain_id # rows[d].chain_id

(* A token keeps a blockchain, however deletions and updates overlap. *)
TokensHaveTheirChain == \A t \in Tokens : Exists(t) => Exists(rows[t].blockchain_id)

Broken(i) == Exists(i) /\ rows[i].logo \notin disk \cup {NoFile}

(* The file a row names is only lost by a call on that row: by its deletion *)
(* of the old logo, or by writing back the logo it had seen.               *)
OwnCallBreaksLogo ==
    \A i \in Ids : ~Broken(i) /\ Broken(i)' =>
        \E r \in Requests : /\ call[r] # call'[r]
                            /\ At(r, "deleting") \/ At(r, "saving")
                            /\ call[r].id = i
OnlyOwnCallsBreakALogo == [][OwnCallBreaksLogo]_vars

Quiet == \A r \in Requests : call[r] = Idle

(* When calls do not overlap, a row names a missing file only if an update  *)
(* of it was answered by an error, after it had deleted the old logo.      *)
LogoMissingOnlyAfterFailedUpdate == Quiet => \A i \in Ids : Broken(i) => i \in failedUpdates
================================================================================
