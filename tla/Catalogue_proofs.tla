--------------------------- MODULE Catalogue_proofs ---------------------------
(***************************************************************************)
(* Theorems about Catalogue, for all blockchains, payment tokens, payloads, *)
(* files and calls in flight.                                              *)
(***************************************************************************)
EXTENDS Catalogue, TLAPS

(* What is assumed of the constants.                                       *)
Constants == IdsAssumption /\ NoFileAssumption /\ RowAssumption /\ IdleAssumption

--------------------------------------------------------------------------------
(* The calls in flight, by what they change.                               *)

Places == {"validating", "uploading", "checking", "deleting", "saving"}

(* A call has the payload of its table, a call that creates a row has seen  *)
(* no logo, and only updates delete one.                                   *)
CallsFitTheirTable ==
    \A r \in Requests : call[r] # Idle =>
        /\ call[r].id \in Chains => call[r].data \in CreateBlockChainDto
        /\ call[r].id \in Tokens => call[r].data \in CreatePaymentTokenDto
        /\ ~call[r].update => call[r].seen = NoFile
        /\ call[r].at = "deleting" => call[r].update

TypeInv ==
    /\ TypeOK
    /\ rows \in [Ids -> Blockchain \cup PaymentToken \cup {NoRow, Gone}]
    /\ CallsFitTheirTable

(* A call that begins. *)
Begins(r, i) ==
    /\ call[r] = Idle /\ UNCHANGED <<rows, disk, written, failedUpdates>>
    /\ \E c \in Call : /\ call' = [call EXCEPT ![r] = c]
                       /\ c.id = i /\ c.file = NoFile
                       /\ c.at # "deleting" /\ c.at # "saving"
                       /\ c.seen = IF c.update THEN rows[i].logo ELSE NoFile
                       /\ c.update <=> Exists(i)
                       /\ c.data \in IF i \in Chains THEN CreateBlockChainDto
                                                     ELSE CreatePaymentTokenDto

(* A call that goes on, or ends, and changes neither row nor file. *)
Moves(r) ==
    /\ call[r] # Idle /\ UNCHANGED <<rows, disk, written>>
    /\ \/ Refuse(r)
       \/ \E p \in Places : /\ call[r].at \in {"validating", "checking"}
                            /\ Goto(r, p) /\ UNCHANGED failedUpdates
                            /\ p # "deleting" /\ (call[r].update => p # "saving")

LEMMA StepKinds ==
    ASSUME Constants, TypeInv, Next
    PROVE  \/ \E r \in Requests, i \in Ids : Begins(r, i)
           \/ \E r \in Requests : Moves(r) \/ uploadImage(r) \/ deleteFile(r) \/ save(r)
           \/ \E i \in Ids : deleteRow(i)
<1> USE DEF Constants, IdsAssumption, NoFileAssumption, Ids
<1>1. ASSUME NEW r \in Requests, NEW i \in Ids, NEW update \in BOOLEAN, NEW data, NEW brings \in BOOLEAN,
             NEW place \in Places \ {"deleting", "saving"},
             Start(r, place, update, i, data, brings), update <=> Exists(i),
             data \in IF i \in Chains THEN CreateBlockChainDto ELSE CreatePaymentTokenDto
      PROVE  Begins(r, i)
  <2> DEFINE c == [at |-> place, update |-> update, id |-> i, data |-> data,
                   seen |-> IF update THEN rows[i].logo ELSE NoFile,
                   brings |-> brings, file |-> NoFile]
  <2>1. c.seen \in Logo
    BY <1>1 DEF TypeInv, TypeOK, Exists, Blockchain, PaymentToken, Logo
  <2>2. c \in Call
    BY <1>1, <2>1 DEF Call, Payload, Places, Logo
  <2> QED BY <1>1, <2>2 DEF Begins, Start, Places
<1>2. ASSUME NEW r \in Requests, NEW i \in Chains, NEW data \in CreateBlockChainDto, NEW brings \in BOOLEAN,
             createBlockchain(r, i, data, brings) \/ updateBlockchain(r, i, data, brings)
      PROVE  Begins(r, i)
  BY <1>1, <1>2 DEF createBlockchain, updateBlockchain, New, Exists, Places
<1>3. ASSUME NEW r \in Requests, NEW i \in Tokens, NEW data \in CreatePaymentTokenDto, NEW brings \in BOOLEAN,
             createPaymentToken(r, i, data, brings) \/ updatePaymentToken(r, i, data, brings)
      PROVE  Begins(r, i)
  BY <1>1, <1>3 DEF createPaymentToken, updatePaymentToken, New, Exists, Places
<1>4. ASSUME NEW r \in Requests, unique(r) \/ getBlockchainByNetwork(r) \/ checkTokenAddress(r) \/ loseCall(r)
      PROVE  Moves(r)
  BY <1>4 DEF unique, getBlockchainByNetwork, checkTokenAddress, loseCall, Moves, At, Places
<1> QED BY <1>2, <1>3, <1>4 DEF Next, Serve, ServeBlockchains, ServeTokens, Continue

--------------------------------------------------------------------------------
(* The types.                                                              *)

LEMMA InitTypes == Constants /\ Init => TypeInv
BY DEF Constants, Init, TypeInv, TypeOK, CallsFitTheirTable, Ids, IdsAssumption

(* What a call becomes keeps the types if it is a call of its table.        *)
LEMMA CallStep ==
    ASSUME TypeInv, NEW r \in Requests, NEW c \in Call \cup {Idle}, call' = [call EXCEPT ![r] = c],
           c # Idle => /\ c.id \in Chains => c.data \in CreateBlockChainDto
                       /\ c.id \in Tokens => c.data \in CreatePaymentTokenDto
                       /\ ~c.update => c.seen = NoFile
                       /\ c.at = "deleting" => c.update
    PROVE  CallsFitTheirTable' /\ call' \in [Requests -> Call \cup {Idle}]
BY DEF TypeInv, TypeOK, CallsFitTheirTable

LEMMA NextTypes == Constants /\ TypeInv /\ [Next]_vars => TypeInv'
<1> SUFFICES ASSUME Constants, TypeInv, [Next]_vars PROVE TypeInv'
  OBVIOUS
<1> USE DEF Constants, IdsAssumption, NoFileAssumption
<1>0. \A r \in Requests : call[r] # Idle => call[r] \in Call /\ call[r].id \in Ids
  BY DEF TypeInv, TypeOK, Call
<1>1. ASSUME NEW r \in Requests, NEW i \in Ids, Begins(r, i) PROVE TypeInv'
  <2>1. PICK c \in Call : /\ call' = [call EXCEPT ![r] = c]
                          /\ c.id = i
                          /\ c.at # "deleting"
                          /\ c.seen = IF c.update THEN rows[i].logo ELSE NoFile
                          /\ c.data \in IF i \in Chains THEN CreateBlockChainDto
                                                        ELSE CreatePaymentTokenDto
    BY <1>1 DEF Begins
  <2>2. CallsFitTheirTable' /\ call' \in [Requests -> Call \cup {Idle}]
    BY <2>1, CallStep DEF Ids
  <2> QED BY <1>1, <2>2 DEF Begins, TypeInv, TypeOK
<1>2. ASSUME NEW r \in Requests, call[r] # Idle, Refuse(r) \/ Answer(r)
      PROVE  /\ CallsFitTheirTable' /\ call' \in [Requests -> Call \cup {Idle}]
             /\ failedUpdates' \subseteq Ids
  <2>1. call' = [call EXCEPT ![r] = Idle]
    BY <1>2 DEF Refuse, Answer
  <2> QED BY <1>0, <1>2, <2>1, CallStep DEF Refuse, Answer, TypeInv, TypeOK
<1>3. ASSUME NEW r \in Requests, NEW p \in Places, call[r] # Idle, Goto(r, p),
             p = "deleting" => call[r].update
      PROVE  CallsFitTheirTable' /\ call' \in [Requests -> Call \cup {Idle}]
  <2>1. PICK c \in Call : c = [call[r] EXCEPT !.at = p]
    BY <1>0, <1>3 DEF Call, Places
  <2>2. /\ call' = [call EXCEPT ![r] = c] /\ c.id = call[r].id /\ c.data = call[r].data
        /\ c.update = call[r].update /\ c.seen = call[r].seen /\ c.at = p
    BY <1>0, <1>3, <2>1 DEF Goto, Call
  <2> QED BY <1>3, <2>2, CallStep DEF TypeInv, CallsFitTheirTable
<1>4. ASSUME NEW r \in Requests, Moves(r) PROVE TypeInv'
  <2>1. CallsFitTheirTable' /\ call' \in [Requests -> Call \cup {Idle}] /\ failedUpdates' \subseteq Ids
    <3>1. CASE Refuse(r)
      BY <1>2, <1>4, <3>1 DEF Moves
    <3>2. CASE \E p \in Places : Goto(r, p) /\ UNCHANGED failedUpdates /\ p # "deleting"
      BY <1>3, <1>4, <3>2 DEF Moves, TypeInv, TypeOK
    <3> QED BY <1>4, <3>1, <3>2 DEF Moves
  <2> QED BY <1>4, <2>1 DEF Moves, TypeInv, TypeOK
<1>5. ASSUME NEW r \in Requests, uploadImage(r) PROVE TypeInv'
  <2>1. CASE Refuse(r) /\ UNCHANGED <<disk, written, rows>>
    BY <1>2, <1>5, <2>1 DEF uploadImage, At, TypeInv, TypeOK
  <2>2. CASE ~(Refuse(r) /\ UNCHANGED <<disk, written, rows>>)
    <3>1. PICK f \in Logo :
             /\ f \notin written
             /\ disk' = disk \cup ({f} \ {NoFile}) /\ written' = written \cup ({f} \ {NoFile})
             /\ call' = [call EXCEPT ![r].at = AfterUpload(call[r]), ![r].file = f]
             /\ UNCHANGED <<failedUpdates, rows>>
      BY <1>5, <2>2 DEF uploadImage, Logo, TypeInv, TypeOK
    <3>2. PICK c \in Call : c = [call[r] EXCEPT !.at = AfterUpload(call[r]), !.file = f]
      BY <1>0, <1>5, <3>1 DEF uploadImage, At, Call, AfterUpload
    <3>3. /\ call' = [call EXCEPT ![r] = c] /\ c.id = call[r].id /\ c.data = call[r].data
          /\ c.update = call[r].update /\ c.seen = call[r].seen /\ (c.at = "deleting" => c.update)
      BY <1>0, <1>5, <3>1, <3>2 DEF uploadImage, At, Call, AfterUpload, TypeInv, TypeOK
    <3>4. CallsFitTheirTable' /\ call' \in [Requests -> Call \cup {Idle}]
      BY <1>5, <3>3, CallStep DEF uploadImage, At, TypeInv, CallsFitTheirTable
    <3>5. disk' \subseteq written' /\ written' \subseteq Files
      BY <3>1 DEF Logo, TypeInv, TypeOK
    <3> QED BY <3>1, <3>4, <3>5 DEF TypeInv, TypeOK
  <2> QED BY <2>1, <2>2
<1>6. ASSUME NEW r \in Requests, deleteFile(r) PROVE TypeInv'
  <2>1. call[r] # Idle /\ UNCHANGED <<rows, written>> /\ disk' \subseteq disk
        /\ ((Goto(r, "saving") /\ UNCHANGED failedUpdates) \/ Refuse(r))
    BY <1>6 DEF deleteFile, At
  <2>2. CallsFitTheirTable' /\ call' \in [Requests -> Call \cup {Idle}] /\ failedUpdates' \subseteq Ids
    BY <1>2, <1>3, <2>1 DEF Places, TypeInv, TypeOK
  <2> QED BY <2>1, <2>2 DEF TypeInv, TypeOK
<1>7. ASSUME NEW r \in Requests, save(r) PROVE TypeInv'
  <2>1. call[r] # Idle /\ UNCHANGED <<disk, written>> /\ (Answer(r) \/ Refuse(r))
    BY <1>7 DEF save, At
  <2>2. CallsFitTheirTable' /\ call' \in [Requests -> Call \cup {Idle}] /\ failedUpdates' \subseteq Ids
    BY <1>2, <2>1
  <2>3. CASE UNCHANGED rows
    BY <2>1, <2>2, <2>3 DEF TypeInv, TypeOK
  <2>4. CASE rows' # rows
    <3>1. PICK c \in Call : c = call[r]
      BY <1>0, <2>1
    <3>2. Savable(c) /\ rows' = [rows EXCEPT ![c.id] = IF c.id \in Chains THEN savedBlockchain(c)
                                                                          ELSE savedPaymentToken(c)]
      BY <1>7, <2>4, <3>1 DEF save
    <3>3. c.id \in Ids /\ c.seen \in Logo /\ c.file \in Logo
      BY <3>1 DEF Call
    <3>4. c.id \in Chains => savedBlockchain(c) \in Blockchain
      <4>1. c.id \in Chains => /\ c.data.network_name \in Names
                               /\ c.data.slug \in DOMAIN BlockchainSlugMapping
        BY <2>1, <3>1, <3>2 DEF TypeInv, CallsFitTheirTable, CreateBlockChainDto, Savable
      <4>2. \A s \in DOMAIN BlockchainSlugMapping : BlockchainSlugMapping[s] \in Nat
        BY DEF BlockchainSlugMapping
      <4> QED BY <3>3, <4>1, <4>2 DEF savedBlockchain, Blockchain
    <3>5. c.id \notin Chains => savedPaymentToken(c) \in PaymentToken
      BY <2>1, <3>1, <3>3 DEF TypeInv, CallsFitTheirTable, CreatePaymentTokenDto, Ids, savedPaymentToken, PaymentToken
    <3>6. /\ rows' \in [Ids -> Blockchain \cup PaymentToken \cup {NoRow, Gone}]
          /\ \A d \in Chains : rows'[d] \in Blockchain \cup {NoRow, Gone}
          /\ \A t \in Tokens : rows'[t] \in PaymentToken \cup {NoRow, Gone}
      BY <3>2, <3>3, <3>4, <3>5 DEF TypeInv, TypeOK, Ids
    <3> QED BY <2>1, <2>2, <3>6 DEF TypeInv, TypeOK
  <2> QED BY <2>3, <2>4
<1>8. ASSUME NEW i \in Ids, deleteRow(i) PROVE TypeInv'
  BY <1>8 DEF deleteRow, TypeInv, TypeOK, CallsFitTheirTable, Ids
<1>9. CASE UNCHANGED vars
  BY <1>9 DEF vars, TypeInv, TypeOK, CallsFitTheirTable
<1> QED BY <1>1, <1>4, <1>5, <1>6, <1>7, <1>8, <1>9, StepKinds

(* Rows and calls keep their types. *)
THEOREM TypeCorrect == ASSUME Constants PROVE Spec => []TypeOK
<1>1. Init => TypeInv
  BY InitTypes
<1>2. TypeInv /\ [Next]_vars => TypeInv'
  BY NextTypes
<1>3. TypeInv => TypeOK
  BY DEF TypeInv
<1> QED BY <1>1, <1>2, <1>3, PTL DEF Spec

--------------------------------------------------------------------------------
(* Keys and references.  A row's chain_id is always that of its slug, no    *)
(* two slugs have the same, and no two rows have one slug.                 *)

ChainsInv ==
    /\ \A c \in Chains : Exists(c) => rows[c].chain_id = BlockchainSlugMapping[rows[c].slug]
    /\ \A c, d \in Chains : c # d /\ Exists(c) /\ Exists(d) => rows[c].slug # rows[d].slug


LEMMA SlugsDetermine ==
    \A s, u \in DOMAIN BlockchainSlugMapping :
        BlockchainSlugMapping[s] = BlockchainSlugMapping[u] => s = u
BY DEF BlockchainSlugMapping

LEMMA SlugsOfRows == TypeInv => \A c \in Chains : Exists(c) => rows[c].slug \in DOMAIN BlockchainSlugMapping
BY DEF TypeInv, TypeOK, Exists, Blockchain

(* What a call that saves its row has found out.                           *)
LEMMA SaveWrites ==
    ASSUME Constants, TypeInv, NEW r \in Requests, save(r), ~(Refuse(r) /\ UNCHANGED rows)
    PROVE  LET c == call[r] IN
           /\ c \in Call /\ c # Idle /\ c.id \in Ids /\ Savable(c) /\ (c.update => Exists(c.id))
           /\ rows' = [rows EXCEPT ![c.id] = IF c.id \in Chains THEN savedBlockchain(c)
                                                              ELSE savedPaymentToken(c)]
           /\ rows'[c.id] \notin {NoRow, Gone}
           /\ c.id \in Chains => rows'[c.id] = savedBlockchain(c)
           /\ c.id \in Tokens => rows'[c.id] = savedPaymentToken(c)
           /\ \A i \in Ids : i # c.id => rows'[i] = rows[i]
           /\ call' = [call EXCEPT ![r] = Idle] /\ UNCHANGED <<disk, written, failedUpdates>>
<1> DEFINE c == call[r]
<1> USE DEF Constants, IdsAssumption, RowAssumption
<1>1. c \in Call /\ c # Idle /\ c.id \in Ids
  BY DEF save, At, TypeInv, TypeOK, Call
<1>2. /\ Savable(c) /\ (c.update => Exists(c.id)) /\ Answer(r) /\ UNCHANGED <<disk, written>>
      /\ rows' = [rows EXCEPT ![c.id] = IF c.id \in Chains THEN savedBlockchain(c)
                                                         ELSE savedPaymentToken(c)]
  BY DEF save
<1>3. /\ c.id \in Chains => rows'[c.id] = savedBlockchain(c)
      /\ c.id \in Tokens => rows'[c.id] = savedPaymentToken(c)
      /\ \A i \in Ids : i # c.id => rows'[i] = rows[i]
  BY <1>1, <1>2 DEF TypeInv
<1>4. TypeInv'
  BY NextTypes DEF Next, Serve, Continue
<1>5. rows'[c.id] \notin {NoRow, Gone}
  <2>1. c.id \in Chains => savedBlockchain(c) \in Blockchain
    <3>1. c.id \in Chains => c.data.network_name \in Names /\ c.data.slug \in DOMAIN BlockchainSlugMapping
      BY <1>1, <1>2 DEF TypeInv, CallsFitTheirTable, CreateBlockChainDto, Savable
    <3>2. \A s \in DOMAIN BlockchainSlugMapping : BlockchainSlugMapping[s] \in Nat
      BY DEF BlockchainSlugMapping
    <3>3. c.seen \in Logo /\ c.file \in Logo
      BY <1>1 DEF Call
    <3> QED BY <3>1, <3>2, <3>3 DEF savedBlockchain, Blockchain
  <2>2. c.id \in Tokens => savedPaymentToken(c) \in PaymentToken
    <3>1. c.seen \in Logo /\ c.file \in Logo
      BY <1>1 DEF Call
    <3> QED BY <1>1, <3>1 DEF TypeInv, CallsFitTheirTable, CreatePaymentTokenDto,
                              savedPaymentToken, PaymentToken
  <2> QED BY <1>1, <1>3, <2>1, <2>2 DEF Ids
<1> QED BY <1>1, <1>2, <1>3, <1>5 DEF Answer

(* The steps that change the tables.                                       *)
LEMMA RowsChangeBy ==
    ASSUME Constants, TypeInv, [Next]_vars, rows' # rows
    PROVE  (\E r \in Requests : save(r)) \/ (\E i \in Ids : deleteRow(i))
BY StepKinds DEF vars, Begins, Moves, uploadImage, deleteFile

(* A deleted row is gone, the others are as they were.                     *)
LEMMA DeleteRemoves ==
    ASSUME TypeInv, NEW i \in Ids, deleteRow(i)
    PROVE  ~Exists(i)' /\ \A j \in Ids \ {i} : rows'[j] = rows[j] /\ (Exists(j)' <=> Exists(j))
BY DEF deleteRow, TypeInv, Exists

LEMMA ChainsStep == Constants /\ TypeInv /\ ChainsInv /\ [Next]_vars => ChainsInv'
<1> SUFFICES ASSUME Constants, TypeInv, ChainsInv, [Next]_vars PROVE ChainsInv'
  OBVIOUS
<1>1. CASE UNCHANGED rows
  BY <1>1 DEF ChainsInv, Exists
<1>2. ASSUME NEW r \in Requests, save(r), rows' # rows PROVE ChainsInv'
  <2>1. PICK c : c = call[r]
    OBVIOUS
  <2>2. /\ Savable(c) /\ c.id \in Ids
        /\ c.id \in Chains => rows'[c.id] = savedBlockchain(c)
        /\ \A i \in Ids : i # c.id => rows'[i] = rows[i]
    BY <1>2, <2>1, SaveWrites
  <2>3. \A d \in Chains : d # c.id => rows'[d] = rows[d] /\ (Exists(d)' <=> Exists(d))
    BY <2>2 DEF Exists, Ids
  <2>4. c.id \in Chains => /\ rows'[c.id].slug = c.data.slug
                           /\ rows'[c.id].chain_id = BlockchainSlugMapping[c.data.slug]
    BY <2>2 DEF savedBlockchain
  <2>5. \A d \in Chains : c.id \in Chains /\ d # c.id /\ Exists(d) => rows[d].slug # c.data.slug
    BY <2>2 DEF Savable, SlugTaken, OtherChains
  <2> QED BY <2>3, <2>4, <2>5 DEF ChainsInv
<1>3. ASSUME NEW i \in Ids, deleteRow(i) PROVE ChainsInv'
  <2>1. \A d \in Chains : Exists(d)' => Exists(d) /\ rows'[d] = rows[d]
    BY <1>3, DeleteRemoves DEF Ids
  <2> QED BY <2>1 DEF ChainsInv
<1> QED BY <1>1, <1>2, <1>3, RowsChangeBy

LEMMA RefsStep == Constants /\ TypeInv /\ TokensHaveTheirChain /\ [Next]_vars => TokensHaveTheirChain'
<1> SUFFICES ASSUME Constants, TypeInv, TokensHaveTheirChain, [Next]_vars PROVE TokensHaveTheirChain'
  OBVIOUS
<1>1. CASE UNCHANGED rows
  BY <1>1 DEF TokensHaveTheirChain, Exists
<1>2. \A t \in Tokens : Exists(t) => rows[t].blockchain_id \in Chains
  BY DEF TypeInv, TypeOK, Exists, PaymentToken
<1>3. ASSUME NEW r \in Requests, save(r), rows' # rows PROVE TokensHaveTheirChain'
  <2>1. PICK c : c = call[r]
    OBVIOUS
  <2>2. /\ Savable(c) /\ c.id \in Ids /\ rows'[c.id] \notin {NoRow, Gone}
        /\ c.id \in Tokens => rows'[c.id] = savedPaymentToken(c)
        /\ \A i \in Ids : i # c.id => rows'[i] = rows[i]
    BY <1>3, <2>1, SaveWrites
  <2>3. \A i \in Ids : Exists(i) => Exists(i)'
    BY <2>2 DEF Exists
  <2>4. c.id \in Tokens => /\ rows'[c.id].blockchain_id = c.data.blockchain_id
                           /\ Exists(c.data.blockchain_id) /\ c.data.blockchain_id \in Ids
    <3>1. c.id \in Tokens => c.data \in CreatePaymentTokenDto
      BY <1>3, <2>1, SaveWrites DEF TypeInv, CallsFitTheirTable
    <3>2. c.id \in Tokens => c.id \notin Chains
      BY DEF Constants, IdsAssumption
    <3> QED BY <2>2, <3>1, <3>2 DEF savedPaymentToken, Savable, CreatePaymentTokenDto, Ids
  <2>5. \A t \in Tokens : t # c.id => rows'[t] = rows[t] /\ (Exists(t)' <=> Exists(t))
    BY <2>2 DEF Exists, Ids
  <2> QED
    <3> SUFFICES ASSUME NEW t \in Tokens, Exists(t)' PROVE Exists(rows[t].blockchain_id)'
      BY DEF TokensHaveTheirChain
    <3>1. CASE t = c.id
      BY <2>3, <2>4, <3>1 DEF Exists
    <3>2. CASE t # c.id
      <4>1. Exists(rows[t].blockchain_id) /\ rows[t].blockchain_id \in Ids
        BY <1>2, <2>5, <3>2 DEF TokensHaveTheirChain, Ids
      <4> QED BY <2>3, <2>5, <3>2, <4>1 DEF Exists
    <3> QED BY <3>1, <3>2
<1>4. ASSUME NEW i \in Ids, deleteRow(i) PROVE TokensHaveTheirChain'
  <2> SUFFICES ASSUME NEW t \in Tokens, Exists(t)' PROVE Exists(rows[t].blockchain_id)'
    BY DEF TokensHaveTheirChain
  <2>1. t # i /\ Exists(t) /\ rows'[t] = rows[t]
    BY <1>4, DeleteRemoves DEF Ids
  <2>2. PICK c \in Chains : c = rows[t].blockchain_id
    BY <1>2, <2>1
  <2>3. Exists(c) /\ c # i
    BY <1>4, <2>1, <2>2 DEF TokensHaveTheirChain, deleteRow, OtherTokens
  <2>4. rows'[c] = rows[c]
    BY <1>4, <2>3, DeleteRemoves DEF Ids
  <2> QED BY <2>1, <2>2, <2>3, <2>4 DEF Exists
<1> QED BY <1>1, <1>3, <1>4, RowsChangeBy

(* No two blockchains have one chain_id.                                   *)
LEMMA ChainsDiffer == TypeInv /\ ChainsInv => OneRowPerChain
BY SlugsDetermine, SlugsOfRows DEF ChainsInv, OneRowPerChain

LEMMA InitKeys == Init => ChainsInv /\ TokensHaveTheirChain
BY DEF Init, ChainsInv, TokensHaveTheirChain, Exists, Ids

(* However creations, renamings, deletions and lost calls overlap, no two   *)
(* blockchains have the same chain_id, by which findFirst looks them up.   *)
THEOREM OneChainEach == ASSUME Constants PROVE Spec => []OneRowPerChain
<1>1. Init => TypeInv /\ ChainsInv
  BY InitTypes, InitKeys
<1>2. TypeInv /\ ChainsInv /\ [Next]_vars => TypeInv' /\ ChainsInv'
  BY NextTypes, ChainsStep
<1>3. TypeInv /\ ChainsInv => OneRowPerChain
  BY ChainsDiffer
<1> QED BY <1>1, <1>2, <1>3, PTL DEF Spec

(* A token's blockchain exists, however deletions and updates overlap.     *)
THEOREM ChainsOfTokens == ASSUME Constants PROVE Spec => []TokensHaveTheirChain
<1>1. Init => TypeInv /\ TokensHaveTheirChain
  BY InitTypes, InitKeys
<1>2. TypeInv /\ TokensHaveTheirChain /\ [Next]_vars => TypeInv' /\ TokensHaveTheirChain'
  BY NextTypes, RefsStep
<1> QED BY <1>1, <1>2, PTL DEF Spec

--------------------------------------------------------------------------------
(* Logos.  A file is named by one row and the calls on that row, or by      *)
(* nobody, so a call deletes no logo of another row.                       *)

HasNamed(i, f) ==
    \/ Exists(i) /\ rows[i].logo = f
    \/ \E r \in Requests : call[r] # Idle /\ call[r].id = i /\ f \in {call[r].seen, call[r].file}

FilesInv ==
    /\ \A i \in Ids, f \in Files : HasNamed(i, f) => f \in written
    /\ \A i, j \in Ids, f \in Files : HasNamed(i, f) /\ HasNamed(j, f) => i = j

LEMMA InitFiles == Init => FilesInv
BY DEF Init, FilesInv, HasNamed, Exists

(* A call slot that changes: the other calls are as they were.              *)
LEMMA OtherCalls ==
    ASSUME TypeInv, NEW r \in Requests, NEW c, call' = [call EXCEPT ![r] = c]
    PROVE  call'[r] = c /\ \A q \in Requests : q # r => call'[q] = call[q]
BY DEF TypeInv, TypeOK

(* What a move leaves of its call.                                         *)
LEMMA MoveKeeps ==
    ASSUME TypeInv, NEW r \in Requests, call[r] # Idle,
           Refuse(r) \/ Answer(r) \/ \E p \in Places : Goto(r, p)
    PROVE  /\ \A q \in Requests : q # r => call'[q] = call[q]
           /\ call'[r] # Idle => /\ call'[r].id = call[r].id /\ call'[r].seen = call[r].seen
                                 /\ call'[r].file = call[r].file /\ call'[r].update = call[r].update
<1>1. call[r] \in Call
  BY DEF TypeInv, TypeOK
<1>2. CASE Refuse(r) \/ Answer(r)
  BY <1>2 DEF TypeInv, TypeOK, Refuse, Answer
<1>3. ASSUME NEW p \in Places, Goto(r, p)
      PROVE  /\ \A q \in Requests : q # r => call'[q] = call[q]
             /\ call'[r] # Idle => /\ call'[r].id = call[r].id /\ call'[r].seen = call[r].seen
                                   /\ call'[r].file = call[r].file /\ call'[r].update = call[r].update
  <2>1. call'[r] = [call[r] EXCEPT !.at = p] /\ \A q \in Requests : q # r => call'[q] = call[q]
    BY <1>3 DEF TypeInv, TypeOK, Goto
  <2> QED BY <1>1, <2>1 DEF Call
<1> QED BY <1>2, <1>3

(* An upload that succeeds.                                                *)
LEMMA UploadBrings ==
    ASSUME Constants, TypeInv, NEW r \in Requests, uploadImage(r), ~(Refuse(r) /\ UNCHANGED <<disk, written>>)
    PROVE  /\ call[r] # Idle /\ call[r].at = "uploading" /\ UNCHANGED <<rows, failedUpdates>>
           /\ \E f \in Logo : /\ f \notin written /\ (f = NoFile \/ f \in Files)
                              /\ disk' = disk \cup ({f} \ {NoFile})
                              /\ written' = written \cup ({f} \ {NoFile})
                              /\ call'[r].file = f
           /\ call'[r].id = call[r].id /\ call'[r].seen = call[r].seen
           /\ call'[r].update = call[r].update /\ call'[r].at = AfterUpload(call[r])
           /\ \A q \in Requests : q # r => call'[q] = call[q]
<1>1. call[r] \in Call /\ call[r] # Idle /\ call[r].at = "uploading" /\ UNCHANGED <<rows, failedUpdates>>
  BY DEF uploadImage, At, TypeInv, TypeOK
<1>2. PICK f \in IF call[r].brings THEN Files \ written ELSE {NoFile} :
         /\ disk' = disk \cup ({f} \ {NoFile}) /\ written' = written \cup ({f} \ {NoFile})
         /\ call' = [call EXCEPT ![r].at = AfterUpload(call[r]), ![r].file = f]
  BY DEF uploadImage
<1>3. f \in Logo /\ f \notin written /\ (f = NoFile \/ f \in Files)
  BY <1>2 DEF Logo, Constants, NoFileAssumption, TypeInv, TypeOK
<1>4. call'[r] = [call[r] EXCEPT !.at = AfterUpload(call[r]), !.file = f]
      /\ \A q \in Requests : q # r => call'[q] = call[q]
  BY <1>2 DEF TypeInv, TypeOK
<1>5. /\ call'[r].file = f /\ call'[r].id = call[r].id /\ call'[r].seen = call[r].seen
      /\ call'[r].update = call[r].update /\ call'[r].at = AfterUpload(call[r])
  BY <1>1, <1>4 DEF Call
<1> QED BY <1>1, <1>2, <1>3, <1>4, <1>5

(* A file is named where it was, or is new and named by one id.            *)
LEMMA NamingStep ==
    ASSUME Constants, TypeInv, [Next]_vars
    PROVE  /\ written \subseteq written'
           /\ \A i \in Ids, f \in Files :
                 HasNamed(i, f)' => HasNamed(i, f) \/ (f \notin written /\ f \in written')
           /\ \A i, j \in Ids, f \in Files : f \notin written /\ HasNamed(i, f)' /\ HasNamed(j, f)'
                 => HasNamed(i, f) \/ HasNamed(j, f) \/ i = j
<1> USE DEF Constants, NoFileAssumption
<1> DEFINE Kept == written \subseteq written' /\ \A i \in Ids, f \in Files : HasNamed(i, f)' => HasNamed(i, f)
<1>1. Kept => /\ \A i \in Ids, f \in Files :
                    HasNamed(i, f)' => HasNamed(i, f) \/ (f \notin written /\ f \in written')
              /\ \A i, j \in Ids, f \in Files : f \notin written /\ HasNamed(i, f)' /\ HasNamed(j, f)'
                    => HasNamed(i, f) \/ HasNamed(j, f) \/ i = j
  OBVIOUS
<1>2. ASSUME NEW r \in Requests, NEW k \in Ids, Begins(r, k) PROVE Kept
  <2>1. PICK c \in Call : /\ call' = [call EXCEPT ![r] = c] /\ c.id = k /\ c.file = NoFile
                          /\ c.seen = IF c.update THEN rows[k].logo ELSE NoFile
                          /\ c.update <=> Exists(k)
    BY <1>2 DEF Begins
  <2>2. call'[r] = c /\ \A q \in Requests : q # r => call'[q] = call[q]
    BY <2>1, OtherCalls
  <2>3. \A i \in Ids : Exists(i)' <=> Exists(i)
    BY <1>2 DEF Begins, Exists
  <2> QED BY <1>2, <2>1, <2>2, <2>3 DEF Begins, HasNamed
<1>3. ASSUME NEW r \in Requests, Moves(r) \/ deleteFile(r) PROVE Kept
  <2>1. /\ call[r] # Idle /\ UNCHANGED <<rows, written>>
        /\ Refuse(r) \/ \E p \in Places : Goto(r, p)
    BY <1>3 DEF Moves, deleteFile, At, Places
  <2>2. /\ \A q \in Requests : q # r => call'[q] = call[q]
        /\ call'[r] # Idle => /\ call'[r].id = call[r].id /\ call'[r].seen = call[r].seen
                              /\ call'[r].file = call[r].file
    BY <2>1, MoveKeeps
  <2> QED BY <2>1, <2>2 DEF HasNamed, Exists
<1>4. ASSUME NEW r \in Requests, uploadImage(r), Refuse(r) /\ UNCHANGED <<disk, written>> PROVE Kept
  <2>1. call[r] # Idle /\ UNCHANGED rows
    BY <1>4 DEF uploadImage, At
  <2>2. /\ \A q \in Requests : q # r => call'[q] = call[q]
        /\ call'[r] # Idle => /\ call'[r].id = call[r].id /\ call'[r].seen = call[r].seen
                              /\ call'[r].file = call[r].file
    BY <1>4, <2>1, MoveKeeps
  <2> QED BY <1>4, <2>1, <2>2 DEF HasNamed, Exists
<1>5. ASSUME NEW r \in Requests, save(r), rows' # rows PROVE Kept
  <2>1. PICK c \in Call : c = call[r]
    BY <1>5, SaveWrites
  <2>2. /\ c # Idle /\ c.id \in Ids /\ UNCHANGED written
        /\ rows'[c.id].logo = IF c.file = NoFile THEN c.seen ELSE c.file
        /\ \A i \in Ids : i # c.id => rows'[i] = rows[i]
        /\ call' = [call EXCEPT ![r] = Idle]
    <3>1. /\ c # Idle /\ c.id \in Ids /\ UNCHANGED written
          /\ rows'[c.id] \in {savedBlockchain(c), savedPaymentToken(c)}
          /\ \A i \in Ids : i # c.id => rows'[i] = rows[i]
          /\ call' = [call EXCEPT ![r] = Idle]
      BY <1>5, <2>1, SaveWrites DEF Ids
    <3> QED BY <3>1 DEF savedBlockchain, savedPaymentToken
  <2>3. call'[r] = Idle /\ \A q \in Requests : q # r => call'[q] = call[q]
    BY <2>2, OtherCalls
  <2>4. \A f \in Files : rows'[c.id].logo = f => HasNamed(c.id, f)
    BY <2>1, <2>2 DEF HasNamed
  <2> QED BY <2>2, <2>3, <2>4 DEF HasNamed, Exists
<1>6. ASSUME NEW r \in Requests, save(r), rows' = rows PROVE Kept
  <2>1. call[r] # Idle /\ (Refuse(r) \/ Answer(r)) /\ UNCHANGED written
    BY <1>6 DEF save, At
  <2>2. /\ \A q \in Requests : q # r => call'[q] = call[q]
        /\ call'[r] # Idle => /\ call'[r].id = call[r].id /\ call'[r].seen = call[r].seen
                              /\ call'[r].file = call[r].file
    BY <2>1, MoveKeeps
  <2> QED BY <1>6, <2>1, <2>2 DEF HasNamed, Exists
<1>7. ASSUME NEW k \in Ids, deleteRow(k) PROVE Kept
  <2>1. ~Exists(k)' /\ (\A j \in Ids \ {k} : rows'[j] = rows[j] /\ (Exists(j)' <=> Exists(j)))
    BY <1>7, DeleteRemoves
  <2> QED BY <1>7, <2>1 DEF HasNamed, deleteRow
<1>8. CASE UNCHANGED vars
  <2>1. Kept
    BY <1>8 DEF vars, HasNamed, Exists
  <2> QED BY <1>1, <2>1
<1>9. ASSUME NEW r \in Requests, uploadImage(r), ~(Refuse(r) /\ UNCHANGED <<disk, written>>)
      PROVE  /\ written \subseteq written'
             /\ \A i \in Ids, f \in Files :
                   HasNamed(i, f)' => HasNamed(i, f) \/ (f \notin written /\ f \in written')
             /\ \A i, j \in Ids, f \in Files : f \notin written /\ HasNamed(i, f)' /\ HasNamed(j, f)'
                   => HasNamed(i, f) \/ HasNamed(j, f) \/ i = j
  <2>1. PICK g \in Logo : g \notin written /\ written' = written \cup ({g} \ {NoFile}) /\ call'[r].file = g
    BY <1>9, UploadBrings
  <2>2. /\ call[r] # Idle /\ UNCHANGED rows
        /\ call'[r].id = call[r].id /\ call'[r].seen = call[r].seen
        /\ \A q \in Requests : q # r => call'[q] = call[q]
    BY <1>9, UploadBrings
  <2>3. \A i \in Ids, f \in Files : HasNamed(i, f)' => HasNamed(i, f) \/ (f = g /\ i = call[r].id)
    BY <2>1, <2>2 DEF HasNamed, Exists
  <2> QED BY <2>1, <2>3
<1> QED BY <1>1, <1>2, <1>3, <1>4, <1>5, <1>6, <1>7, <1>8, <1>9, StepKinds

LEMMA FilesStep == Constants /\ TypeInv /\ FilesInv /\ [Next]_vars => FilesInv'
<1> SUFFICES ASSUME Constants, TypeInv, FilesInv, [Next]_vars PROVE FilesInv'
  OBVIOUS
<1> QED BY NamingStep DEF FilesInv

(* The file a row names goes only by a call on that row.                   *)
LEMMA LogoBreaks ==
    ASSUME Constants, TypeInv, FilesInv, [Next]_vars, NEW i \in Ids, ~Broken(i), Broken(i)'
    PROVE  \E r \in Requests : /\ call[r] # call'[r] /\ call[r].id = i
                              /\ \/ At(r, "deleting") /\ deleteFile(r)
                                 \/ At(r, "saving") /\ save(r) /\ rows' # rows
<1> USE DEF Constants, NoFileAssumption
<1>1. ASSUME UNCHANGED rows, disk \subseteq disk' PROVE FALSE
  BY <1>1 DEF Broken, Exists
<1>2. ASSUME NEW r \in Requests, deleteFile(r)
      PROVE  call[r] # call'[r] /\ call[r].id = i /\ At(r, "deleting")
  <2>1. At(r, "deleting") /\ UNCHANGED rows /\ (Goto(r, "saving") \/ Refuse(r)) /\ call[r].id \in Ids
    BY <1>2 DEF deleteFile, At, TypeInv, TypeOK, Call
  <2>2. call[r] # call'[r]
    <3>1. call'[r] = Idle \/ call'[r].at = "saving"
      BY <2>1 DEF Goto, Refuse, At, TypeInv, TypeOK, Call
    <3> QED BY <2>1, <3>1 DEF At
  <2>3. rows[i].logo \in disk \cup {NoFile} /\ Exists(i) /\ rows[i].logo \notin disk' \cup {NoFile}
    BY <2>1 DEF Broken, Exists
  <2>4. call[r].seen = rows[i].logo /\ rows[i].logo \in Files
    <3>1. disk' = disk \ IF call[r].file = NoFile THEN {} ELSE {call[r].seen} \ {NoFile}
      BY <1>2 DEF deleteFile
    <3> QED BY <2>3, <3>1 DEF TypeInv, TypeOK
  <2>5. HasNamed(i, rows[i].logo) /\ HasNamed(call[r].id, rows[i].logo)
    BY <2>1, <2>3, <2>4 DEF HasNamed, At
  <2> QED BY <2>1, <2>2, <2>4, <2>5 DEF FilesInv
<1>3. ASSUME NEW r \in Requests, save(r)
      PROVE  call[r] # call'[r] /\ call[r].id = i /\ At(r, "saving") /\ rows' # rows
  <2>1. At(r, "saving") /\ UNCHANGED disk
    BY <1>3 DEF save
  <2>2. rows' # rows
    BY <1>1, <2>1
  <2>3. /\ call'[r] = Idle
        /\ i # call[r].id => rows'[i] = rows[i]
    BY <1>3, <2>2, SaveWrites DEF TypeInv, TypeOK
  <2> QED BY <2>1, <2>2, <2>3 DEF At, Broken, Exists
<1>4. ASSUME NEW k \in Ids, deleteRow(k) PROVE FALSE
  <2>1. UNCHANGED disk
    BY <1>4 DEF deleteRow
  <2>2. k # i => rows'[i] = rows[i] /\ (Exists(i)' <=> Exists(i))
    BY <1>4, DeleteRemoves
  <2>3. k # i
    BY <1>4, DeleteRemoves DEF Broken
  <2> QED BY <2>1, <2>2, <2>3 DEF Broken
<1>5. ASSUME NEW r \in Requests, uploadImage(r) PROVE FALSE
  BY <1>1, <1>5 DEF uploadImage
<1>6. ASSUME NEW r \in Requests, Moves(r) \/ \E k \in Ids : Begins(r, k) PROVE FALSE
  BY <1>1, <1>6 DEF Moves, Begins
<1>7. ASSUME UNCHANGED vars PROVE FALSE
  BY <1>1, <1>7 DEF vars
<1>8. Next
  BY <1>7
<1>9. PICK r \in Requests : deleteFile(r) \/ save(r)
  BY <1>4, <1>5, <1>6, <1>8, StepKinds
<1> QED BY <1>2, <1>3, <1>9

(* Only calls on a row lose the logo it names, whatever overlaps, fails or  *)
(* stops: no other call has the name of the file.                          *)
THEOREM OwnCallsBreak == ASSUME Constants PROVE Spec => OnlyOwnCallsBreakALogo
<1>1. Init => TypeInv /\ FilesInv
  BY InitTypes, InitFiles
<1>2. TypeInv /\ FilesInv /\ [Next]_vars => TypeInv' /\ FilesInv'
  BY NextTypes, FilesStep
<1>3. TypeInv /\ FilesInv /\ [Next]_vars => [OwnCallBreaksLogo]_vars
  BY LogoBreaks DEF OwnCallBreaksLogo
<1> QED BY <1>1, <1>2, <1>3, PTL DEF Spec, OnlyOwnCallsBreakALogo

(* When calls do not overlap, an update has seen the logo its row names,    *)
(* and what a call has uploaded is on the disk, beside the old logo.       *)
Sole == \A q, r \in Requests : q = r

SoleInv ==
    /\ \A r \in Requests : call[r] # Idle =>
          /\ \A i \in Ids : call[r].update /\ call[r].id = i /\ Exists(i) => rows[i].logo = call[r].seen
          /\ call[r].file \in disk \cup {NoFile}
          /\ call[r].file # NoFile => call[r].file # call[r].seen
          /\ call[r].at \in {"validating", "checking", "uploading"} /\ call[r].update => call[r].file = NoFile
    /\ \A i \in Ids : Broken(i) =>
          \/ i \in failedUpdates
          \/ \E r \in Requests : /\ call[r] # Idle /\ call[r].update /\ call[r].id = i
                                 /\ call[r].at = "saving" /\ call[r].file # NoFile

LEMMA InitSole == Init => SoleInv
BY DEF Init, SoleInv, Broken, Exists

(* An update that ends otherwise than it should is counted as failed.      *)
LEMMA RefusedIsFailed ==
    ASSUME Sole, TypeInv, SoleInv, NEW r \in Requests, call[r] # Idle, Refuse(r), UNCHANGED rows,
           \A i \in Ids : Broken(i)' => Broken(i) \/ (call[r].update /\ call[r].id = i)
    PROVE  SoleInv'
<1>1. call'[r] = Idle /\ failedUpdates \subseteq failedUpdates'
      /\ (call[r].update => call[r].id \in failedUpdates')
  BY DEF Refuse, TypeInv, TypeOK
<1>2. \A q \in Requests : q = r
  BY DEF Sole
<1>3. \A i \in Ids : Broken(i) => i \in failedUpdates \/ (call[r].update /\ call[r].id = i)
  BY <1>2 DEF SoleInv
<1>4. \A i \in Ids : Broken(i)' => i \in failedUpdates'
  BY <1>1, <1>3
<1>5. \A q \in Requests : call'[q] = Idle
  BY <1>1, <1>2
<1> QED BY <1>4, <1>5 DEF SoleInv

LEMMA SoleStep == Constants /\ Sole /\ TypeInv /\ FilesInv /\ SoleInv /\ [Next]_vars => SoleInv'
<1> SUFFICES ASSUME Constants, Sole, TypeInv, FilesInv, SoleInv, [Next]_vars PROVE SoleInv'
  OBVIOUS
<1> USE DEF Constants, NoFileAssumption
<1>1. \A q, r \in Requests : q = r
  BY DEF Sole
<1>2. ASSUME UNCHANGED rows, disk \subseteq disk' PROVE \A i \in Ids : Broken(i)' => Broken(i)
  BY <1>2 DEF Broken, Exists
<1>3. ASSUME NEW r \in Requests, NEW k \in Ids, Begins(r, k) PROVE SoleInv'
  <2>1. PICK c \in Call : /\ call' = [call EXCEPT ![r] = c] /\ c.id = k /\ c.file = NoFile
                          /\ c.seen = IF c.update THEN rows[k].logo ELSE NoFile
                          /\ c.update <=> Exists(k)
    BY <1>3 DEF Begins
  <2>2. call'[r] = c /\ call[r] = Idle /\ UNCHANGED <<rows, disk, failedUpdates>>
    BY <1>3, <2>1, OtherCalls DEF Begins
  <2>3. \A i \in Ids : (Exists(i)' <=> Exists(i)) /\ (Broken(i)' => i \in failedUpdates')
    BY <1>1, <2>2 DEF SoleInv, Broken, Exists
  <2>4. /\ \A i \in Ids : c.update /\ c.id = i /\ Exists(i)' => rows'[i].logo = c.seen
        /\ c.file \in disk' \cup {NoFile}
    BY <2>1, <2>2
  <2> QED BY <1>1, <2>1, <2>2, <2>3, <2>4 DEF SoleInv
<1>4. ASSUME NEW r \in Requests, Moves(r) PROVE SoleInv'
  <2>1. call[r] # Idle /\ UNCHANGED <<rows, disk>>
    BY <1>4 DEF Moves
  <2>2. CASE Refuse(r)
    BY <1>2, <2>1, <2>2, RefusedIsFailed
  <2>3. ASSUME NEW p \in Places, call[r].at \in {"validating", "checking"}, Goto(r, p), UNCHANGED failedUpdates,
               call[r].update => p # "saving"
        PROVE  SoleInv'
    <3>1. /\ call'[r] = [call[r] EXCEPT !.at = p]
      BY <2>3 DEF Goto, TypeInv, TypeOK
    <3>2. /\ call'[r].at = p /\ call'[r].id = call[r].id /\ call'[r].seen = call[r].seen
          /\ call'[r].file = call[r].file /\ call'[r].update = call[r].update
      BY <2>1, <3>1 DEF Call, TypeInv, TypeOK
    <3>3. \A i \in Ids : Broken(i)' => i \in failedUpdates'
      BY <1>1, <1>2, <2>1, <2>3 DEF SoleInv
    <3>4. \A i : Exists(i)' <=> Exists(i)
      BY <2>1 DEF Exists
    <3>5. /\ \A i \in Ids : call'[r].update /\ call'[r].id = i /\ Exists(i)'
                 => rows'[i].logo = call'[r].seen
          /\ call'[r].file \in disk' \cup {NoFile}
          /\ call'[r].file # NoFile => call'[r].file # call'[r].seen
          /\ call'[r].update => call'[r].file = NoFile
      BY <2>1, <2>3, <3>2, <3>4 DEF SoleInv
    <3> QED BY <1>1, <3>3, <3>5 DEF SoleInv
  <2> QED BY <1>4, <2>2, <2>3 DEF Moves
<1>5. ASSUME NEW r \in Requests, uploadImage(r) PROVE SoleInv'
  <2>1. CASE Refuse(r) /\ UNCHANGED <<disk, written>>
    BY <1>2, <1>5, <2>1, RefusedIsFailed DEF uploadImage, At
  <2>2. CASE ~(Refuse(r) /\ UNCHANGED <<disk, written>>)
    <3>1. PICK f \in Logo : /\ f \notin written /\ disk' = disk \cup ({f} \ {NoFile}) /\ call'[r].file = f
      BY <1>5, <2>2, UploadBrings
    <3>2. /\ call[r] # Idle /\ call[r].at = "uploading" /\ UNCHANGED <<rows, failedUpdates>>
          /\ call'[r].id = call[r].id /\ call'[r].seen = call[r].seen
          /\ call'[r].update = call[r].update /\ call'[r].at = AfterUpload(call[r])
      BY <1>5, <2>2, UploadBrings
    <3>3. call[r] \in Call /\ call[r].id \in Ids /\ call[r].seen \in Logo
      BY <3>2 DEF TypeInv, TypeOK, Call
    <3>4. call[r].seen # NoFile => call[r].seen \in written
      <4>1. call[r].seen # NoFile => call[r].seen \in Files /\ HasNamed(call[r].id, call[r].seen)
        BY <3>2, <3>3 DEF HasNamed, Logo
      <4> QED BY <3>3, <4>1 DEF FilesInv
    <3>5. \A i \in Ids : Broken(i)' => i \in failedUpdates'
      BY <1>1, <1>2, <3>1, <3>2 DEF SoleInv
    <3>6. \A i : Exists(i)' <=> Exists(i)
      BY <3>2 DEF Exists
    <3>7. /\ \A i \in Ids : call'[r].update /\ call'[r].id = i /\ Exists(i)'
                 => rows'[i].logo = call'[r].seen
          /\ call'[r].file \in disk' \cup {NoFile}
          /\ call'[r].file # NoFile => call'[r].file # call'[r].seen
          /\ call'[r].update => call'[r].at = "deleting"
      BY <3>1, <3>2, <3>4, <3>6 DEF SoleInv, AfterUpload
    <3> QED BY <1>1, <3>5, <3>7 DEF SoleInv
  <2> QED BY <2>1, <2>2
<1>6. ASSUME NEW r \in Requests, deleteFile(r) PROVE SoleInv'
  <2>1. /\ call[r] # Idle /\ call[r].at = "deleting" /\ call[r].update /\ UNCHANGED rows /\ call[r] \in Call
        /\ (Goto(r, "saving") /\ UNCHANGED failedUpdates) \/ Refuse(r)
        /\ disk' = disk \ IF call[r].file = NoFile THEN {} ELSE {call[r].seen} \ {NoFile}
    BY <1>6 DEF deleteFile, At, TypeInv, TypeOK, CallsFitTheirTable
  <2>2. \A i \in Ids : Broken(i)' => Broken(i) \/ (call[r].id = i /\ call[r].file # NoFile)
    <3>1. \A i \in Ids : Broken(i)' /\ ~Broken(i) => \E q \in Requests : call[q].id = i
      BY LogoBreaks
    <3>2. call[r].file = NoFile => disk' = disk
      BY <2>1
    <3> QED BY <1>1, <1>2, <2>1, <3>1, <3>2
  <2>3. CASE Refuse(r)
    BY <2>1, <2>2, <2>3, RefusedIsFailed
  <2>4. CASE Goto(r, "saving") /\ UNCHANGED failedUpdates
    <3>1. call'[r] = [call[r] EXCEPT !.at = "saving"]
      BY <2>4 DEF Goto, TypeInv, TypeOK
    <3>2. /\ call'[r].at = "saving" /\ call'[r].id = call[r].id /\ call'[r].seen = call[r].seen
          /\ call'[r].file = call[r].file /\ call'[r].update = call[r].update
      BY <2>1, <3>1 DEF Call
    <3>3. \A i \in Ids : Broken(i) => i \in failedUpdates
      BY <1>1, <2>1 DEF SoleInv
    <3>4. call'[r] # Idle
      BY <2>1, <3>1 DEF Call, Constants, IdleAssumption
    <3>5. \A i \in Ids : Broken(i)' => \/ i \in failedUpdates'
                                      \/ /\ call'[r] # Idle /\ call'[r].update /\ call'[r].id = i
                                         /\ call'[r].at = "saving" /\ call'[r].file # NoFile
      BY <2>1, <2>2, <2>4, <3>2, <3>3, <3>4
    <3>6. \A i : Exists(i)' <=> Exists(i)
      BY <2>1 DEF Exists
    <3>7. /\ \A i \in Ids : call'[r].update /\ call'[r].id = i /\ Exists(i)'
                 => rows'[i].logo = call'[r].seen
          /\ call'[r].file \in disk' \cup {NoFile}
          /\ call'[r].file # NoFile => call'[r].file # call'[r].seen
      BY <2>1, <3>2, <3>6 DEF SoleInv
    <3> QED BY <1>1, <3>2, <3>5, <3>7 DEF SoleInv
  <2> QED BY <2>1, <2>3, <2>4
<1>7. ASSUME NEW r \in Requests, save(r) PROVE SoleInv'
  <2>1. call[r] # Idle /\ UNCHANGED disk
    BY <1>7 DEF save, At
  <2>2. CASE Refuse(r) /\ UNCHANGED rows
    BY <1>2, <2>1, <2>2, RefusedIsFailed
  <2>3. CASE ~(Refuse(r) /\ UNCHANGED rows)
    <3>1. PICK c \in Call : c = call[r]
      BY <1>7, <2>3, SaveWrites
    <3>2. /\ c.id \in Ids /\ (c.update => Exists(c.id)) /\ UNCHANGED failedUpdates
          /\ rows'[c.id] \in {savedBlockchain(c), savedPaymentToken(c)}
          /\ \A i \in Ids : i # c.id => rows'[i] = rows[i]
          /\ call' = [call EXCEPT ![r] = Idle]
      BY <1>7, <2>3, <3>1, SaveWrites DEF Ids
    <3>3. rows'[c.id].logo = IF c.file = NoFile THEN c.seen ELSE c.file
      BY <3>2 DEF savedBlockchain, savedPaymentToken
    <3>4. call'[r] = Idle
      BY <3>2, OtherCalls
    <3>5. \A i \in Ids : Broken(i) => i \in failedUpdates \/ (i = c.id /\ c.file # NoFile)
      BY <1>1, <3>1 DEF SoleInv
    <3>6. \A i \in Ids : i # c.id => (Broken(i)' => i \in failedUpdates)
      BY <2>1, <3>2, <3>5 DEF Broken, Exists
    <3>7. Broken(c.id)' => c.file = NoFile /\ Broken(c.id)
      <4>1. c.file # NoFile => c.file \in disk
        BY <2>1, <3>1 DEF SoleInv
      <4>2. ~c.update => c.seen = NoFile
        BY <2>1, <3>1 DEF TypeInv, CallsFitTheirTable
      <4>3. c.update => Exists(c.id) /\ rows[c.id].logo = c.seen
        BY <2>1, <3>1, <3>2 DEF SoleInv
      <4> QED BY <2>1, <3>3, <4>1, <4>2, <4>3 DEF Broken
    <3>8. \A i \in Ids : Broken(i)' => i \in failedUpdates'
      BY <3>2, <3>5, <3>6, <3>7
    <3> QED BY <1>1, <3>4, <3>8 DEF SoleInv
  <2> QED BY <2>2, <2>3
<1>8. ASSUME NEW k \in Ids, deleteRow(k) PROVE SoleInv'
  <2>1. ~Exists(k)' /\ \A j \in Ids \ {k} : rows'[j] = rows[j] /\ (Exists(j)' <=> Exists(j))
    BY <1>8, DeleteRemoves
  <2>2. UNCHANGED <<disk, call, failedUpdates>>
    BY <1>8 DEF deleteRow
  <2>3. \A i \in Ids : Broken(i)' => Broken(i)
    BY <2>1, <2>2 DEF Broken
  <2>5. \A r \in Requests, i \in Ids : call[r] # Idle /\ call[r].update /\ call[r].id = i /\ Exists(i)'
            => rows'[i].logo = call[r].seen
    BY <2>1 DEF SoleInv
  <2> QED BY <2>2, <2>3, <2>5 DEF SoleInv
<1>9. CASE UNCHANGED vars
  BY <1>9 DEF vars, SoleInv, Broken, Exists
<1> QED BY <1>3, <1>4, <1>5, <1>6, <1>7, <1>8, <1>9, StepKinds

LEMMA SoleIsRight == SoleInv => LogoMissingOnlyAfterFailedUpdate
BY DEF SoleInv, LogoMissingOnlyAfterFailedUpdate, Quiet

(* When calls do not overlap, a row names a file that is missing only after *)
(* an update of it was answered by an error or lost.                       *)
THEOREM LogosOneByOne ==
    ASSUME Constants, Sole PROVE Spec => []LogoMissingOnlyAfterFailedUpdate
<1>1. Init => TypeInv /\ FilesInv /\ SoleInv
  BY InitTypes, InitFiles, InitSole
<1>2. TypeInv /\ FilesInv /\ SoleInv /\ [Next]_vars => TypeInv' /\ FilesInv' /\ SoleInv'
  BY NextTypes, FilesStep, SoleStep
<1> QED BY <1>1, <1>2, SoleIsRight, PTL DEF Spec
================================================================================
