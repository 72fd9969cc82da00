--------------------------- MODULE MCCatalogue_proofs ---------------------------
(***************************************************************************)
(* Theorems about blockchains, payment tokens, their lists and the         *)
(* exchange rates side by side.  What concerns rows and logos is proved in *)
(* Catalogue_proofs for every value of its constants; lists and rates are  *)
(* treated here.                                                           *)
(***************************************************************************)
EXTENDS MCCatalogue, Sequences, FiniteSetTheorems, TLAPS

--------------------------------------------------------------------------------
(* Rows: the theorems of Catalogue_proofs for the three instances.         *)

RacesProofs == INSTANCE Catalogue_proofs
    WITH Tokens <- {}, Addresses <- {},
         Slugs <- {"ethereum", "polygon"}, call <- rowCall
ReferencesProofs == INSTANCE Catalogue_proofs
    WITH Chains <- {"chain"}, Names <- {"name"}, Addresses <- Files, Files <- {"file"},
         Slugs <- {"ethereum"}, call <- rowCall
OneByOneProofs == INSTANCE Catalogue_proofs
    WITH Addresses <- {"address"}, Requests <- Alone,
         Slugs <- {"ethereum", "unmapped"}, call <- rowCall

(* Two calls on blockchains.                                               *)
RacesInv ==
    /\ RacesProofs!TypeInv
    /\ RacesProofs!ChainsInv
    /\ RacesProofs!FilesInv

LEMMA RacesConstants == RacesProofs!Constants
BY RowsAssumption
DEF RowsAssumption, RacesProofs!Constants,
       Races!IdsAssumption, Races!NoFileAssumption, Races!RowAssumption,
       Races!IdleAssumption, Races!Blockchain, Races!PaymentToken, Races!Logo,
       Races!Call, Races!Payload, Races!CreateBlockChainDto,
       Races!CreatePaymentTokenDto, Races!BlockchainSlugMapping, Races!Ids,
       RacesProofs!IdsAssumption, RacesProofs!NoFileAssumption,
       RacesProofs!RowAssumption, RacesProofs!IdleAssumption, RacesProofs!Blockchain,
       RacesProofs!PaymentToken, RacesProofs!Logo, RacesProofs!Call,
       RacesProofs!Payload, RacesProofs!CreateBlockChainDto,
       RacesProofs!CreatePaymentTokenDto, RacesProofs!BlockchainSlugMapping,
       RacesProofs!Ids

LEMMA RacesIsProved ==
    /\ Races!Init => RacesProofs!Init
    /\ Races!Next => RacesProofs!Next
    /\ RacesProofs!vars = Races!vars
    /\ RacesProofs!TypeOK => Races!TypeOK
    /\ RacesProofs!OneRowPerChain => Races!OneRowPerChain
    /\ RacesProofs!OwnCallBreaksLogo => Races!OwnCallBreaksLogo
<1>1. Races!Init => RacesProofs!Init
  BY DEF Races!Init, Races!Ids, RacesProofs!Init, RacesProofs!Ids
<1>2. Races!Next => RacesProofs!Next
  <2> USE DEF Races!At, Races!Goto, Races!Answer, Races!Refuse, Races!Exists,
           Races!OtherChains, Races!OtherTokens, Races!NameTaken, Races!SlugTaken,
           Races!AddressTaken, Races!Start, Races!New, Races!AfterUpload,
           Races!savedBlockchain, Races!savedPaymentToken, Races!Savable,
           Races!BlockchainSlugMapping, RacesProofs!At, RacesProofs!Goto,
           RacesProofs!Answer, RacesProofs!Refuse, RacesProofs!Exists,
           RacesProofs!OtherChains, RacesProofs!OtherTokens, RacesProofs!NameTaken,
           RacesProofs!SlugTaken, RacesProofs!AddressTaken, RacesProofs!Start,
           RacesProofs!New, RacesProofs!AfterUpload, RacesProofs!savedBlockchain,
           RacesProofs!savedPaymentToken, RacesProofs!Savable,
           RacesProofs!BlockchainSlugMapping
  <2>1. \A r, i, data, brings : Races!createBlockchain(r, i, data, brings) <=> RacesProofs!createBlockchain(r, i, data, brings)
    BY DEF Races!createBlockchain, RacesProofs!createBlockchain
  <2>2. \A r, i, data, brings : Races!updateBlockchain(r, i, data, brings) <=> RacesProofs!updateBlockchain(r, i, data, brings)
    BY DEF Races!updateBlockchain, RacesProofs!updateBlockchain
  <2>3. \A r, i, data, brings : Races!createPaymentToken(r, i, data, brings) <=> RacesProofs!createPaymentToken(r, i, data, brings)
    BY DEF Races!createPaymentToken, RacesProofs!createPaymentToken
  <2>4. \A r, i, data, brings : Races!updatePaymentToken(r, i, data, brings) <=> RacesProofs!updatePaymentToken(r, i, data, brings)
    BY DEF Races!updatePaymentToken, RacesProofs!updatePaymentToken
  <2>5. \A r : Races!unique(r) <=> RacesProofs!unique(r)
    BY DEF Races!unique, RacesProofs!unique
  <2>6. \A r : Races!getBlockchainByNetwork(r) <=> RacesProofs!getBlockchainByNetwork(r)
    BY DEF Races!getBlockchainByNetwork, RacesProofs!getBlockchainByNetwork
  <2>7. \A r : Races!checkTokenAddress(r) <=> RacesProofs!checkTokenAddress(r)
    BY DEF Races!checkTokenAddress, RacesProofs!checkTokenAddress
  <2>8. \A r : Races!uploadImage(r) <=> RacesProofs!uploadImage(r)
    BY DEF Races!uploadImage, RacesProofs!uploadImage
  <2>9. \A r : Races!deleteFile(r) <=> RacesProofs!deleteFile(r)
    BY DEF Races!deleteFile, RacesProofs!deleteFile
  <2>10. \A r : Races!loseCall(r) <=> RacesProofs!loseCall(r)
    BY DEF Races!loseCall, RacesProofs!loseCall
  <2>11. \A r : Races!save(r) <=> RacesProofs!save(r)
    BY DEF Races!save, RacesProofs!save
  <2>12. \A i : Races!deleteRow(i) <=> RacesProofs!deleteRow(i)
    BY DEF Races!deleteRow, RacesProofs!deleteRow
  <2> QED BY <2>1, <2>2, <2>3, <2>4, <2>5, <2>6, <2>7, <2>8, <2>9, <2>10, <2>11, <2>12
     DEF Races!Next, Races!Serve, Races!ServeBlockchains, Races!ServeTokens,
         Races!Continue, Races!CreateBlockChainDto, Races!CreatePaymentTokenDto,
         RacesProofs!Next, RacesProofs!Serve, RacesProofs!ServeBlockchains,
         RacesProofs!ServeTokens, RacesProofs!Continue, RacesProofs!CreateBlockChainDto,
         RacesProofs!CreatePaymentTokenDto
<1>3. RacesProofs!vars = Races!vars
  BY DEF Races!vars, RacesProofs!vars
<1>4. RacesProofs!TypeOK => Races!TypeOK
  BY DEF Races!TypeOK, Races!Blockchain, Races!PaymentToken, Races!Logo, Races!Call,
       Races!Payload, Races!CreateBlockChainDto, Races!CreatePaymentTokenDto,
       Races!BlockchainSlugMapping, Races!Ids, RacesProofs!TypeOK,
       RacesProofs!Blockchain, RacesProofs!PaymentToken, RacesProofs!Logo,
       RacesProofs!Call, RacesProofs!Payload, RacesProofs!CreateBlockChainDto,
       RacesProofs!CreatePaymentTokenDto, RacesProofs!BlockchainSlugMapping,
       RacesProofs!Ids
<1>5. RacesProofs!OneRowPerChain => Races!OneRowPerChain
  BY DEF Races!OneRowPerChain, Races!Exists, RacesProofs!OneRowPerChain,
       RacesProofs!Exists
<1>6. RacesProofs!OwnCallBreaksLogo => Races!OwnCallBreaksLogo
  BY DEF Races!OwnCallBreaksLogo, Races!Broken, Races!At, Races!Exists, Races!Ids,
       RacesProofs!OwnCallBreaksLogo, RacesProofs!Broken, RacesProofs!At,
       RacesProofs!Exists, RacesProofs!Ids
<1> QED BY <1>1, <1>2, <1>3, <1>4, <1>5, <1>6

LEMMA InitRaces == Races!Init => RacesInv
BY RacesConstants, RacesIsProved, RacesProofs!InitTypes, RacesProofs!InitKeys, RacesProofs!InitFiles DEF RacesInv

LEMMA NextRaces == RacesInv /\ [Races!Next]_(Races!vars) => RacesInv'
<1>1. [Races!Next]_(Races!vars) => [RacesProofs!Next]_(RacesProofs!vars)
  BY RacesIsProved DEF Races!vars, RacesProofs!vars
<1>2. RacesProofs!TypeInv /\ [RacesProofs!Next]_(RacesProofs!vars) => RacesProofs!TypeInv'
  BY RacesConstants, RacesProofs!NextTypes
<1>3. RacesProofs!TypeInv /\ RacesProofs!ChainsInv /\ [RacesProofs!Next]_(RacesProofs!vars) => RacesProofs!ChainsInv'
  BY RacesConstants, RacesProofs!ChainsStep
<1>4. RacesProofs!TypeInv /\ RacesProofs!FilesInv /\ [RacesProofs!Next]_(RacesProofs!vars) => RacesProofs!FilesInv'
  BY RacesConstants, RacesProofs!FilesStep
<1> QED BY <1>1, <1>2, <1>3, <1>4 DEF RacesInv

(* Two calls on tokens whose blockchain may be deleted.                    *)
ReferencesInv ==
    /\ ReferencesProofs!TypeInv
    /\ ReferencesProofs!TokensHaveTheirChain

LEMMA ReferencesConstants == ReferencesProofs!Constants
BY RowsAssumption
DEF RowsAssumption, ReferencesProofs!Constants,
       References!IdsAssumption, References!NoFileAssumption, References!RowAssumption,
       References!IdleAssumption, References!Blockchain, References!PaymentToken,
       References!Logo, References!Call, References!Payload,
       References!CreateBlockChainDto, References!CreatePaymentTokenDto,
       References!BlockchainSlugMapping, References!Ids,
       ReferencesProofs!IdsAssumption, ReferencesProofs!NoFileAssumption,
       ReferencesProofs!RowAssumption, ReferencesProofs!IdleAssumption,
       ReferencesProofs!Blockchain, ReferencesProofs!PaymentToken,
       ReferencesProofs!Logo, ReferencesProofs!Call, ReferencesProofs!Payload,
       ReferencesProofs!CreateBlockChainDto, ReferencesProofs!CreatePaymentTokenDto,
       ReferencesProofs!BlockchainSlugMapping, ReferencesProofs!Ids

LEMMA ReferencesIsProved ==
    /\ References!Init => ReferencesProofs!Init
    /\ References!Next => ReferencesProofs!Next
    /\ ReferencesProofs!vars = References!vars
    /\ ReferencesProofs!TypeOK => References!TypeOK
    /\ ReferencesProofs!TokensHaveTheirChain => References!TokensHaveTheirChain
<1>1. References!Init => ReferencesProofs!Init
  BY DEF References!Init, References!Ids, ReferencesProofs!Init, ReferencesProofs!Ids
<1>2. References!Next => ReferencesProofs!Next
  <2> USE DEF References!At, References!Goto, References!Answer, References!Refuse,
           References!Exists, References!OtherChains, References!OtherTokens,
           References!NameTaken, References!SlugTaken, References!AddressTaken,
           References!Start, References!New, References!AfterUpload,
           References!savedBlockchain, References!savedPaymentToken, References!Savable,
           References!BlockchainSlugMapping, ReferencesProofs!At, ReferencesProofs!Goto,
           ReferencesProofs!Answer, ReferencesProofs!Refuse, ReferencesProofs!Exists,
           ReferencesProofs!OtherChains, ReferencesProofs!OtherTokens,
           ReferencesProofs!NameTaken, ReferencesProofs!SlugTaken,
           ReferencesProofs!AddressTaken, ReferencesProofs!Start, ReferencesProofs!New,
           ReferencesProofs!AfterUpload, ReferencesProofs!savedBlockchain,
           ReferencesProofs!savedPaymentToken, ReferencesProofs!Savable,
           ReferencesProofs!BlockchainSlugMapping
  <2>1. \A r, i, data, brings : References!createBlockchain(r, i, data, brings) <=> ReferencesProofs!createBlockchain(r, i, data, brings)
    BY DEF References!createBlockchain, ReferencesProofs!createBlockchain
  <2>2. \A r, i, data, brings : References!updateBlockchain(r, i, data, brings) <=> ReferencesProofs!updateBlockchain(r, i, data, brings)
    BY DEF References!updateBlockchain, ReferencesProofs!updateBlockchain
  <2>3. \A r, i, data, brings : References!createPaymentToken(r, i, data, brings) <=> ReferencesProofs!createPaymentToken(r, i, data, brings)
    BY DEF References!createPaymentToken, ReferencesProofs!createPaymentToken
  <2>4. \A r, i, data, brings : References!updatePaymentToken(r, i, data, brings) <=> ReferencesProofs!updatePaymentToken(r, i, data, brings)
    BY DEF References!updatePaymentToken, ReferencesProofs!updatePaymentToken
  <2>5. \A r : References!unique(r) <=> ReferencesProofs!unique(r)
    BY DEF References!unique, ReferencesProofs!unique
  <2>6. \A r : References!getBlockchainByNetwork(r) <=> ReferencesProofs!getBlockchainByNetwork(r)
    BY DEF References!getBlockchainByNetwork, ReferencesProofs!getBlockchainByNetwork
  <2>7. \A r : References!checkTokenAddress(r) <=> ReferencesProofs!checkTokenAddress(r)
    BY DEF References!checkTokenAddress, ReferencesProofs!checkTokenAddress
  <2>8. \A r : References!uploadImage(r) <=> ReferencesProofs!uploadImage(r)
    BY DEF References!uploadImage, ReferencesProofs!uploadImage
  <2>9. \A r : References!deleteFile(r) <=> ReferencesProofs!deleteFile(r)
    BY DEF References!deleteFile, ReferencesProofs!deleteFile
  <2>10. \A r : References!loseCall(r) <=> ReferencesProofs!loseCall(r)
    BY DEF References!loseCall, ReferencesProofs!loseCall
  <2>11. \A r : References!save(r) <=> ReferencesProofs!save(r)
    BY DEF References!save, ReferencesProofs!save
  <2>12. \A i : References!deleteRow(i) <=> ReferencesProofs!deleteRow(i)
    BY DEF References!deleteRow, ReferencesProofs!deleteRow
  <2> QED BY <2>1, <2>2, <2>3, <2>4, <2>5, <2>6, <2>7, <2>8, <2>9, <2>10, <2>11, <2>12
     DEF References!Next, References!Serve, References!ServeBlockchains,
         References!ServeTokens, References!Continue, References!CreateBlockChainDto,
         References!CreatePaymentTokenDto, ReferencesProofs!Next, ReferencesProofs!Serve,
         ReferencesProofs!ServeBlockchains, ReferencesProofs!ServeTokens,
         ReferencesProofs!Continue, ReferencesProofs!CreateBlockChainDto,
         ReferencesProofs!CreatePaymentTokenDto
<1>3. ReferencesProofs!vars = References!vars
  BY DEF References!vars, ReferencesProofs!vars
<1>4. ReferencesProofs!TypeOK => References!TypeOK
  BY DEF References!TypeOK, References!Blockchain, References!PaymentToken,
       References!Logo, References!Call, References!Payload,
       References!CreateBlockChainDto, References!CreatePaymentTokenDto,
       References!BlockchainSlugMapping, References!Ids, ReferencesProofs!TypeOK,
       ReferencesProofs!Blockchain, ReferencesProofs!PaymentToken,
       ReferencesProofs!Logo, ReferencesProofs!Call, ReferencesProofs!Payload,
       ReferencesProofs!CreateBlockChainDto, ReferencesProofs!CreatePaymentTokenDto,
       ReferencesProofs!BlockchainSlugMapping, ReferencesProofs!Ids
<1>5. ReferencesProofs!TokensHaveTheirChain => References!TokensHaveTheirChain
  BY DEF References!TokensHaveTheirChain, References!Exists,
       ReferencesProofs!TokensHaveTheirChain, ReferencesProofs!Exists
<1> QED BY <1>1, <1>2, <1>3, <1>4, <1>5

LEMMA InitReferences == References!Init => ReferencesInv
BY ReferencesConstants, ReferencesIsProved, ReferencesProofs!InitTypes, ReferencesProofs!InitKeys DEF ReferencesInv

LEMMA NextReferences == ReferencesInv /\ [References!Next]_(References!vars) => ReferencesInv'
<1>1. [References!Next]_(References!vars) => [ReferencesProofs!Next]_(ReferencesProofs!vars)
  BY ReferencesIsProved DEF References!vars, ReferencesProofs!vars
<1>2. ReferencesProofs!TypeInv /\ [ReferencesProofs!Next]_(ReferencesProofs!vars) => ReferencesProofs!TypeInv'
  BY ReferencesConstants, ReferencesProofs!NextTypes
<1>3. ReferencesProofs!TypeInv /\ ReferencesProofs!TokensHaveTheirChain /\ [ReferencesProofs!Next]_(ReferencesProofs!vars) => ReferencesProofs!TokensHaveTheirChain'
  BY ReferencesConstants, ReferencesProofs!RefsStep
<1> QED BY <1>1, <1>2, <1>3 DEF ReferencesInv

(* One call at a time, none of them lost.                                  *)
OneByOneInv ==
    /\ OneByOneProofs!TypeInv
    /\ OneByOneProofs!FilesInv
    /\ OneByOneProofs!SoleInv

LEMMA OneByOneConstants == OneByOneProofs!Constants
BY RowsAssumption
DEF RowsAssumption, OneByOneProofs!Constants,
       OneByOne!IdsAssumption, OneByOne!NoFileAssumption, OneByOne!RowAssumption,
       OneByOne!IdleAssumption, OneByOne!Blockchain, OneByOne!PaymentToken,
       OneByOne!Logo, OneByOne!Call, OneByOne!Payload, OneByOne!CreateBlockChainDto,
       OneByOne!CreatePaymentTokenDto, OneByOne!BlockchainSlugMapping, OneByOne!Ids,
       OneByOneProofs!IdsAssumption, OneByOneProofs!NoFileAssumption,
       OneByOneProofs!RowAssumption, OneByOneProofs!IdleAssumption,
       OneByOneProofs!Blockchain, OneByOneProofs!PaymentToken, OneByOneProofs!Logo,
       OneByOneProofs!Call, OneByOneProofs!Payload, OneByOneProofs!CreateBlockChainDto,
       OneByOneProofs!CreatePaymentTokenDto, OneByOneProofs!BlockchainSlugMapping,
       OneByOneProofs!Ids

LEMMA OneByOneIsProved ==
    /\ OneByOne!Init => OneByOneProofs!Init
    /\ OneByOne!Serve => OneByOneProofs!Next
    /\ OneByOneProofs!vars = OneByOne!vars
    /\ OneByOneProofs!TypeOK => OneByOne!TypeOK
    /\ OneByOneProofs!LogoMissingOnlyAfterFailedUpdate => OneByOne!LogoMissingOnlyAfterFailedUpdate
<1>1. OneByOne!Init => OneByOneProofs!Init
  BY DEF OneByOne!Init, OneByOne!Ids, OneByOneProofs!Init, OneByOneProofs!Ids
<1>2. OneByOne!Serve => OneByOneProofs!Next
  <2> USE DEF OneByOne!At, OneByOne!Goto, OneByOne!Answer, OneByOne!Refuse, OneByOne!Exists,
           OneByOne!OtherChains, OneByOne!OtherTokens, OneByOne!NameTaken,
           OneByOne!SlugTaken, OneByOne!AddressTaken, OneByOne!Start, OneByOne!New,
           OneByOne!AfterUpload, OneByOne!savedBlockchain, OneByOne!savedPaymentToken,
           OneByOne!Savable, OneByOne!BlockchainSlugMapping, OneByOneProofs!At,
           OneByOneProofs!Goto, OneByOneProofs!Answer, OneByOneProofs!Refuse,
           OneByOneProofs!Exists, OneByOneProofs!OtherChains, OneByOneProofs!OtherTokens,
           OneByOneProofs!NameTaken, OneByOneProofs!SlugTaken, OneByOneProofs!AddressTaken,
           OneByOneProofs!Start, OneByOneProofs!New, OneByOneProofs!AfterUpload,
           OneByOneProofs!savedBlockchain, OneByOneProofs!savedPaymentToken,
           OneByOneProofs!Savable, OneByOneProofs!BlockchainSlugMapping
  <2>1. \A r, i, data, brings : OneByOne!createBlockchain(r, i, data, brings) <=> OneByOneProofs!createBlockchain(r, i, data, brings)
    BY DEF OneByOne!createBlockchain, OneByOneProofs!createBlockchain
  <2>2. \A r, i, data, brings : OneByOne!updateBlockchain(r, i, data, brings) <=> OneByOneProofs!updateBlockchain(r, i, data, brings)
    BY DEF OneByOne!updateBlockchain, OneByOneProofs!updateBlockchain
  <2>3. \A r, i, data, brings : OneByOne!createPaymentToken(r, i, data, brings) <=> OneByOneProofs!createPaymentToken(r, i, data, brings)
    BY DEF OneByOne!createPaymentToken, OneByOneProofs!createPaymentToken
  <2>4. \A r, i, data, brings : OneByOne!updatePaymentToken(r, i, data, brings) <=> OneByOneProofs!updatePaymentToken(r, i, data, brings)
    BY DEF OneByOne!updatePaymentToken, OneByOneProofs!updatePaymentToken
  <2>5. \A r : OneByOne!unique(r) <=> OneByOneProofs!unique(r)
    BY DEF OneByOne!unique, OneByOneProofs!unique
  <2>6. \A r : OneByOne!getBlockchainByNetwork(r) <=> OneByOneProofs!getBlockchainByNetwork(r)
    BY DEF OneByOne!getBlockchainByNetwork, OneByOneProofs!getBlockchainByNetwork
  <2>7. \A r : OneByOne!checkTokenAddress(r) <=> OneByOneProofs!checkTokenAddress(r)
    BY DEF OneByOne!checkTokenAddress, OneByOneProofs!checkTokenAddress
  <2>8. \A r : OneByOne!uploadImage(r) <=> OneByOneProofs!uploadImage(r)
    BY DEF OneByOne!uploadImage, OneByOneProofs!uploadImage
  <2>9. \A r : OneByOne!deleteFile(r) <=> OneByOneProofs!deleteFile(r)
    BY DEF OneByOne!deleteFile, OneByOneProofs!deleteFile
  <2>10. \A r : OneByOne!loseCall(r) <=> OneByOneProofs!loseCall(r)
    BY DEF OneByOne!loseCall, OneByOneProofs!loseCall
  <2>11. \A r : OneByOne!save(r) <=> OneByOneProofs!save(r)
    BY DEF OneByOne!save, OneByOneProofs!save
  <2>12. \A i : OneByOne!deleteRow(i) <=> OneByOneProofs!deleteRow(i)
    BY DEF OneByOne!deleteRow, OneByOneProofs!deleteRow
  <2> QED BY <2>1, <2>2, <2>3, <2>4, <2>5, <2>6, <2>7, <2>8, <2>9, <2>10, <2>11, <2>12
     DEF OneByOne!Next, OneByOne!Serve, OneByOne!ServeBlockchains, OneByOne!ServeTokens,
         OneByOne!Continue, OneByOne!CreateBlockChainDto, OneByOne!CreatePaymentTokenDto,
         OneByOneProofs!Next, OneByOneProofs!Serve, OneByOneProofs!ServeBlockchains,
         OneByOneProofs!ServeTokens, OneByOneProofs!Continue,
         OneByOneProofs!CreateBlockChainDto, OneByOneProofs!CreatePaymentTokenDto
<1>3. OneByOneProofs!vars = OneByOne!vars
  BY DEF OneByOne!vars, OneByOneProofs!vars
<1>4. OneByOneProofs!TypeOK => OneByOne!TypeOK
  BY DEF OneByOne!TypeOK, OneByOne!Blockchain, OneByOne!PaymentToken, OneByOne!Logo,
       OneByOne!Call, OneByOne!Payload, OneByOne!CreateBlockChainDto,
       OneByOne!CreatePaymentTokenDto, OneByOne!BlockchainSlugMapping, OneByOne!Ids,
       OneByOneProofs!TypeOK, OneByOneProofs!Blockchain, OneByOneProofs!PaymentToken,
       OneByOneProofs!Logo, OneByOneProofs!Call, OneByOneProofs!Payload,
       OneByOneProofs!CreateBlockChainDto, OneByOneProofs!CreatePaymentTokenDto,
       OneByOneProofs!BlockchainSlugMapping, OneByOneProofs!Ids
<1>5. OneByOneProofs!LogoMissingOnlyAfterFailedUpdate => OneByOne!LogoMissingOnlyAfterFailedUpdate
  BY DEF OneByOne!LogoMissingOnlyAfterFailedUpdate, OneByOne!Quiet, OneByOne!Broken,
       OneByOne!Exists, OneByOne!Ids, OneByOneProofs!LogoMissingOnlyAfterFailedUpdate,
       OneByOneProofs!Quiet, OneByOneProofs!Broken, OneByOneProofs!Exists,
       OneByOneProofs!Ids
<1> QED BY <1>1, <1>2, <1>3, <1>4, <1>5

LEMMA InitOneByOne == OneByOne!Init => OneByOneInv
BY OneByOneConstants, OneByOneIsProved, OneByOneProofs!InitTypes, OneByOneProofs!InitFiles, OneByOneProofs!InitSole DEF OneByOneInv

LEMMA OneAlone == OneByOneProofs!Sole
BY AloneAssumption DEF AloneAssumption, OneByOneProofs!Sole

LEMMA NextOneByOne == OneByOneInv /\ [OneByOne!Serve]_(OneByOne!vars) => OneByOneInv'
<1>1. [OneByOne!Serve]_(OneByOne!vars) => [OneByOneProofs!Next]_(OneByOneProofs!vars)
  BY OneByOneIsProved DEF OneByOne!vars, OneByOneProofs!vars
<1>2. OneByOneProofs!TypeInv /\ [OneByOneProofs!Next]_(OneByOneProofs!vars) => OneByOneProofs!TypeInv'
  BY OneByOneConstants, OneByOneProofs!NextTypes
<1>3. OneByOneProofs!TypeInv /\ OneByOneProofs!FilesInv /\ [OneByOneProofs!Next]_(OneByOneProofs!vars) => OneByOneProofs!FilesInv'
  BY OneByOneConstants, OneByOneProofs!FilesStep
<1>4. OneByOneProofs!TypeInv /\ OneByOneProofs!FilesInv /\ OneByOneProofs!SoleInv /\ [OneByOneProofs!Next]_(OneByOneProofs!vars) => OneByOneProofs!SoleInv'
  BY OneAlone, OneByOneConstants, OneByOneProofs!SoleStep
<1> QED BY <1>1, <1>2, <1>3, <1>4 DEF OneByOneInv

--------------------------------------------------------------------------------
(* The lists.  A row whose whole name is the query contains it, and no      *)
(* status asks for more than 0 does, so that a total counts rows of its    *)
(* list.                                                                   *)

LEMMA InitLists == Lists!Init => Lists!TypeOK
BY DEF Lists!Init, Lists!TypeOK

LEMMA NextLists == Lists!TypeOK /\ [Lists!Next]_(Lists!vars) => Lists!TypeOK'
<1> SUFFICES ASSUME Lists!TypeOK, [Lists!Next]_(Lists!vars) PROVE Lists!TypeOK'
  OBVIOUS
<1>1. ASSUME NEW r \in Alone, NEW i \in Lists!Ids, NEW status \in Statuses, Lists!findForStatus(r, i, status)
      PROVE  Lists!TypeOK'
  BY <1>1 DEF Lists!findForStatus, Lists!TypeOK, Lists!Call
<1>2. ASSUME NEW r \in Alone, Lists!updateBlockchainStatus(r) PROVE Lists!TypeOK'
  BY <1>2 DEF Lists!updateBlockchainStatus, Lists!TypeOK, Lists!Call, Lists!BlockchainRow
<1>3. ASSUME NEW r \in Alone, Lists!updatePaymentTokenStatus(r) PROVE Lists!TypeOK'
  BY <1>3 DEF Lists!updatePaymentTokenStatus, Lists!TypeOK, Lists!Call, Lists!TokenRow
<1>4. CASE UNCHANGED Lists!vars
  BY <1>4 DEF Lists!vars, Lists!TypeOK
<1> QED BY <1>1, <1>2, <1>3, <1>4 DEF Lists!Next

(* Cardinality in CatalogueLists is that of the library.                   *)
LEMMA SizesAgree == \A S : Lists!Cardinality(S) = Cardinality(S)
BY DEF Lists!Cardinality, Cardinality

(* Every string contains itself and the empty query. *)
LEMMA ContainsItself ==
    ASSUME NEW s \in Strings
    PROVE  Lists!Contains(s, s) /\ Lists!Contains(s, <<>>)
<1>1. s \in Seq(DOMAIN Lower) /\ Len(s) \in Nat /\ DOMAIN s = 1..Len(s)
  BY ListsAssumption DEF ListsAssumption, Lists!StringsAssumption
<1>2. Lists!LowerCase(s) = [i \in 1..Len(s) |-> Lower[s[i]]]
  BY <1>1 DEF Lists!LowerCase
<1>3. SubSeq(Lists!LowerCase(s), 0 + 1, 0 + Len(s)) = Lists!LowerCase(s)
  BY <1>1, <1>2
<1>4. SubSeq(Lists!LowerCase(s), 0 + 1, 0 + Len(<<>>)) = Lists!LowerCase(<<>>)
  BY <1>2 DEF Lists!LowerCase
<1>5. 0 \in 0..(Len(s) - Len(s)) /\ 0 \in 0..(Len(s) - Len(<<>>))
  BY <1>1
<1> QED BY <1>3, <1>4, <1>5 DEF Lists!Contains

(* A total that counts some of the rows of its list is not above it, and is *)
(* that of the list when it counts them all.                               *)
LEMMA CountFits ==
    ASSUME NEW S, IsFiniteSet(S), NEW T, T \subseteq S
    PROVE  /\ Lists!Cardinality(T) <= Lists!Cardinality(S)
           /\ S \subseteq T => Lists!Cardinality(T) = Lists!Cardinality(S)
<1>1. Cardinality(T) <= Cardinality(S)
  BY FS_Subset
<1>2. S \subseteq T => S = T
  OBVIOUS
<1> QED BY <1>1, <1>2, SizesAgree

LEMMA ListsAreSound ==
    Lists!TypeOK => /\ Lists!BlockchainListsByStatus
                    /\ Lists!PairIsOfOneChain
                    /\ Lists!TokenCountFitsList
                    /\ Lists!BlockchainCountFitsList
<1> SUFFICES ASSUME Lists!TypeOK PROVE /\ Lists!BlockchainListsByStatus
                                       /\ Lists!PairIsOfOneChain
                                       /\ Lists!TokenCountFitsList
                                       /\ Lists!BlockchainCountFitsList
  OBVIOUS
<1>1. /\ Null \notin Strings /\ Null \notin Int /\ ChainIds \subseteq Nat \ {0}
      /\ IsFiniteSet(ChainIds) /\ IsFiniteSet(TokenIds)
  <2>1. Lists!NullAssumption /\ Lists!IdsAssumption
    BY ListsAssumption DEF ListsAssumption
  <2>2. \A S : Lists!IsFiniteSet(S) <=> IsFiniteSet(S)
    BY DEF Lists!IsFiniteSet, IsFiniteSet
  <2> QED BY <2>1, <2>2 DEF Lists!NullAssumption, Lists!IdsAssumption
<1>2. Lists!BlockchainListsByStatus
  <2>1. Null # 0 /\ Null # 1
    BY <1>1
  <2>2. /\ Lists!getBlockchainLists(0) = {c \in ChainIds : chains[c].status = 0}
        /\ Lists!getBlockchainLists(Null) = {c \in ChainIds : chains[c].status = 1}
    BY <2>1 DEF Lists!getBlockchainLists, Lists!STATUS_ACTIVE
  <2> QED BY <2>2 DEF Lists!BlockchainListsByStatus, Lists!STATUS_ACTIVE, Lists!STATUS_INACTIVE
<1>3. Lists!PairIsOfOneChain
  <2> SUFFICES ASSUME NEW c \in ChainIds, NEW id \in {Null, c}, NEW chain_id \in {Null, Lists!ChainId(c)},
                      Lists!Given(id) \/ Lists!Given(chain_id),
                      NEW t \in TokenIds, Lists!OfChain(t, id, chain_id)
               PROVE  tokens[t].blockchain = c
    BY DEF Lists!PairIsOfOneChain, Lists!getTokenLists, Lists!getNativeNwrapToken
  <2>1. tokens[t].blockchain \in Nat /\ c \in Nat
    BY <1>1 DEF Lists!TypeOK, Lists!TokenRow
  <2> QED BY <1>1, <2>1 DEF Lists!OfChain, Lists!ChainId, Lists!Given
<1>4. Lists!TokenCountFitsList
  <2> DEFINE Counted(f) == {t \in TokenIds : f.query \in {Null, tokens[t].name}
                                             /\ Lists!HasStatus(tokens[t], f.status)}
  <2>1. ASSUME NEW f \in Lists!Filter, NEW t \in Counted(f) PROVE t \in Lists!staffTokenList(f)
    <3>1. tokens[t].name \in Strings
      BY DEF Lists!TypeOK, Lists!TokenRow
    <3>2. Lists!Contains(tokens[t].name, Lists!QueryOrEmpty(f.query))
      BY <1>1, <3>1, ContainsItself DEF Lists!QueryOrEmpty
    <3>3. Lists!HasStatus(tokens[t], Lists!StatusOr(f.status, Null))
      BY DEF Lists!HasStatus, Lists!StatusOr
    <3> QED BY <3>2, <3>3 DEF Lists!staffTokenList
  <2>2. \A f \in Lists!Filter : f.query = Null /\ f.status # 0 =>
           Lists!staffTokenList(f) \subseteq Counted(f)
    BY DEF Lists!staffTokenList, Lists!HasStatus, Lists!StatusOr
  <2>3. \A f : IsFiniteSet(Lists!staffTokenList(f))
    BY <1>1, FS_Subset DEF Lists!staffTokenList
  <2>4. \A f : Lists!staffTokenCount(f) = Lists!Cardinality(Counted(f))
    BY DEF Lists!staffTokenCount
  <2> QED BY <2>1, <2>2, <2>3, <2>4, CountFits DEF Lists!TokenCountFitsList
<1>5. Lists!BlockchainCountFitsList
  <2> DEFINE Counted(f) == {c \in ChainIds : f.query \in {Null, chains[c].network_name}
                                             /\ Lists!HasStatus(chains[c], f.status)}
  <2>1. ASSUME NEW f \in Lists!Filter, NEW c \in Counted(f) PROVE c \in Lists!staffBlockchainList(f)
    <3>1. chains[c].network_name \in Strings
      BY DEF Lists!TypeOK, Lists!BlockchainRow
    <3>2. Lists!Contains(chains[c].network_name, Lists!QueryOrEmpty(f.query))
      BY <1>1, <3>1, ContainsItself DEF Lists!QueryOrEmpty
    <3> QED BY <3>2 DEF Lists!staffBlockchainList
  <2>2. \A f \in Lists!Filter : f.query = Null => Lists!staffBlockchainList(f) \subseteq Counted(f)
    BY DEF Lists!staffBlockchainList
  <2>3. \A f : IsFiniteSet(Lists!staffBlockchainList(f))
    BY <1>1, FS_Subset DEF Lists!staffBlockchainList
  <2>4. \A f : Lists!staffBlockchainCount(f) = Lists!Cardinality(Counted(f))
    BY DEF Lists!staffBlockchainCount
  <2> QED BY <2>1, <2>2, <2>3, <2>4, CountFits DEF Lists!BlockchainCountFitsList
<1> QED BY <1>2, <1>3, <1>4, <1>5

--------------------------------------------------------------------------------
(* The rates.  A run writes symbols that synchronised rows have had.        *)

RatesInv ==
    /\ Rates!TypeOK
    /\ \A r \in Requests : run[r] # Idle => run[r].keys \subseteq everSynced
    /\ \A t \in Tokens : Rates!Exists(t) /\ token[t].sync_rate_status => token[t].token_symbol \in everSynced

(* When runs do not overlap: no symbol that still counts is missing from    *)
(* what the run in flight has read, and what it has written shows its      *)
(* price; without a run, rows show the price of the last.                  *)
Shown == {t \in Tokens : Rates!Exists(t) /\ token[t].sync_rate_status
             /\ token[t].token_symbol \in Rates!WithW(Rates!PlainSyncedSymbols \cap Quoted)}

RowsShow(price, open) ==
    \A t \in Shown : token[t].usd_rate = price \/ token[t].token_symbol \in Rates!WithW(open)

RatesAloneInv ==
    /\ RunsDoNotOverlap(run)
    /\ \A r \in Requests : run[r] # Idle =>
          /\ run[r].at = "fetching" => Rates!PlainSyncedSymbols \subseteq run[r].keys
          /\ run[r].at = "writing" => RowsShow(run[r].price, run[r].keys)
    /\ Rates!RatesAreTheLastFetched

LEMMA InitRates == Rates!Init => RatesInv
BY RatesAssumption DEF RatesAssumption, Rates!PriceAssumption, Rates!Init, RatesInv, Rates!TypeOK, Rates!Exists

(* What create and update write is a row.                                  *)
LEMMA RowIsToken ==
    ASSUME RatesInv, NEW t \in Tokens, NEW p \in Rates!Payload
    PROVE  Rates!Row(p, Rates!Before(t)) \in Rates!PaymentToken
<1>1. Rates!Before(t).sync_rate_status \in BOOLEAN /\ Rates!Before(t).usd_rate \in Rates!Rates
  <2>1. CASE Rates!Exists(t)
    BY <2>1 DEF RatesInv, Rates!TypeOK, Rates!Before, Rates!Exists, Rates!PaymentToken
  <2>2. CASE ~Rates!Exists(t)
    BY <2>2 DEF Rates!Before, Rates!Rates
  <2> QED BY <2>1, <2>2
<1>2. /\ p.token_symbol \in DOMAIN toUpperCase /\ p.plain \in BOOLEAN
      /\ p.sync_rate_status # Absent => p.sync_rate_status \in BOOLEAN
      /\ p.usd_rate \in Rates!Rates
  BY DEF Rates!Payload, Rates!Rates
<1>3. toUpperCase[p.token_symbol] \in Rates!Symbols
  BY <1>2, RatesAssumption DEF RatesAssumption, Rates!SymbolsAssumption, Rates!Symbols
<1>4. /\ (IF p.sync_rate_status = Absent THEN Rates!Before(t).sync_rate_status
                                        ELSE p.sync_rate_status) \in BOOLEAN
      /\ (IF p.sync_rate_status = TRUE THEN Rates!Before(t).usd_rate ELSE p.usd_rate) \in Rates!Rates
  BY <1>1, <1>2
<1> QED BY <1>2, <1>3, <1>4 DEF Rates!Row, Rates!PaymentToken

(* A run that begins. *)
LEMMA BegunRun ==
    ASSUME RatesInv, NEW r \in Requests, Rates!syncUsdRates(r)
    PROVE  /\ run[r] = Idle /\ run'[r] # Idle /\ run'[r].at = "reading" /\ run'[r].keys = {}
           /\ run' \in [Requests -> Rates!Run \cup {Idle}]
           /\ \A q \in Requests : q # r => run'[q] = run[q]
<1>1. [at |-> "reading", keys |-> {}, price |-> 0] \in Rates!Run
  BY RatesAssumption DEF Rates!Run, RatesAssumption, Rates!PriceAssumption
<1> QED BY <1>1, RatesAssumption DEF RatesInv, Rates!TypeOK, Rates!syncUsdRates,
                                     RatesAssumption, Rates!NullAssumption

LEMMA NextRates == RatesInv /\ [Rates!Next]_(Rates!vars) => RatesInv'
<1> SUFFICES ASSUME RatesInv, [Rates!Next]_(Rates!vars) PROVE RatesInv'
  OBVIOUS
<1> USE DEF Rates!Exists
<1>0. MaxPrice \in Nat
  BY RatesAssumption DEF RatesAssumption, Rates!PriceAssumption
<1>1. ASSUME Rates!marketMoves PROVE RatesInv'
  BY <1>0, <1>1 DEF Rates!marketMoves, RatesInv, Rates!TypeOK
<1>2. ASSUME NEW t \in Tokens, Rates!deletePaymentToken(t) PROVE RatesInv'
  BY <1>2 DEF Rates!deletePaymentToken, RatesInv, Rates!TypeOK
<1>3. ASSUME NEW r \in Requests, NEW t \in Tokens, NEW p \in Rates!Payload, Rates!savePaymentToken(t, p, r)
      PROVE  RatesInv'
  <2>1. PICK row \in Rates!PaymentToken : row = Rates!Row(p, Rates!Before(t))
    BY RowIsToken
  <2>2. /\ token' = [token EXCEPT ![t] = row] /\ UNCHANGED <<market, last>>
        /\ everSynced' = everSynced \cup IF row.sync_rate_status THEN {row.token_symbol} ELSE {}
        /\ Rates!syncUsdRates(r)
    BY <1>3, <2>1 DEF Rates!savePaymentToken
  <2>3. row.token_symbol \in Rates!Symbols
    BY <2>1 DEF Rates!PaymentToken
  <2>4. Rates!TypeOK'
    BY <2>2, <2>3, BegunRun DEF RatesInv, Rates!TypeOK
  <2>5. \A q \in Requests : run'[q] # Idle => run'[q].keys \subseteq everSynced'
    BY <2>2, BegunRun DEF RatesInv
  <2>6. \A u \in Tokens : token'[u] # NoRow /\ token'[u].sync_rate_status => token'[u].token_symbol \in everSynced'
    BY <2>2 DEF RatesInv, Rates!TypeOK
  <2> QED BY <2>4, <2>5, <2>6 DEF RatesInv
<1>4. ASSUME NEW r \in Requests, Rates!requestSync(r) PROVE RatesInv'
  <2>1. Rates!syncUsdRates(r) /\ UNCHANGED <<token, market, everSynced, last>>
    BY <1>4 DEF Rates!requestSync
  <2> QED BY <2>1, BegunRun DEF RatesInv, Rates!TypeOK
<1>5. ASSUME NEW r \in Requests, Rates!readSymbols(r) PROVE RatesInv'
  <2>1. PICK keys : keys = Rates!PlainSyncedSymbols
    OBVIOUS
  <2>2. keys \subseteq everSynced /\ keys \subseteq Rates!Symbols
    BY <2>1 DEF RatesInv, Rates!TypeOK, Rates!PlainSyncedSymbols, Rates!PaymentToken
  <2> DEFINE new == [at |-> "fetching", keys |-> keys, price |-> 0]
  <2>3. new \in Rates!Run /\ new.keys = keys
    BY <1>0, <2>2 DEF Rates!Run
  <2>4. run' = [run EXCEPT ![r] = IF keys = {} THEN Idle ELSE new]
    BY <1>5, <2>1 DEF Rates!readSymbols
  <2>5. UNCHANGED <<token, market, everSynced, last>>
    BY <1>5 DEF Rates!readSymbols
  <2> HIDE DEF new
  <2> QED BY <2>2, <2>3, <2>4, <2>5 DEF RatesInv, Rates!TypeOK
<1>6. ASSUME NEW r \in Requests, Rates!fetchPrices(r) PROVE RatesInv'
  <2>1. run[r] \in Rates!Run /\ run[r].keys \subseteq Rates!Symbols
    BY <1>6 DEF Rates!fetchPrices, RatesInv, Rates!TypeOK, Rates!Run
  <2>2. PICK new \in Rates!Run :
           /\ run' = [run EXCEPT ![r] = new] /\ UNCHANGED <<token, market, everSynced, last>>
           /\ new.keys = run[r].keys \cap Quoted
    <3>1. [at |-> "writing", keys |-> run[r].keys \cap Quoted, price |-> market] \in Rates!Run
      BY <1>0, <2>1 DEF Rates!Run, RatesInv, Rates!TypeOK
    <3> QED BY <1>6, <3>1 DEF Rates!fetchPrices, RatesInv, Rates!TypeOK
  <2> QED BY <1>6, <2>2 DEF Rates!fetchPrices, RatesInv, Rates!TypeOK
<1>7. ASSUME NEW r \in Requests, NEW key \in Rates!Symbols, Rates!writeRate(r, key) PROVE RatesInv'
  <2>1. run[r] \in Rates!Run /\ run[r].keys \subseteq Rates!Symbols /\ run[r].price \in Rates!Rates
    BY <1>0, <1>7 DEF Rates!writeRate, RatesInv, Rates!TypeOK, Rates!Run, Rates!Rates
  <2>2. PICK new \in Rates!Run : run' = [run EXCEPT ![r] = new] /\ new.keys = run[r].keys \ {key}
    <3>1. [run[r] EXCEPT !.keys = run[r].keys \ {key}] \in Rates!Run
      BY <2>1 DEF Rates!Run
    <3>2. run' = [run EXCEPT ![r] = [run[r] EXCEPT !.keys = run[r].keys \ {key}]]
      BY <1>7 DEF Rates!writeRate, RatesInv, Rates!TypeOK
    <3>3. [run[r] EXCEPT !.keys = run[r].keys \ {key}].keys = run[r].keys \ {key}
      BY <2>1 DEF Rates!Run
    <3> QED BY <3>1, <3>2, <3>3
  <2>3. \A t \in Tokens :
           /\ token'[t] \in Rates!PaymentToken \cup {NoRow}
           /\ token'[t] # NoRow => /\ token[t] # NoRow /\ token'[t].token_symbol = token[t].token_symbol
                                   /\ token'[t].sync_rate_status = token[t].sync_rate_status
    <3> SUFFICES ASSUME NEW t \in Tokens
                 PROVE  /\ token'[t] \in Rates!PaymentToken \cup {NoRow}
                        /\ token'[t] # NoRow => /\ token[t] # NoRow /\ token'[t].token_symbol = token[t].token_symbol
                                                /\ token'[t].sync_rate_status = token[t].sync_rate_status
      OBVIOUS
    <3>1. token'[t] = token[t] \/ (token[t] # NoRow /\ token'[t] = [token[t] EXCEPT !.usd_rate = run[r].price])
      BY <1>7 DEF Rates!writeRate, Rates!Priced
    <3> QED BY <2>1, <3>1 DEF RatesInv, Rates!TypeOK, Rates!PaymentToken
  <2>4. /\ token' \in [Tokens -> Rates!PaymentToken \cup {NoRow}] /\ UNCHANGED <<market, everSynced, last>>
    <3>1. token' = [t \in Tokens |-> token'[t]]
      BY <1>7 DEF Rates!writeRate
    <3> QED BY <1>7, <2>3, <3>1 DEF Rates!writeRate
  <2> QED BY <1>7, <2>2, <2>3, <2>4 DEF Rates!writeRate, RatesInv, Rates!TypeOK
<1>8. ASSUME NEW r \in Requests, Rates!endRun(r) PROVE RatesInv'
  <2>1. run[r].price \in 0..MaxPrice
    BY <1>8 DEF Rates!endRun, RatesInv, Rates!TypeOK, Rates!Run
  <2> QED BY <1>8, <2>1 DEF Rates!endRun, RatesInv, Rates!TypeOK
<1>9. ASSUME NEW r \in Requests, Rates!failRun(r) PROVE RatesInv'
  BY <1>0, <1>9 DEF Rates!failRun, RatesInv, Rates!TypeOK
<1>10. CASE UNCHANGED Rates!vars
  BY <1>10 DEF Rates!vars, RatesInv, Rates!TypeOK
<1> QED BY <1>1, <1>2, <1>3, <1>4, <1>5, <1>6, <1>7, <1>8, <1>9, <1>10 DEF Rates!Next, Rates!Synchronise

(* Only a run changes rates of rows that staff do not save, and it writes   *)
(* symbols that synchronised rows have had.                                *)
LEMMA ManualKept == RatesInv /\ Rates!Next => Rates!ManualRateIsKept
<1> SUFFICES ASSUME RatesInv, Rates!Next, ~Rates!RunStarts, NEW t \in Tokens,
                    token[t].token_symbol \notin Rates!WithW(everSynced)
             PROVE  token'[t] \in {token[t], NoRow}
  BY DEF Rates!ManualRateIsKept
<1>1. ASSUME NEW r \in Requests, Rates!syncUsdRates(r) PROVE FALSE
  BY <1>1, BegunRun DEF Rates!RunStarts
<1>2. ASSUME NEW u \in Tokens, Rates!deletePaymentToken(u) PROVE token'[t] \in {token[t], NoRow}
  BY <1>2 DEF Rates!deletePaymentToken, RatesInv, Rates!TypeOK
<1>3. ASSUME NEW r \in Requests, NEW key \in Rates!Symbols, Rates!writeRate(r, key) PROVE token'[t] = token[t]
  <2>1. key \in everSynced
    BY <1>3 DEF Rates!writeRate, RatesInv
  <2>2. token[t].token_symbol \notin {key, Wrapped[key]}
    BY <2>1 DEF Rates!WithW
  <2> QED BY <1>3, <2>2 DEF Rates!writeRate, Rates!Priced
<1> QED BY <1>1, <1>2, <1>3 DEF Rates!Next, Rates!Synchronise, Rates!marketMoves, Rates!savePaymentToken,
          Rates!requestSync, Rates!readSymbols, Rates!fetchPrices, Rates!endRun, Rates!failRun

LEMMA InitRatesAlone == Rates!Init => RatesAloneInv
BY DEF Rates!Init, RatesAloneInv, RunsDoNotOverlap, Rates!RatesAreTheLastFetched

(* Which rows have to show a price: no row more after a deletion, the same  *)
(* after any step that leaves symbols and status alone.                    *)
LEMMA ShownLater ==
    ASSUME \A t \in Tokens : token'[t] # NoRow =>
              /\ token[t] # NoRow /\ token'[t].token_symbol = token[t].token_symbol
              /\ token'[t].sync_rate_status = token[t].sync_rate_status /\ token'[t].plain = token[t].plain
    PROVE  /\ (Rates!PlainSyncedSymbols)' \subseteq Rates!PlainSyncedSymbols
           /\ Shown' \subseteq Shown
           /\ \A t \in Shown' : token'[t].token_symbol = token[t].token_symbol
<1>1. (Rates!PlainSyncedSymbols)' \subseteq Rates!PlainSyncedSymbols
  BY DEF Rates!PlainSyncedSymbols, Rates!Exists
<1>2. \A s : s \in Rates!WithW((Rates!PlainSyncedSymbols)' \cap Quoted) => s \in Rates!WithW(Rates!PlainSyncedSymbols \cap Quoted)
  BY <1>1 DEF Rates!WithW
<1>3. \A t \in Shown' : /\ t \in Tokens /\ token'[t] # NoRow /\ token'[t].sync_rate_status
                        /\ token'[t].token_symbol \in Rates!WithW((Rates!PlainSyncedSymbols)' \cap Quoted)
  BY DEF Shown, Rates!Exists, Rates!WithW
<1> QED BY <1>1, <1>2, <1>3 DEF Shown, Rates!Exists

(* Steps of rates whose runs do not overlap.                               *)
LEMMA NextRatesAlone ==
    RatesInv /\ RatesAloneInv /\ [Rates!Next /\ RunsDoNotOverlap(run')]_(Rates!vars) => RatesAloneInv'
<1> SUFFICES ASSUME RatesInv, RatesAloneInv, [Rates!Next /\ RunsDoNotOverlap(run')]_(Rates!vars)
             PROVE  RatesAloneInv'
  OBVIOUS
<1>a. (RunsDoNotOverlap(run))'
  BY DEF RunsDoNotOverlap, RatesAloneInv, Rates!vars
<1>b. ASSUME UNCHANGED token PROVE (Rates!PlainSyncedSymbols)' = Rates!PlainSyncedSymbols /\ Shown' = Shown
  BY <1>b DEF Shown, Rates!PlainSyncedSymbols, Rates!WithW, Rates!Exists
<1>c. \A r \in Requests : run[r] # Idle =>
         /\ run[r].at = "fetching" => Rates!PlainSyncedSymbols \subseteq run[r].keys
         /\ run[r].at = "writing" => \A t \in Shown : \/ token[t].usd_rate = run[r].price
                                                      \/ token[t].token_symbol \in Rates!WithW(run[r].keys)
  BY DEF RatesAloneInv, RowsShow
<1>d. Rates!Quiet /\ last # 0 => \A t \in Shown : token[t].usd_rate = last
  BY DEF RatesAloneInv, Rates!RatesAreTheLastFetched, Shown
<1>e. ASSUME \A r \in Requests : run'[r] # Idle =>
                 /\ run'[r].at = "fetching" => (Rates!PlainSyncedSymbols)' \subseteq run'[r].keys
                 /\ run'[r].at = "writing" => \A t \in Shown' : \/ token'[t].usd_rate = run'[r].price
                                                                \/ token'[t].token_symbol \in Rates!WithW(run'[r].keys),
             (\A r \in Requests : run'[r] = Idle) /\ last' # 0 => \A t \in Shown' : token'[t].usd_rate = last'
      PROVE  RatesAloneInv'
  <2>1. (\A r \in Requests : run[r] # Idle =>
             /\ run[r].at = "fetching" => Rates!PlainSyncedSymbols \subseteq run[r].keys
             /\ run[r].at = "writing" => RowsShow(run[r].price, run[r].keys))'
    BY <1>e DEF RowsShow, Rates!WithW
  <2>2. (Rates!RatesAreTheLastFetched)'
    BY <1>e DEF Rates!RatesAreTheLastFetched, Rates!Quiet, Shown
  <2> QED BY <1>a, <2>1, <2>2 DEF RatesAloneInv
<1>f. ASSUME NEW r \in Requests, Rates!syncUsdRates(r), RunsDoNotOverlap(run') PROVE RatesAloneInv'
  <2>1. run'[r] # Idle /\ run'[r].at = "reading"
    BY <1>f, BegunRun
  <2>2. \A q \in Requests : run'[q] # Idle => q = r
    BY <1>f, <2>1 DEF RunsDoNotOverlap
  <2> QED BY <1>e, <2>1, <2>2
<1>1. ASSUME Rates!marketMoves PROVE RatesAloneInv'
  BY <1>1, <1>b, <1>c, <1>d, <1>e DEF Rates!marketMoves, Rates!Quiet
<1>2. ASSUME NEW t \in Tokens, Rates!deletePaymentToken(t) PROVE RatesAloneInv'
  <2>1. \A u \in Tokens : token'[u] # NoRow => token[u] # NoRow /\ token'[u] = token[u]
    BY <1>2 DEF Rates!deletePaymentToken, RatesInv, Rates!TypeOK
  <2>2. (Rates!PlainSyncedSymbols)' \subseteq Rates!PlainSyncedSymbols /\ Shown' \subseteq Shown
    BY <2>1, ShownLater
  <2>3. \A u \in Shown' : token'[u] = token[u]
    BY <2>1 DEF Shown, Rates!Exists
  <2>4. UNCHANGED <<run, last>>
    BY <1>2 DEF Rates!deletePaymentToken
  <2> QED BY <1>c, <1>d, <1>e, <2>2, <2>3, <2>4 DEF Rates!Quiet
<1>3. ASSUME NEW r \in Requests, NEW t \in Tokens, NEW p \in Rates!Payload, Rates!savePaymentToken(t, p, r),
             RunsDoNotOverlap(run')
      PROVE  RatesAloneInv'
  BY <1>3, <1>f DEF Rates!savePaymentToken
<1>4. ASSUME NEW r \in Requests, Rates!requestSync(r), RunsDoNotOverlap(run') PROVE RatesAloneInv'
  BY <1>4, <1>f DEF Rates!requestSync
<1>5. ASSUME NEW r \in Requests, Rates!readSymbols(r) PROVE RatesAloneInv'
  <2>1. PICK keys : keys = Rates!PlainSyncedSymbols
    OBVIOUS
  <2>2. run' = [run EXCEPT ![r] = IF keys = {} THEN Idle ELSE [at |-> "fetching", keys |-> keys, price |-> 0]]
    BY <1>5, <2>1 DEF Rates!readSymbols
  <2>3. UNCHANGED <<token, last>> /\ run[r] # Idle
    BY <1>5 DEF Rates!readSymbols
  <2>4. (Rates!PlainSyncedSymbols)' = keys /\ Shown' = Shown
    BY <1>b, <2>1, <2>3
  <2>5. \A q \in Requests : run'[q] = IF q # r THEN run[q]
                                      ELSE IF keys = {} THEN Idle ELSE [at |-> "fetching", keys |-> keys, price |-> 0]
    BY <2>2 DEF RatesInv, Rates!TypeOK
  <2>6. keys = {} => Shown = {}
    BY <2>1 DEF Shown, Rates!WithW
  <2>7. \A q \in Requests : q # r => run[q] = Idle
    BY <2>3 DEF RatesAloneInv, RunsDoNotOverlap
  <2>8. CASE keys = {}
    <3>1. \A q \in Requests : run'[q] = Idle
      BY <2>5, <2>7, <2>8
    <3> QED BY <1>e, <2>4, <2>6, <2>8, <3>1
  <2>9. CASE keys # {}
    <3>1. run'[r].at = "fetching" /\ run'[r].keys = keys
      BY <2>5, <2>9
    <3>2. \A q \in Requests : q # r => run'[q] = Idle
      BY <2>5, <2>7
    <3>3. run'[r] # Idle
      <4>1. [at |-> "fetching", keys |-> keys, price |-> 0] \in Rates!Run
        BY <2>1, RatesAssumption
        DEF RatesInv, Rates!TypeOK, Rates!PlainSyncedSymbols, Rates!Exists, Rates!PaymentToken,
            Rates!Run, RatesAssumption, Rates!PriceAssumption
      <4> QED BY <2>5, <2>9, <4>1, RatesAssumption DEF RatesAssumption, Rates!NullAssumption
    <3> QED BY <1>e, <2>4, <3>1, <3>2, <3>3
  <2> QED BY <2>8, <2>9
<1>6. ASSUME NEW r \in Requests, Rates!fetchPrices(r) PROVE RatesAloneInv'
  <2>1. /\ run[r] # Idle /\ run[r].at = "fetching" /\ UNCHANGED <<token, last>>
        /\ \A q \in Requests : q # r => run'[q] = run[q]
        /\ run'[r] = [at |-> "writing", keys |-> run[r].keys \cap Quoted, price |-> market]
    BY <1>6 DEF Rates!fetchPrices, RatesInv, Rates!TypeOK
  <2>2. \A q \in Requests : q # r => run'[q] = Idle
    BY <2>1 DEF RatesAloneInv, RunsDoNotOverlap
  <2>3. Rates!PlainSyncedSymbols \cap Quoted \subseteq run'[r].keys
    BY <1>c, <2>1
  <2>4. \A t \in Shown : token[t].token_symbol \in Rates!WithW(run'[r].keys)
    BY <2>3 DEF Shown, Rates!WithW
  <2>5. run'[r] # Idle
    <3>1. [at |-> "writing", keys |-> run[r].keys \cap Quoted, price |-> market] \in Rates!Run
      BY <2>1, RatesAssumption
      DEF RatesInv, Rates!TypeOK, Rates!Run, RatesAssumption, Rates!PriceAssumption
    <3> QED BY <2>1, <3>1, RatesAssumption DEF RatesAssumption, Rates!NullAssumption
  <2>6. Shown' = Shown /\ run'[r].at = "writing"
    BY <1>b, <2>1
  <2> QED BY <1>e, <2>1, <2>2, <2>4, <2>5, <2>6
<1>7. ASSUME NEW r \in Requests, NEW key \in Rates!Symbols, Rates!writeRate(r, key) PROVE RatesAloneInv'
  <2>1. run[r] # Idle /\ run[r] \in Rates!Run /\ run[r].at = "writing" /\ key \in run[r].keys
    BY <1>7 DEF Rates!writeRate, RatesInv, Rates!TypeOK
  <2>2. /\ run' = [run EXCEPT ![r] = [run[r] EXCEPT !.keys = run[r].keys \ {key}]] /\ last' = last
        /\ token' = [t \in Tokens |-> Rates!Priced(t, {key, Wrapped[key]}, run[r].price)]
    BY <1>7 DEF Rates!writeRate, RatesInv, Rates!TypeOK
  <2>3. /\ \A q \in Requests : q # r => run'[q] = Idle
        /\ run'[r].keys = run[r].keys \ {key} /\ run'[r].price = run[r].price /\ run'[r].at = "writing"
    BY <2>1, <2>2 DEF RatesAloneInv, RunsDoNotOverlap, RatesInv, Rates!TypeOK, Rates!Run
  <2>4. run'[r] # Idle
    <3>1. [run[r] EXCEPT !.keys = run[r].keys \ {key}] \in Rates!Run
      BY <2>1 DEF Rates!Run
    <3>2. run'[r] = [run[r] EXCEPT !.keys = run[r].keys \ {key}]
      BY <2>2 DEF RatesInv, Rates!TypeOK
    <3> QED BY <3>1, <3>2, RatesAssumption DEF RatesAssumption, Rates!NullAssumption
  <2>5. \A t \in Tokens :
           IF token[t] # NoRow /\ token[t].token_symbol \in {key, Wrapped[key]}
             THEN token'[t] = [token[t] EXCEPT !.usd_rate = run[r].price]
             ELSE token'[t] = token[t]
    BY <2>2 DEF Rates!Priced, Rates!Exists
  <2>6. \A t \in Tokens : token[t] # NoRow => token[t] \in Rates!PaymentToken
    BY DEF RatesInv, Rates!TypeOK
  <2>7. \A t \in Tokens : token'[t] # NoRow =>
            /\ token[t] # NoRow /\ token'[t].token_symbol = token[t].token_symbol
            /\ token'[t].sync_rate_status = token[t].sync_rate_status /\ token'[t].plain = token[t].plain
            /\ token[t].token_symbol \in {key, Wrapped[key]} => token'[t].usd_rate = run[r].price
            /\ token[t].token_symbol \notin {key, Wrapped[key]} => token'[t].usd_rate = token[t].usd_rate
    BY <2>5, <2>6 DEF Rates!PaymentToken
  <2>8. Shown' \subseteq Shown /\ \A t \in Shown' : token'[t].token_symbol = token[t].token_symbol
    BY <2>7, ShownLater
  <2>9. \A t \in Shown' : t \in Tokens /\ token'[t] # NoRow
    BY DEF Shown, Rates!Exists
  <2>10. \A s : s \in Rates!WithW(run[r].keys) /\ s \notin {key, Wrapped[key]} => s \in Rates!WithW(run[r].keys \ {key})
    BY DEF Rates!WithW
  <2>11. ASSUME NEW t \in Shown'
         PROVE  token'[t].usd_rate = run[r].price \/ token'[t].token_symbol \in Rates!WithW(run[r].keys \ {key})
    <3>1. t \in Shown /\ t \in Tokens /\ token'[t] # NoRow /\ token'[t].token_symbol = token[t].token_symbol
      BY <2>8, <2>9
    <3>2. token[t].usd_rate = run[r].price \/ token[t].token_symbol \in Rates!WithW(run[r].keys)
      BY <1>c, <2>1, <3>1
    <3> QED BY <2>7, <2>10, <3>1, <3>2
  <2> QED BY <1>e, <2>3, <2>4, <2>11
<1>8. ASSUME NEW r \in Requests, Rates!endRun(r) PROVE RatesAloneInv'
  <2>1. /\ run[r] # Idle /\ run[r].at = "writing" /\ run[r].keys = {} /\ UNCHANGED token
        /\ run' = [run EXCEPT ![r] = Idle] /\ last' = run[r].price
    BY <1>8 DEF Rates!endRun
  <2>2. \A q \in Requests : run'[q] = Idle
    BY <2>1 DEF RatesAloneInv, RunsDoNotOverlap, RatesInv, Rates!TypeOK
  <2>3. \A s : s \notin Rates!WithW({})
    BY DEF Rates!WithW
  <2>4. Shown' = Shown /\ \A t \in Shown : token[t].usd_rate = last'
    BY <1>b, <1>c, <2>1, <2>3
  <2> QED BY <1>e, <2>1, <2>2, <2>4
<1>9. ASSUME NEW r \in Requests, Rates!failRun(r) PROVE RatesAloneInv'
  <2>1. run[r] # Idle /\ run' = [run EXCEPT ![r] = Idle] /\ last' = 0
    BY <1>9 DEF Rates!failRun
  <2>2. \A q \in Requests : run'[q] = Idle
    BY <2>1 DEF RatesAloneInv, RunsDoNotOverlap, RatesInv, Rates!TypeOK
  <2> QED BY <1>e, <2>1, <2>2
<1>10. CASE UNCHANGED Rates!vars
  BY <1>10, <1>b, <1>c, <1>d, <1>e DEF Rates!vars, Rates!Quiet
<1>11. CASE Rates!Next /\ RunsDoNotOverlap(run')
  BY <1>11, <1>1, <1>2, <1>3, <1>4, <1>5, <1>6, <1>7, <1>8, <1>9 DEF Rates!Next, Rates!Synchronise
<1> QED BY <1>10, <1>11

LEMMA RatesAloneShow == RatesAloneInv => Rates!RatesAreTheLastFetched
BY DEF RatesAloneInv

--------------------------------------------------------------------------------
(* All parts. *)

CatalogueInv ==
    /\ part \in {"races", "references", "one by one", "lists", "rates", "rates one by one"}
    /\ part = "races" => RacesInv
    /\ part = "references" => ReferencesInv
    /\ part = "one by one" => OneByOneInv
    /\ part = "lists" => Lists!TypeOK
    /\ part \in {"rates", "rates one by one"} => RatesInv
    /\ part = "rates one by one" => RatesAloneInv

LEMMA InitCatalogue == Init => CatalogueInv
BY InitRaces, InitReferences, InitOneByOne, InitLists, InitRates, InitRatesAlone
DEF Init, CatalogueInv

(* What a step of the whole is for the part that moves. *)
LEMMA PartSteps ==
    ASSUME CatalogueInv, [Next]_vars
    PROVE  /\ part' = part
           /\ part = "races" => [Races!Next]_(Races!vars)
           /\ part = "references" => [References!Next]_(References!vars)
           /\ part = "one by one" => [OneByOne!Serve]_(OneByOne!vars)
           /\ part = "lists" => [Lists!Next]_(Lists!vars)
           /\ part \in {"rates", "rates one by one"} => [Rates!Next]_(Rates!vars)
           /\ part = "rates one by one" => [Rates!Next /\ RunsDoNotOverlap(run')]_(Rates!vars)
<1>1. CASE UNCHANGED vars
  BY <1>1 DEF vars, rowVars, listVars, rateVars, Races!vars, References!vars, OneByOne!vars, Lists!vars, Rates!vars
<1>2. CASE Next
  BY <1>2 DEF Next
<1> QED BY <1>1, <1>2

LEMMA NextCatalogue == CatalogueInv /\ [Next]_vars => CatalogueInv'
<1> SUFFICES ASSUME CatalogueInv, [Next]_vars PROVE CatalogueInv'
  OBVIOUS
<1>1. CASE part = "races"
  BY <1>1, PartSteps, NextRaces DEF CatalogueInv
<1>2. CASE part = "references"
  BY <1>2, PartSteps, NextReferences DEF CatalogueInv
<1>3. CASE part = "one by one"
  BY <1>3, PartSteps, NextOneByOne DEF CatalogueInv
<1>4. CASE part = "lists"
  BY <1>4, PartSteps, NextLists DEF CatalogueInv
<1>5. CASE part = "rates"
  BY <1>5, PartSteps, NextRates DEF CatalogueInv
<1>6. CASE part = "rates one by one"
  BY <1>6, PartSteps, NextRates, NextRatesAlone DEF CatalogueInv
<1> QED BY <1>1, <1>2, <1>3, <1>4, <1>5, <1>6 DEF CatalogueInv

LEMMA CatalogueInvariant == Spec => []CatalogueInv
BY InitCatalogue, NextCatalogue, PTL DEF Spec

(* Every row, file, call, list and run keeps its type, whatever operations  *)
(* of staff and runs of syncUsdRates come between each other.              *)
THEOREM CatalogueTypes == Spec => []CatalogueTypeOK
<1>1. CatalogueInv => CatalogueTypeOK
  BY RacesIsProved, ReferencesIsProved, OneByOneIsProved
  DEF CatalogueInv, CatalogueTypeOK, RacesInv, ReferencesInv, OneByOneInv, RatesInv,
      RacesProofs!TypeInv, ReferencesProofs!TypeInv, OneByOneProofs!TypeInv
<1> QED BY <1>1, CatalogueInvariant, PTL

(* With overlapping creations, updates and deletions there is one row for a *)
(* chain_id, which follows from the slug, unique in the database, and a     *)
(* payment token never outlives its blockchain, whichever is written first. *)
THEOREM ReferencesKept == Spec => []ReferencesHold
<1>1. RacesInv => RacesProofs!OneRowPerChain
  BY RacesProofs!ChainsDiffer DEF RacesInv
<1>2. CatalogueInv => ReferencesHold
  BY <1>1, RacesIsProved, ReferencesIsProved DEF CatalogueInv, ReferencesHold, ReferencesInv
<1> QED BY <1>2, CatalogueInvariant, PTL

(* Whatever numbers are given for a status, no blockchain is both in the    *)
(* list of the active and in that of the inactive, and in neither are those *)
(* with another number; getNativeNwrapToken finds tokens of the chain asked *)
(* for only; a total of staff's lists is never above the rows its list has  *)
(* before it is cut into pages, and is their number when nothing is        *)
(* searched for.                                                           *)
THEOREM ListsRight == Spec => []ListsAreRight
<1>1. CatalogueInv => ListsAreRight
  BY ListsAreSound DEF CatalogueInv, ListsAreRight
<1> QED BY <1>1, CatalogueInvariant, PTL

(* A row loses the logo it names by an own call only, of two that overlap   *)
(* or of one whose database statement failed; when calls do not overlap,   *)
(* the missing logo is that of a row whose update failed.                  *)
THEOREM LogosKept == Spec => LogosAreKept
<1>1. CatalogueInv /\ [Next]_vars => [part = "races" => Races!OwnCallBreaksLogo]_vars
  <2> SUFFICES ASSUME CatalogueInv, Next, part = "races" PROVE Races!OwnCallBreaksLogo
    OBVIOUS
  <2>1. RacesInv /\ [Races!Next]_(Races!vars)
    BY PartSteps DEF CatalogueInv
  <2>2. [RacesProofs!Next]_(RacesProofs!vars)
    BY <2>1, RacesIsProved DEF Races!vars, RacesProofs!vars
  <2>3. RacesProofs!OwnCallBreaksLogo
    BY <2>1, <2>2, RacesConstants, RacesProofs!LogoBreaks DEF RacesInv, RacesProofs!OwnCallBreaksLogo
  <2> QED BY <2>3, RacesIsProved
<1>2. CatalogueInv => (part = "one by one" => OneByOne!LogoMissingOnlyAfterFailedUpdate)
  <2>1. OneByOneInv => OneByOneProofs!LogoMissingOnlyAfterFailedUpdate
    BY OneByOneProofs!SoleIsRight DEF OneByOneInv
  <2> QED BY <2>1, OneByOneIsProved DEF CatalogueInv
<1> QED BY <1>1, <1>2, CatalogueInvariant, PTL DEF Spec, LogosAreKept

(* The exchange rates: a rate that staff entered for a row that is not      *)
(* synchronised stays until a synchronised row has had its symbol; when     *)
(* runs do not overlap, the rows whose symbol was read show what the last   *)
(* run has fetched.                                                        *)
THEOREM RatesRight == Spec => RatesAreRight
<1>1. CatalogueInv /\ [Next]_vars => [part = "rates" => Rates!ManualRateIsKept]_vars
  <2> SUFFICES ASSUME CatalogueInv, Next, part = "rates" PROVE Rates!ManualRateIsKept
    OBVIOUS
  <2>1. RatesInv /\ Rates!Next
    BY DEF CatalogueInv, Next
  <2> QED BY <2>1, ManualKept
<1>2. CatalogueInv => (part = "rates one by one" => Rates!RatesAreTheLastFetched)
  BY RatesAloneShow DEF CatalogueInv
<1> QED BY <1>1, <1>2, CatalogueInvariant, PTL DEF Spec, RatesAreRight

================================================================================
