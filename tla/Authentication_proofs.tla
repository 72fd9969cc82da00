------------------------- MODULE Authentication_proofs -------------------------
(***************************************************************************)
(* Theorems about wallet login, about tokens and guards, and about both    *)
(* together, for all wallets, codes, rows, ids, requests, expiries and     *)
(* clocks.                                                                 *)
(***************************************************************************)
EXTENDS MCAuthentication, TLAPS

--------------------------------------------------------------------------------
(* Wallet login.                                                           *)

(* A row that has not been created is not in the table and has no token. *)
UnissuedIsUnused ==
    \A k \in RowIds : challenge[k] = Unissued => k \notin live /\ tokens[k] = 0

(* A row in the table has not yielded a token. *)
LiveIsUnspent == \A k \in live : tokens[k] = 0

(* A call that verified a signature holds a row whose text was signed. *)
VerifiedHoldsSigned ==
    \A r \in Requests : pc[r] \in {"verified", "deleted"}
        => found[r] \in RowIds /\ challenge[found[r]] \in signed

(* A call that deleted its row is the only one that did, and the row has   *)
(* not yielded its token yet.                                              *)
DeleterOwnsRow ==
    /\ \A r \in Requests : pc[r] = "deleted"
           => found[r] \notin live /\ tokens[found[r]] = 0
    /\ \A r, q \in Requests :
           pc[r] = "deleted" /\ pc[q] = "deleted" /\ found[r] = found[q] => r = q

CreatorNamesWallet ==
    \A r \in Requests : pc[r] = "creating" => missing[r] \in Wallets

(* The inductive invariant. *)
IInv ==
    /\ TypeOK
    /\ UnissuedIsUnused
    /\ LiveIsUnspent
    /\ VerifiedHoldsSigned
    /\ DeleterOwnsRow
    /\ CreatorNamesWallet
    /\ ChallengeRedeemedOnce
    /\ TokensWereSigned

USE UnissuedAssumption, NoRowAssumption, NoWalletAssumption

LEMMA InitIInv == Init => IInv
BY DEF Init, IInv, TypeOK, UnissuedIsUnused, LiveIsUnspent, VerifiedHoldsSigned,
       DeleterOwnsRow, CreatorNamesWallet, ChallengeRedeemedOnce, TokensWereSigned

LEMMA StepIInv == IInv /\ [Next]_vars => IInv'
<1> SUFFICES ASSUME IInv, [Next]_vars PROVE IInv'
  OBVIOUS
<1> USE DEF IInv, TypeOK, UnissuedIsUnused, LiveIsUnspent, VerifiedHoldsSigned,
            DeleterOwnsRow, CreatorNamesWallet, ChallengeRedeemedOnce,
            TokensWereSigned, Text
<1>1. ASSUME NEW w \in Wallets, NEW c \in Codes, NEW k \in RowIds,
             generateLoginMessage(w, c, k)
      PROVE  IInv'
  BY <1>1 DEF generateLoginMessage, Status
<1>2. ASSUME NEW text \in Text, signMessage(text) PROVE IInv'
  BY <1>2 DEF signMessage
<1>3. ASSUME NEW r \in Requests, NEW w \in Wallets, NEW c \in Codes,
             NEW signer \in Wallets, NEW k \in RowIds,
             walletLogin(r, w, c, signer, k)
      PROVE  IInv'
  BY <1>3 DEF walletLogin, CanSign
<1>4. ASSUME NEW r \in Requests, NEW w \in Wallets, lookupMisses(r, w) PROVE IInv'
  BY <1>4 DEF lookupMisses
<1>5. ASSUME NEW w \in Wallets, NEW s \in Status, updateUserStatus(w, s) PROVE IInv'
  BY <1>5 DEF updateUserStatus
<1>6. ASSUME NEW r \in Requests, deleteNonce(r) PROVE IInv'
  BY <1>6 DEF deleteNonce
<1>7. ASSUME NEW r \in Requests, deleteNonceFails(r) PROVE IInv'
  BY <1>7 DEF deleteNonceFails, Finish
<1>8. ASSUME NEW r \in Requests, generateToken(r) PROVE IInv'
  BY <1>8 DEF generateToken, Finish
<1>9. ASSUME NEW r \in Requests, createUser(r) PROVE IInv'
  BY <1>9 DEF createUser, Finish, Status
<1>10. ASSUME NEW r \in Requests, loseCall(r) PROVE IInv'
  BY <1>10 DEF loseCall, Finish
<1>11. CASE UNCHANGED vars
  BY <1>11 DEF vars
<1>12. QED
  BY <1>1, <1>2, <1>3, <1>4, <1>5, <1>6, <1>7, <1>8, <1>9, <1>10, <1>11
     DEF Next, Serve, Answer

(* Every reachable state satisfies the inductive invariant. *)
THEOREM IInvHolds == Spec => []IInv
BY InitIInv, StepIInv, PTL DEF Spec

(* Every variable keeps its type: statuses, rows, calls in flight, counts. *)
THEOREM TypeCorrect == Spec => []TypeOK
<1>1. IInv => TypeOK
  BY DEF IInv
<1>2. QED
  BY <1>1, IInvHolds, PTL

(* walletLogin never returns two tokens for one row of wallet_login_nonces, *)
(* for any number of calls that race between its findFirst and its delete. *)
THEOREM RedeemedOnce == Spec => []ChallengeRedeemedOnce
<1>1. IInv => ChallengeRedeemedOnce
  BY DEF IInv
<1>2. QED
  BY <1>1, IInvHolds, PTL

(* walletLogin returns a token only for a text the wallet itself signed. *)
THEOREM SignedBeforeToken == Spec => []TokensWereSigned
<1>1. IInv => TokensWereSigned
  BY DEF IInv
<1>2. QED
  BY <1>1, IInvHolds, PTL

--------------------------------------------------------------------------------
(* deleteNonce is the only action that removes a row, and a call reaches it *)
(* only after walletLogin has recovered the signer.                        *)
THEOREM OnlyVerifiedConsumes == Spec => OnlyVerifiedLoginConsumes
<1>1. TypeOK /\ [Next]_vars => [ConsumedByVerified]_vars
  <2> SUFFICES ASSUME TypeOK, Next PROVE ConsumedByVerified
    OBVIOUS
  <2> USE DEF ConsumedByVerified
  <2>1. ASSUME NEW r \in Requests, deleteNonce(r) PROVE ConsumedByVerified
    BY <2>1 DEF deleteNonce, TypeOK
  <2>2. CASE live' = live \/ live \subseteq live'
    BY <2>2
  <2>3. QED
    BY <2>1, <2>2
       DEF Next, Serve, Answer, generateLoginMessage, signMessage, walletLogin,
           lookupMisses, updateUserStatus, deleteNonceFails, generateToken,
           createUser, loseCall
<1>2. QED
  BY <1>1, TypeCorrect, PTL DEF Spec, OnlyVerifiedLoginConsumes

(* createUser and the connectOrCreate of generateLoginMessage leave the     *)
(* status of an existing account alone.                                    *)
THEOREM OnlyStaffChanges == Spec => OnlyStaffChangeStatus
<1>1. IInv /\ [Next]_vars => [StatusChangedByStaff]_vars
  <2> SUFFICES ASSUME IInv, Next PROVE StatusChangedByStaff
    OBVIOUS
  <2> USE DEF IInv, TypeOK, StatusChangedByStaff
  <2>1. ASSUME NEW w \in Wallets, NEW c \in Codes, NEW k \in RowIds,
               generateLoginMessage(w, c, k)
        PROVE  StatusChangedByStaff
    BY <2>1 DEF generateLoginMessage
  <2>2. ASSUME NEW r \in Requests, createUser(r) PROVE StatusChangedByStaff
    BY <2>2 DEF createUser, CreatorNamesWallet
  <2>3. ASSUME NEW w \in Wallets, NEW s \in Status, updateUserStatus(w, s) PROVE StatusChangedByStaff
    BY <2>3 DEF updateUserStatus, rowVars
  <2>4. CASE status' = status
    BY <2>4
  <2>5. QED
    BY <2>1, <2>2, <2>3, <2>4
       DEF Next, Serve, Answer, signMessage, walletLogin, lookupMisses, deleteNonce,
           deleteNonceFails, generateToken, loseCall
<1>2. QED
  BY <1>1, IInvHolds, PTL DEF Spec, OnlyStaffChangeStatus

(* No refused, lost or racing call burns a challenge or changes an account. *)
THEOREM LoginStepsJustified == Spec => LoginStepsAreJustified
BY OnlyVerifiedConsumes, OnlyStaffChanges, PTL DEF LoginStepsAreJustified

--------------------------------------------------------------------------------
(* The stages of all challenges, and the challenges whose text has been signed. *)
Stage == [k \in RowIds |-> StageOf(k)]

Approved == {k \in RowIds : challenge[k] \in signed}

(* A step that changes the stage of one challenge. *)
LEMMA StageUpdate ==
    ASSUME NEW k \in RowIds, NEW new, StageOf(k)' = new,
           \A j \in RowIds \ {k} : StageOf(j)' = StageOf(j)
    PROVE  Stage' = [Stage EXCEPT ![k] = new]
BY DEF Stage

(* A step that leaves rows, signatures and tokens alone is a stutter of the *)
(* one-time challenge.                                                     *)
LEMMA QuietStep ==
    ASSUME UNCHANGED <<challenge, live, signed, tokens>>
    PROVE  UNCHANGED Challenge!challengeVars
BY DEF Challenge!challengeVars, StageOf

LEMMA InitMapsToInit == Init => Challenge!ChallengeInit
BY DEF Init, Challenge!ChallengeInit, StageOf

LEMMA StepMapsToStep ==
    IInv /\ [Next]_vars => [Challenge!ChallengeNext]_(Challenge!challengeVars)
<1> SUFFICES ASSUME IInv, [Next]_vars
             PROVE  [Challenge!ChallengeNext]_(Challenge!challengeVars)
  OBVIOUS
<1> USE DEF IInv, TypeOK
<1>1. ASSUME NEW w \in Wallets, NEW c \in Codes, NEW k \in RowIds,
             generateLoginMessage(w, c, k)
      PROVE  Challenge!Issue(k)
  <2> DEFINE text == [wallet |-> w, code |-> c]
  <2>1. /\ challenge[k] = Unissued
        /\ challenge' = [challenge EXCEPT ![k] = text]
        /\ live' = live \cup {k}
        /\ UNCHANGED <<signed, tokens>>
    BY <1>1 DEF generateLoginMessage
  <2>2. text # Unissued
    BY DEF Text
  <2>3. tokens[k] = 0
    BY <2>1 DEF UnissuedIsUnused
  <2>4. Stage' = [Stage EXCEPT ![k] = "open"]
    <3>1. StageOf(k)' = "open"
      BY <2>1, <2>2, <2>3 DEF StageOf
    <3>2. \A j \in RowIds \ {k} : StageOf(j)' = StageOf(j)
      BY <2>1 DEF StageOf
    <3>3. QED
      BY <3>1, <3>2, StageUpdate
  <2>5. Stage[k] = "new"
    BY <2>1 DEF Stage, StageOf
  <2>6. Approved' \in {Approved, Approved \cup {k}}
    <3>1. CASE text \in signed
      BY <2>1, <3>1 DEF Approved
    <3>2. CASE text \notin signed
      BY <2>1, <3>2, UnissuedAssumption DEF Approved
    <3>3. QED
      BY <3>1, <3>2
  <2>7. QED
    BY <2>4, <2>5, <2>6 DEF Challenge!Issue, Approved, Stage
<1>2. ASSUME NEW text \in Text, signMessage(text)
      PROVE  \E ks \in SUBSET RowIds : Challenge!Approve(ks)
  <2> DEFINE ks == {k \in RowIds : challenge[k] = text}
  <2>1. Approved' = Approved \cup ks
    BY <1>2 DEF signMessage, Approved
  <2>2. Stage' = Stage
    BY <1>2 DEF signMessage, Stage, StageOf
  <2>3. ks \in SUBSET RowIds
    OBVIOUS
  <2> HIDE DEF ks
  <2>4. QED
    BY <2>1, <2>2, <2>3 DEF Challenge!Approve, Approved, Stage
<1>3. ASSUME NEW r \in Requests, deleteNonce(r)
      PROVE  Challenge!Take(found[r]) /\ found[r] \in RowIds
  <2>0. PICK k \in RowIds : k = found[r] /\ challenge[k] \in signed
    BY <1>3 DEF deleteNonce, VerifiedHoldsSigned
  <2>1. /\ k \in live
        /\ live' = live \ {k}
        /\ UNCHANGED <<challenge, signed, tokens>>
    BY <1>3, <2>0 DEF deleteNonce
  <2>3. challenge[k] # Unissued /\ tokens[k] = 0
    BY <2>1 DEF UnissuedIsUnused, LiveIsUnspent
  <2>4. Stage[k] = "open" /\ Stage' = [Stage EXCEPT ![k] = "taken"]
    <3>1. StageOf(k) = "open" /\ StageOf(k)' = "taken"
      BY <2>0, <2>1, <2>3 DEF StageOf
    <3>2. \A j \in RowIds \ {k} : StageOf(j)' = StageOf(j)
      BY <2>1 DEF StageOf
    <3>3. QED
      BY <3>1, <3>2, StageUpdate DEF Stage
  <2>5. QED
    BY <2>0, <2>1, <2>4 DEF Challenge!Take, Stage
<1>4. ASSUME NEW r \in Requests, generateToken(r)
      PROVE  Challenge!Admit(found[r]) /\ found[r] \in RowIds
  <2>0. PICK k \in RowIds : k = found[r] /\ challenge[k] \in signed
    BY <1>4 DEF generateToken, VerifiedHoldsSigned
  <2>1. /\ tokens' = [tokens EXCEPT ![k] = @ + 1]
        /\ UNCHANGED <<challenge, live, signed>>
    BY <1>4, <2>0 DEF generateToken
  <2>3. k \notin live /\ tokens[k] = 0
    BY <1>4, <2>0 DEF generateToken, DeleterOwnsRow
  <2>4. challenge[k] # Unissued
    BY <2>0, UnissuedAssumption
  <2>5. Stage[k] = "taken" /\ Stage' = [Stage EXCEPT ![k] = "admitted"]
    <3>1. StageOf(k) = "taken" /\ StageOf(k)' = "admitted"
      BY <2>1, <2>3, <2>4 DEF StageOf
    <3>2. \A j \in RowIds \ {k} : StageOf(j)' = StageOf(j)
      BY <2>1 DEF StageOf
    <3>3. QED
      BY <3>1, <3>2, StageUpdate DEF Stage
  <2>6. QED
    BY <2>0, <2>1, <2>5 DEF Challenge!Admit, Stage
<1>5. ASSUME NEW r \in Requests,
             \/ deleteNonceFails(r) \/ createUser(r) \/ loseCall(r)
             \/ \E w \in Wallets : lookupMisses(r, w)
             \/ \E w \in Wallets, c \in Codes, signer \in Wallets, k \in RowIds :
                    walletLogin(r, w, c, signer, k)
      PROVE  UNCHANGED Challenge!challengeVars
  BY <1>5, QuietStep
     DEF deleteNonceFails, createUser, loseCall, lookupMisses, walletLogin
<1>6. ASSUME NEW w \in Wallets, NEW s \in Status, updateUserStatus(w, s)
      PROVE  UNCHANGED Challenge!challengeVars
  BY <1>6, QuietStep DEF updateUserStatus
<1>7. CASE UNCHANGED vars
  BY <1>7, QuietStep DEF vars
<1>8. QED
  BY <1>1, <1>2, <1>3, <1>4, <1>5, <1>6, <1>7
     DEF Next, Serve, Answer, Challenge!ChallengeNext

(* Wallet login implements the one-time challenge: a row is issued, its    *)
(* text approved, the row taken and a session handed out, each only once,  *)
(* and no other step of the code is visible.                               *)
THEOREM LoginIsOneTimeChallenge == Spec => ImplementsOneTimeChallenge
BY InitMapsToInit, StepMapsToStep, IInvHolds, PTL
   DEF Spec, ImplementsOneTimeChallenge, Challenge!ChallengeSpec

--------------------------------------------------------------------------------
(* Tokens. *)

USE TokensAssumption DEF Tokens!TTLAssumption, Tokens!MaxTimeAssumption

(* What generateToken issues are tokens that die one TTL from now.          *)
LEMMA GeneratedAreTokens ==
    ASSUME Tokens!TypeOK, NEW p \in Tokens!Providers, NEW i \in Ids, NEW since \in Tokens!Time
    PROVE  /\ Tokens!generateToken(p, i, since) \subseteq Tokens!Token
           /\ \A t \in Tokens!generateToken(p, i, since) : t.exp = now + TTL
<1>1. now + TTL \in 0..(MaxTime + TTL)
  BY DEF Tokens!TypeOK, Tokens!Time
<1> QED BY <1>1 DEF Tokens!generateToken, Tokens!Token

(* A guard refuses, or admits nobody or the account of the token.           *)
LEMMA DecisionIsActor ==
    ASSUME NEW g, NEW t, NEW s, t.id \in Ids
    PROVE  Tokens!handleRequest(g, t, s) \in [admitted: BOOLEAN, id: Ids \cup {NoId}]
BY DEF Tokens!handleRequest, Tokens!checkUserStatus, Tokens!Waiting, Tokens!RunsAs

(* A request waits with a token that was issued: tokens are only added.     *)
PresentedWasIssued == \A r \in Slots : presented[r] # NoToken => presented[r] \in issued

TokensInv ==
    /\ Tokens!TypeOK
    /\ Tokens!NothingOutlivesTTL
    /\ PresentedWasIssued

LEMMA TokensInitInv == Tokens!Init => TokensInv
BY DEF Tokens!Init, TokensInv, Tokens!TypeOK, Tokens!NothingOutlivesTTL, PresentedWasIssued,
       Tokens!Time, Tokens!Providers, Tokens!Status, Tokens!Guard, Tokens!Waiting

(* A step that issues tokens for an account, after a login or a refresh.    *)
LEMMA IssuingKeepsInv ==
    ASSUME TokensInv, NEW p \in Tokens!Providers, NEW i \in Ids, NEW since \in Tokens!Time,
           issued' = issued \cup Tokens!generateToken(p, i, since),
           UNCHANGED <<now, account, presented, guard, actor>>
    PROVE  TokensInv'
<1>1. Tokens!TypeOK'
  BY GeneratedAreTokens DEF TokensInv, Tokens!TypeOK
<1>2. Tokens!NothingOutlivesTTL'
  <2>1. now \in Nat
    BY DEF TokensInv, Tokens!TypeOK, Tokens!Time
  <2> QED BY <2>1, GeneratedAreTokens DEF TokensInv, Tokens!NothingOutlivesTTL
<1>3. PresentedWasIssued'
  BY DEF TokensInv, PresentedWasIssued
<1> QED BY <1>1, <1>2, <1>3 DEF TokensInv

(* A request is let go, whatever it had.                                    *)
LEMMA FinishKeepsInv ==
    ASSUME TokensInv, NEW r \in Slots, Tokens!Finish(r), UNCHANGED <<now, account, issued>>
    PROVE  TokensInv'
BY DEF TokensInv, Tokens!TypeOK, Tokens!NothingOutlivesTTL, PresentedWasIssued, Tokens!Finish,
       Tokens!Guard, Tokens!Providers, Tokens!Waiting

LEMMA TokensNextInv == TokensInv /\ [Tokens!Next]_(Tokens!vars) => TokensInv'
<1> SUFFICES ASSUME TokensInv, [Tokens!Next]_(Tokens!vars) PROVE TokensInv'
  OBVIOUS
<1> USE DEF TokensInv
<1>1. ASSUME NEW p \in Tokens!Providers, NEW i \in Ids, Tokens!login(p, i) PROVE TokensInv'
  <2>1. now \in Tokens!Time
    BY DEF Tokens!TypeOK
  <2> QED BY <1>1, <2>1, IssuingKeepsInv DEF Tokens!login
<1>2. ASSUME NEW t \in issued, Tokens!refreshToken(t) PROVE TokensInv'
  <2>1. t.provider \in Tokens!Providers /\ t.id \in Ids /\ t.since \in Tokens!Time
    BY DEF Tokens!TypeOK, Tokens!Token
  <2> QED BY <1>2, <2>1, IssuingKeepsInv DEF Tokens!refreshToken
<1>3. ASSUME NEW r \in Slots, NEW g \in Tokens!Guard, NEW t \in issued, Tokens!arrive(r, g, t)
      PROVE TokensInv'
  BY <1>3 DEF Tokens!arrive, Tokens!TypeOK, Tokens!NothingOutlivesTTL, PresentedWasIssued, Tokens!Waiting
<1>4. ASSUME NEW r \in Slots, NEW g \in Tokens!Guard, Tokens!arriveAnonymous(r, g) PROVE TokensInv'
  BY <1>4 DEF Tokens!arriveAnonymous, Tokens!TypeOK, Tokens!NothingOutlivesTTL, PresentedWasIssued,
              Tokens!RunsAs
<1>5. ASSUME NEW r \in Slots, Tokens!validate(r) PROVE TokensInv'
  <2> DEFINE t == presented[r]
             decision == Tokens!handleRequest(guard[r], t, account[t.provider][t.id])
  <2>1. t \in Tokens!Token /\ t.id \in Ids
    BY <1>5 DEF Tokens!validate, Tokens!TypeOK, Tokens!Token
  <2>2. decision \in [admitted: BOOLEAN, id: Ids \cup {NoId}]
    BY <2>1, DecisionIsActor
  <2>3. CASE ~decision.admitted
    BY <1>5, <2>3, FinishKeepsInv DEF Tokens!validate
  <2>4. CASE decision.admitted
    <3>1. actor' = [actor EXCEPT ![r] = decision] /\ UNCHANGED <<now, account, issued, presented, guard>>
      BY <1>5, <2>4 DEF Tokens!validate
    <3> HIDE DEF decision
    <3> QED BY <2>2, <3>1 DEF Tokens!TypeOK, Tokens!NothingOutlivesTTL, PresentedWasIssued
  <2> QED BY <2>3, <2>4
<1>6. ASSUME NEW r \in Slots, Tokens!answer(r) PROVE TokensInv'
  BY <1>6, FinishKeepsInv DEF Tokens!answer
<1>7. ASSUME NEW p \in Tokens!Providers, NEW i \in Ids, NEW s \in Tokens!Status,
             Tokens!changeAccount(p, i, s)
      PROVE TokensInv'
  BY <1>7 DEF Tokens!changeAccount, Tokens!TypeOK, Tokens!NothingOutlivesTTL, PresentedWasIssued
<1>8. CASE Tokens!tick
  <2>1. \A t \in issued : t.exp \in Nat
    BY DEF Tokens!TypeOK, Tokens!Token
  <2>2. now \in Nat /\ now' = now + 1 /\ now' \in Tokens!Time
    BY <1>8 DEF Tokens!tick, Tokens!TypeOK, Tokens!Time
  <2>3. Tokens!NothingOutlivesTTL'
    BY <1>8, <2>1, <2>2 DEF Tokens!tick, Tokens!NothingOutlivesTTL
  <2> QED BY <1>8, <2>2, <2>3 DEF Tokens!tick, Tokens!TypeOK, PresentedWasIssued
<1>9. CASE UNCHANGED Tokens!vars
  BY <1>9 DEF Tokens!vars, Tokens!TypeOK, Tokens!NothingOutlivesTTL, PresentedWasIssued
<1> QED BY <1>1, <1>2, <1>3, <1>4, <1>5, <1>6, <1>7, <1>8, <1>9 DEF Tokens!Next

(* No token outlives one expiry from now, for any expiry and any number of  *)
(* logins, refreshes and requests.                                         *)
THEOREM NothingOutlives == Tokens!Spec => []Tokens!NothingOutlivesTTL
<1>1. TokensInv => Tokens!NothingOutlivesTTL
  BY DEF TokensInv
<1> QED BY <1>1, TokensInitInv, TokensNextInv, PTL DEF Tokens!Spec

(* Only a login of now or a refresh token that has not expired makes new    *)
(* tokens: refreshToken verifies, and nothing else but login issues.       *)
THEOREM NoRevival == Tokens!Spec => Tokens!SessionsDoNotRevive
<1> DEFINE Descends(t) ==
        \/ t.since = now
        \/ \E u \in issued : /\ u.use = "refresh" /\ now < u.exp
                           /\ u.provider = t.provider /\ u.id = t.id /\ u.since = t.since
<1>1. [Tokens!Next]_(Tokens!vars) => [\A t \in issued' \ issued : Descends(t)]_(Tokens!vars)
  <2> SUFFICES ASSUME Tokens!Next, NEW t \in issued' \ issued PROVE Descends(t)
    OBVIOUS
  <2>1. ASSUME NEW p \in Tokens!Providers, NEW i \in Ids, Tokens!login(p, i) PROVE Descends(t)
    BY <2>1 DEF Tokens!login, Tokens!generateToken
  <2>2. ASSUME NEW u \in issued, Tokens!refreshToken(u) PROVE Descends(t)
    BY <2>2 DEF Tokens!refreshToken, Tokens!generateToken, Tokens!Verifies
  <2>3. \/ \E p \in Tokens!Providers, i \in Ids : Tokens!login(p, i)
        \/ \E u \in issued : Tokens!refreshToken(u)
    BY DEF Tokens!Next, Tokens!arrive, Tokens!arriveAnonymous, Tokens!validate, Tokens!Finish,
           Tokens!answer, Tokens!changeAccount, Tokens!tick
  <2> QED BY <2>1, <2>2, <2>3
<1> QED BY <1>1, PTL DEF Tokens!Spec, Tokens!SessionsDoNotRevive

(* Sessions end, and for good.                                              *)
THEOREM SessionsAreOver == Tokens!Spec => SessionsEnd
BY NothingOutlives, NoRevival, PTL DEF SessionsEnd, Tokens!SessionsEnd

(* Who is admitted as an account has come with a token that was issued for  *)
(* it, to a guard of its table, and was active when the guard read it; an  *)
(* equal id in the other table does not do, nor does a status that was     *)
(* read before the token was.                                              *)
THEOREM OnlyActiveAccounts == Tokens!Spec => AdmittedAsActiveAccount
<1> DEFINE Admitted(r) == actor'[r] # actor[r] /\ actor'[r].admitted /\ actor'[r].id # NoId
           Justified(r) ==
               /\ presented[r] \in issued
               /\ presented[r].provider = guard[r].provider
               /\ presented[r].id = actor'[r].id
               /\ account[guard[r].provider][actor'[r].id] = "active"
<1>1. TokensInv /\ [Tokens!Next]_(Tokens!vars)
        => [\A r \in Slots : Admitted(r) => Justified(r)]_(Tokens!vars)
  <2> SUFFICES ASSUME TokensInv, Tokens!Next, NEW r \in Slots, Admitted(r) PROVE Justified(r)
    OBVIOUS
  <2>1. actor \in [Slots -> [admitted: BOOLEAN, id: Ids \cup {NoId}]]
    BY DEF TokensInv, Tokens!TypeOK
  <2>2. ASSUME NEW q \in Slots, actor' = [actor EXCEPT ![q] = Tokens!Waiting] PROVE FALSE
    BY <2>1, <2>2 DEF Tokens!Waiting
  <2>3. ASSUME NEW q \in Slots, NEW g \in Tokens!Guard, Tokens!arriveAnonymous(q, g) PROVE FALSE
    BY <2>1, <2>3 DEF Tokens!arriveAnonymous, Tokens!RunsAs
  <2>4. ASSUME NEW q \in Slots, Tokens!validate(q) PROVE Justified(r)
    <3> DEFINE t == presented[q]
               s == account[t.provider][t.id]
               decision == Tokens!handleRequest(guard[q], t, s)
    <3>1. actor' = [actor EXCEPT ![q] = decision] /\ presented[q] # NoToken
      BY <2>2, <2>4 DEF Tokens!validate, Tokens!Finish
    <3>2. q = r /\ decision.admitted /\ decision.id # NoId /\ actor'[r] = decision
      BY <2>1, <3>1
    <3>3. t.provider = guard[q].provider /\ decision = Tokens!checkUserStatus(s, t.id)
      BY <3>2 DEF Tokens!handleRequest, Tokens!RunsAs, Tokens!Waiting
    <3>4. s = "active" /\ decision.id = t.id
      BY <3>2, <3>3 DEF Tokens!checkUserStatus, Tokens!RunsAs, Tokens!Waiting
    <3>5. presented[q] \in issued
      BY <3>1 DEF TokensInv, PresentedWasIssued
    <3> QED BY <3>2, <3>3, <3>4, <3>5
  <2>5. ASSUME UNCHANGED actor PROVE FALSE
    BY <2>5
  <2> QED BY <2>2, <2>3, <2>4, <2>5 DEF Tokens!Next, Tokens!login, Tokens!refreshToken,
              Tokens!arrive, Tokens!answer, Tokens!Finish, Tokens!changeAccount, Tokens!tick
<1> QED BY <1>1, TokensInitInv, TokensNextInv, PTL DEF Tokens!Spec, AdmittedAsActiveAccount, Tokens!AdmittedAsActiveAccount

--------------------------------------------------------------------------------
(* Logins and tokens side by side.                                          *)

(* Neither disturbs the other: each has the behaviours of its own module.   *)
THEOREM SideBySide == MCSpec => Spec /\ Tokens!Spec
<1>1. MCInit => Init /\ Tokens!Init
  BY DEF MCInit
<1>2. [LoginsNext \/ TokensNext]_<<part, vars, tokenVars>> => [Next]_vars /\ [Tokens!Next]_(Tokens!vars)
  BY DEF LoginsNext, TokensNext, tokenVars, vars, Tokens!vars
<1> QED BY <1>1, <1>2, PTL DEF MCSpec, Spec, Tokens!Spec

(* Every variable of both modules keeps its type.                           *)
THEOREM TypesCorrect == MCSpec => []TypesOK
<1>1. TokensInv => Tokens!TypeOK
  BY DEF TokensInv
<1>2. Tokens!Spec => []Tokens!TypeOK
  BY <1>1, TokensInitInv, TokensNextInv, PTL DEF Tokens!Spec
<1> QED BY <1>2, SideBySide, TypeCorrect, PTL DEF TypesOK
================================================================================
