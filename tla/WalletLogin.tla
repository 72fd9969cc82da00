------------------------------ MODULE WalletLogin ------------------------------
(***************************************************************************)
(* Login by wallet signature (src/src/app/modules/auth/user.auth.service.ts)*)
(* and the creation of the accounts it logs in to.                         *)
(*                                                                         *)
(* generateLoginMessage stores a row of wallet_login_nonces and returns a  *)
(* text that names the wallet and the row's six-digit code.  walletLogin   *)
(* looks the row up by wallet and code, recovers the signer of that text,  *)
(* deletes the row and returns a token.  Every await of a handler is a     *)
(* place where other requests run, so a call in flight is kept in `pc` and *)
(* `found` and each database statement is an action of its own.  What the  *)
(* code does between two awaits belongs to the statement before it.        *)
(*                                                                         *)
(* Calls that are refused before they change anything (unknown row,        *)
(* refused status, a signature that does not recover to the address, an    *)
(* address that is not spelled with its checksum) are stuttering steps.    *)
(***************************************************************************)
EXTENDS Naturals

CONSTANTS
    Wallets,    \* wallet addresses
    Codes,      \* values of getRandomNumber(6)
    RowIds,     \* ids of wallet_login_nonces; the database uses each once
    Requests,   \* calls that may be in flight at once
    Unissued,   \* a row id that has not been used
    NoRow,      \* a call that has not read a row
    NoWallet    \* a call that is not about to create an account

Text == [wallet: Wallets, code: Codes]

ASSUME UnissuedAssumption == Unissued \notin Text
ASSUME NoRowAssumption == NoRow \notin RowIds
ASSUME NoWalletAssumption == NoWallet \notin Wallets

VARIABLES
    status,     \* users.status of the account of each wallet, or "none"
    challenge,  \* the wallet and code every row id was created with
    live,       \* the row ids that are in the table
    returned,   \* texts returned to the caller of generateLoginMessage
    signed,     \* texts their own wallet has signed
    pc,         \* where each call in flight is
    found,      \* the row a walletLogin call has read
    missing,    \* the wallet an account lookup is about to create
    tokens      \* tokens returned for each row

accountVars == <<status, missing>>
rowVars == <<challenge, live>>
vars == <<status, challenge, live, returned, signed, pc, found, missing, tokens>>

(* STATUS_ACTIVE, STATUS_INACTIVE and STATUS_SUSPENDED; "other" stands for  *)
(* the values updateUserStatus also accepts and checkUserStatus does not    *)
(* mention.                                                                *)
Status == {"active", "inactive", "suspended", "other"}

(* checkUserStatus throws for these two values only. *)
checkUserStatus(s) == s \notin {"inactive", "suspended"}

TypeOK ==
    /\ status \in [Wallets -> Status \cup {"none"}]
    /\ challenge \in [RowIds -> Text \cup {Unissued}]
    /\ live \subseteq RowIds
    /\ returned \subseteq Text
    /\ signed \subseteq Text
    /\ pc \in [Requests -> {"idle", "creating", "verified", "deleted"}]
    /\ found \in [Requests -> RowIds \cup {NoRow}]
    /\ missing \in [Requests -> Wallets \cup {NoWallet}]
    /\ tokens \in [RowIds -> Nat]

Init ==
    /\ status = [w \in Wallets |-> "none"]
    /\ challenge = [k \in RowIds |-> Unissued]
    /\ live = {}
    /\ returned = {}
    /\ signed = {}
    /\ pc = [r \in Requests |-> "idle"]
    /\ found = [r \in Requests |-> NoRow]
    /\ missing = [r \in Requests |-> NoWallet]
    /\ tokens = [k \in RowIds |-> 0]

--------------------------------------------------------------------------------
(* One create statement connects or creates the user and inserts the row;  *)
(* the status check follows, so a refused account keeps the row although   *)
(* the text is not returned.                                               *)
generateLoginMessage(w, c, k) ==
    LET text == [wallet |-> w, code |-> c]
    IN  /\ challenge[k] = Unissued
        /\ challenge' = [challenge EXCEPT ![k] = text]
        /\ live' = live \cup {k}
        /\ status' = [status EXCEPT ![w] = IF @ = "none" THEN "active" ELSE @]
        /\ returned' = IF checkUserStatus(status'[w])
                         THEN returned \cup {text} ELSE returned
        /\ UNCHANGED <<signed, pc, found, missing, tokens>>

(* The owner of the wallet signs a text the service returned. *)
signMessage(text) ==
    /\ text \in returned
    /\ signed' = signed \cup {text}
    /\ UNCHANGED <<status, challenge, live, returned, pc, found, missing, tokens>>

(* Anyone can sign with another key; only its owner can sign for a wallet. *)
CanSign(signer, text) == signer = text.wallet => text \in signed

(* Variant: whose signature it is is not compared with the address. *)
walletLogin_AnySigner(r, w, c, signer, k) ==
    /\ pc[r] = "idle"
    /\ k \in live /\ challenge[k] = [wallet |-> w, code |-> c]
    /\ checkUserStatus(status[w])
    /\ pc' = [pc EXCEPT ![r] = "verified"]
    /\ found' = [found EXCEPT ![r] = k]
    /\ UNCHANGED <<status, challenge, live, returned, signed, missing, tokens>>

(* Variant: the row is deleted as soon as it is read, before the signature  *)
(* is looked at.                                                           *)
walletLogin_DeletesFirst(r, w, c, signer, k) ==
    /\ pc[r] = "idle"
    /\ k \in live /\ challenge[k] = [wallet |-> w, code |-> c]
    /\ live' = live \ {k}
    /\ IF signer = w /\ CanSign(signer, challenge[k])
         THEN /\ pc' = [pc EXCEPT ![r] = "deleted"]
              /\ found' = [found EXCEPT ![r] = k]
         ELSE UNCHANGED <<pc, found>>
    /\ UNCHANGED <<status, challenge, returned, signed, missing, tokens>>

(* findFirst returns some row with this code and wallet.  The status check  *)
(* and the recovery of the signer follow without an await.                 *)
walletLogin(r, w, c, signer, k) ==
    LET text == [wallet |-> w, code |-> c]
    IN  /\ pc[r] = "idle"
        /\ k \in live /\ challenge[k] = text
        /\ checkUserStatus(status[w])
        /\ CanSign(signer, text)
        /\ signer = w
        /\ pc' = [pc EXCEPT ![r] = "verified"]
        /\ found' = [found EXCEPT ![r] = k]
        /\ UNCHANGED <<status, challenge, live, returned, signed, missing, tokens>>

(* The call is over: answered, refused or lost. *)
Finish(r) ==
    /\ pc' = [pc EXCEPT ![r] = "idle"]
    /\ found' = [found EXCEPT ![r] = NoRow]
    /\ missing' = [missing EXCEPT ![r] = NoWallet]

(* Variant: deleteMany, which does not throw when the row is gone. *)
deleteNonce_DeleteMany(r) ==
    /\ pc[r] = "verified"
    /\ live' = live \ {found[r]}
    /\ pc' = [pc EXCEPT ![r] = "deleted"]
    /\ UNCHANGED <<status, challenge, returned, signed, found, missing, tokens>>

(* Variant: the row stays in the table. *)
deleteNonce_KeepsRow(r) ==
    /\ pc[r] = "verified"
    /\ found[r] \in live
    /\ pc' = [pc EXCEPT ![r] = "deleted"]
    /\ UNCHANGED <<status, challenge, live, returned, signed, found, missing, tokens>>

(* walletLoginNonce.delete by id removes the row ... *)
deleteNonce(r) ==
    /\ pc[r] = "verified"
    /\ found[r] \in live
    /\ live' = live \ {found[r]}
    /\ pc' = [pc EXCEPT ![r] = "deleted"]
    /\ UNCHANGED <<status, challenge, returned, signed, found, missing, tokens>>

(* ... or throws when another call has removed it. *)
deleteNonceFails(r) ==
    /\ pc[r] = "verified"
    /\ found[r] \notin live
    /\ Finish(r)
    /\ UNCHANGED <<status, challenge, live, returned, signed, tokens>>

(* Variant: the status is looked at again once the row has been deleted. *)
generateToken_ChecksAgain(r) ==
    /\ pc[r] = "deleted"
    /\ IF checkUserStatus(status[challenge[found[r]].wallet])
         THEN tokens' = [tokens EXCEPT ![found[r]] = @ + 1]
         ELSE UNCHANGED tokens
    /\ Finish(r)
    /\ UNCHANGED <<status, challenge, live, returned, signed>>

(* generateToken for the user of the row that was read. *)
generateToken(r) ==
    /\ pc[r] = "deleted"
    /\ tokens' = [tokens EXCEPT ![found[r]] = @ + 1]
    /\ Finish(r)
    /\ UNCHANGED <<status, challenge, live, returned, signed>>

(* getOrGenerateAccount and getAccount: the lookup finds no user ... *)
lookupMisses(r, w) ==
    /\ pc[r] = "idle"
    /\ status[w] = "none"
    /\ pc' = [pc EXCEPT ![r] = "creating"]
    /\ missing' = [missing EXCEPT ![r] = w]
    /\ UNCHANGED <<status, challenge, live, returned, signed, found, tokens>>

(* Variant: the column has no default. *)
createUser_NoDefault(r) ==
    /\ pc[r] = "creating"
    /\ status' = [status EXCEPT ![missing[r]] = IF @ = "none" THEN "null" ELSE @]
    /\ Finish(r)
    /\ UNCHANGED <<challenge, live, returned, signed, tokens>>

(* ... and user.create inserts one, unless wallet_address is taken by now. *)
createUser(r) ==
    /\ pc[r] = "creating"
    /\ status' = [status EXCEPT ![missing[r]] = IF @ = "none" THEN "active" ELSE @]
    /\ Finish(r)
    /\ UNCHANGED <<challenge, live, returned, signed, tokens>>

(* A staff member changes users.status; there is no check of the value. *)
updateUserStatus(w, s) ==
    /\ status[w] # "none"
    /\ status' = [status EXCEPT ![w] = s]
    /\ UNCHANGED <<challenge, live, returned, signed, pc, found, missing, tokens>>

(* The process stops or the database answers with an error: the call ends   *)
(* where it is and what it has written stays.                              *)
loseCall(r) ==
    /\ pc[r] # "idle"
    /\ Finish(r)
    /\ UNCHANGED <<status, challenge, live, returned, signed, tokens>>

--------------------------------------------------------------------------------
Answer(r) == deleteNonce(r) \/ deleteNonceFails(r) \/ generateToken(r) \/ createUser(r)

Serve ==
    \/ \E w \in Wallets, c \in Codes, k \in RowIds : generateLoginMessage(w, c, k)
    \/ \E text \in Text : signMessage(text)
    \/ \E r \in Requests, w \in Wallets, c \in Codes, signer \in Wallets, k \in RowIds :
           walletLogin(r, w, c, signer, k)
    \/ \E r \in Requests, w \in Wallets : lookupMisses(r, w)
    \/ \E w \in Wallets, s \in Status : updateUserStatus(w, s)
    \/ \E r \in Requests : Answer(r)

Next == Serve \/ \E r \in Requests : loseCall(r)

Spec == Init /\ [][Next]_vars

(* Node's event loop resumes every handler whose database answer is there.  *)
(* This specification has no lost calls.                                   *)
ReliableSpec == Init /\ [][Serve]_vars /\ \A r \in Requests : WF_vars(Answer(r))

--------------------------------------------------------------------------------
(* Each issued row yields at most one token, however many logins race for  *)
(* it: the row is read in one statement and deleted in a later one.        *)
ChallengeRedeemedOnce == \A k \in RowIds : tokens[k] <= 1

(* A token is only returned for a text its own wallet has signed, also when *)
(* two rows of a wallet carry the same code.                               *)
TokensWereSigned ==
    \A k \in RowIds : tokens[k] > 0 => challenge[k] \in signed

ConsumedByVerified ==
    \A k \in live \ live' :
        \E r \in Requests : /\ found[r] = k /\ pc[r] = "verified"
                            /\ found'[r] = k /\ pc'[r] = "deleted"

(* A row leaves the table only through a call that has verified the        *)
(* signature over it: no refused or lost login burns a challenge.          *)
OnlyVerifiedLoginConsumes == [][ConsumedByVerified]_vars

StatusChangedByStaff ==
    \A w \in Wallets : status[w] # "none" /\ status'[w] # status[w]
        => /\ status'[w] \in Status
           /\ UNCHANGED <<rowVars, pc, missing, tokens>>

(* Only staff change the status of an existing account; in particular a    *)
(* lookup that missed, and creates the account after somebody else has     *)
(* created it and staff have suspended it, does not reactivate it.         *)
OnlyStaffChangeStatus == [][StatusChangedByStaff]_vars

(* What the steps of calls that race, fail or were refused never do: they   *)
(* use up no challenge and change no account that exists.                  *)
LoginStepsAreJustified == OnlyVerifiedLoginConsumes /\ OnlyStaffChangeStatus

(* When calls are not lost, a verified login means the challenge yields its *)
(* token: of the calls that race for it one wins.                          *)
VerifiedLoginIsAnswered ==
    \A k \in RowIds :
        (\E r \in Requests : pc[r] = "verified" /\ found[r] = k) ~> tokens[k] = 1

--------------------------------------------------------------------------------
(* The one-time challenge this login implements.  A row that yielded a      *)
(* second token would be at a stage the challenge does not have.           *)
StageOf(k) ==
    CASE challenge[k] = Unissued -> "new"
      [] challenge[k] # Unissued /\ tokens[k] = 0 /\ k \in live -> "open"
      [] challenge[k] # Unissued /\ tokens[k] = 0 /\ k \notin live -> "taken"
      [] challenge[k] # Unissued /\ tokens[k] = 1 -> "admitted"
      [] OTHER -> "overdrawn"

Challenge == INSTANCE OneTimeChallenge WITH
    Challenges <- RowIds,
    stage <- [k \in RowIds |-> StageOf(k)],
    approved <- {k \in RowIds : challenge[k] \in signed}

(* Wallet login implements the one-time challenge. *)
ImplementsOneTimeChallenge == Challenge!ChallengeSpec
================================================================================
