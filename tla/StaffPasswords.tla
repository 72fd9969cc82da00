---------------------------- MODULE StaffPasswords ----------------------------
(***************************************************************************)
(* Passwords and reset codes of staff:                                     *)
(* src/src/app/modules/staff/auth/staff.auth.service.ts (login, the mail   *)
(* with a code, the reset) and staff.service.ts (a change by the staff     *)
(* member and the update by a colleague).                                  *)
(*                                                                         *)
(* Each call reads the row, hashes or compares, which takes long, and then *)
(* writes; other calls run in between.  Emails do not change here, so a    *)
(* staff member stands for the email and a row for its id.                 *)
(***************************************************************************)
CONSTANTS
    Staff, Passwords,
    Codes,              \* codes of getRandomNumber(6); two mails may have the same
    Requests,           \* calls that may be in flight at once
    NoCode,             \* resetCode is null
    Idle

NoCodeAssumption == NoCode \notin Codes

VARIABLES
    password,       \* of each row
    resetCode,      \* of each row
    latest,         \* the code of the last mail to each, until it has reset the password
    call            \* the calls in flight

vars == <<password, resetCode, latest, call>>

Password == [text: Passwords, hashed: BOOLEAN]

(* `seen` is the password of the row when it was found.                    *)
Call == [op: {"login"}, row: Staff, seen: Password, old: Passwords]
     \cup [op: {"change"}, row: Staff, seen: Password, old: Passwords, new: Passwords]
     \cup [op: {"forget", "mail"}, row: Staff, code: Codes]
     \cup [op: {"reset"}, email: Staff, row: Staff, code: Codes, new: Passwords]

IdleAssumption == Idle \notin Call

TypeOK ==
    /\ password \in [Staff -> Password]
    /\ resetCode \in [Staff -> Codes \cup {NoCode}]
    /\ latest \in [Staff -> Codes \cup {NoCode}]
    /\ call \in [Requests -> Call \cup {Idle}]

hashPassword(p) == [text |-> p, hashed |-> TRUE]

(* bcrypt's compare is false for what is not a hash. *)
validatePassword(p, stored) == stored = hashPassword(p)

Init ==
    /\ \E p \in Passwords : password = [s \in Staff |-> hashPassword(p)]
    /\ resetCode = [s \in Staff |-> NoCode]
    /\ latest = [s \in Staff |-> NoCode]
    /\ call = [r \in Requests |-> Idle]

--------------------------------------------------------------------------------
Begin(r, c) ==
    /\ call[r] = Idle
    /\ call' = [call EXCEPT ![r] = c]
    /\ UNCHANGED <<password, resetCode, latest>>
In(r, op) == call[r] # Idle /\ call[r].op = op
End(r) == call' = [call EXCEPT ![r] = Idle]

login(r, s, p) == Begin(r, [op |-> "login", row |-> s, seen |-> password[s], old |-> p])

(* After compare: a token or 'Invalid password!'; neither writes a row.     *)
answerLogin(r) == In(r, "login") /\ End(r) /\ UNCHANGED <<password, resetCode, latest>>

sendStaffForgetPasswordNotification(r, s) ==
    \E code \in Codes : Begin(r, [op |-> "forget", row |-> s, code |-> code])

storeCode(r) ==
    /\ In(r, "forget")
    /\ resetCode' = [resetCode EXCEPT ![call[r].row] = call[r].code]
    /\ call' = [call EXCEPT ![r].op = "mail"]
    /\ UNCHANGED <<password, latest>>

sendCode(r) ==
    /\ In(r, "mail") /\ End(r)
    /\ latest' = [latest EXCEPT ![call[r].row] = call[r].code]
    /\ UNCHANGED <<password, resetCode>>

(* Variant: the row is found by the code alone. *)
resetStaffPassword_ByCode(r, s, code, new) ==
    \E row \in Staff :
        /\ resetCode[row] = code
        /\ Begin(r, [op |-> "reset", email |-> s, row |-> row, code |-> code, new |-> new])

(* The row with this email and this code, or 'No staff found!'.             *)
resetStaffPassword(r, s, code, new) ==
    /\ resetCode[s] = code
    /\ Begin(r, [op |-> "reset", email |-> s, row |-> s, code |-> code, new |-> new])

saveReset(r) ==
    /\ In(r, "reset") /\ End(r)
    /\ password' = [password EXCEPT ![call[r].row] = hashPassword(call[r].new)]
    /\ resetCode' = [resetCode EXCEPT ![call[r].row] = NoCode]
    /\ latest' = [latest EXCEPT ![call[r].row] = IF @ = call[r].code THEN NoCode ELSE @]

updateStaffPassword(r, s, old, new) ==
    Begin(r, [op |-> "change", row |-> s, seen |-> password[s], old |-> old, new |-> new])

savePassword(r) ==
    /\ In(r, "change") /\ End(r)
    /\ password' = [password EXCEPT ![call[r].row] =
          IF validatePassword(call[r].old, call[r].seen) THEN hashPassword(call[r].new) ELSE @]
    /\ UNCHANGED <<resetCode, latest>>

(* One statement writes the payload; a password in it is stored as it is.   *)
StorePayload(s, p) ==
    /\ password' = [password EXCEPT ![s] = [text |-> p, hashed |-> FALSE]]
    /\ UNCHANGED <<resetCode, latest, call>>

(* The statement of the own update (StaffProfile has the steps around it),  *)
(* ...                                                                     *)
updateStaffProfile(s, p) == StorePayload(s, p)

(* ... and the update of a colleague, which takes the same input.           *)
updateStaff(s, p) == StorePayload(s, p)

(* A statement or the mail fails, or the process stops. *)
loseCall(r) ==
    /\ call[r] # Idle /\ End(r)
    /\ UNCHANGED <<password, resetCode, latest>>

--------------------------------------------------------------------------------
StaffAuthResolver ==
    \E r \in Requests, s \in Staff :
        \/ sendStaffForgetPasswordNotification(r, s)
        \/ \E p \in Passwords : login(r, s, p)
        \/ \E code \in Codes, p \in Passwords : resetStaffPassword(r, s, code, p)

StaffResolver ==
    \E s \in Staff, p \in Passwords :
        \/ updateStaffProfile(s, p) \/ updateStaff(s, p)
        \/ \E r \in Requests, old \in Passwords : updateStaffPassword(r, s, old, p)

Continue(r) ==
    answerLogin(r) \/ storeCode(r) \/ sendCode(r) \/ saveReset(r) \/ savePassword(r)

Serve == StaffAuthResolver \/ StaffResolver \/ \E r \in Requests : Continue(r)

Next == Serve \/ \E r \in Requests : loseCall(r)

Spec == Init /\ [][Next]_vars

(* Every statement and every mail succeeds. *)
FaultlessSpec == Init /\ [][Serve]_vars

--------------------------------------------------------------------------------
(* However resets, changes, new codes and equal codes of two staff members  *)
(* overlap, a reset only touches the one whose email came with it.         *)
ResetTouchesItsOwn ==
    \A r \in Requests : In(r, "reset") /\ call'[r] = Idle =>
        \A s \in Staff \ {call[r].email} : password'[s] = password[s]
ResetsTouchTheirOwn == [][ResetTouchesItsOwn]_vars

(* When calls do not overlap, only the code of the last mail resets a       *)
(* password, and it does so once.                                          *)
LatestCodeResets ==
    \A r \in Requests : In(r, "reset") /\ call'[r] = Idle =>
        latest[call[r].email] = call[r].code
OnlyLatestCodeResets == [][LatestCodeResets]_vars

Quiet == \A r \in Requests : call[r] = Idle

(* When calls neither overlap nor fail, the code of the last mail stays the *)
(* one in the row until it was used.                                       *)
LatestCodeIsStored == Quiet => resetCode = latest

(* A login that is answered with 'Invalid password!' came with another      *)
(* password than the last one that was set before its row was read (not     *)
(* true: updateStaffProfile and updateStaff store the password of their     *)
(* payload without hashing it).                                            *)
InvalidPasswordIsTrue ==
    [][\A r \in Requests :
          answerLogin(r) /\ ~validatePassword(call[r].old, call[r].seen)
              => call[r].old # call[r].seen.text]_vars
================================================================================
