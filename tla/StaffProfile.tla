----------------------------- MODULE StaffProfile -----------------------------
(***************************************************************************)
(* updateStaffProfile, by which staff change their username, phone, email  *)
(* and avatar (src/src/app/modules/staff/staff.service.ts).                *)
(*                                                                         *)
(* Searches for the phone and the email, the upload, the update of the row *)
(* and the deletion of the old avatar are awaited one after the other;     *)
(* other calls run in between, and the staff member is as the guard has    *)
(* read it.  Nothing searches for the username or the role before the      *)
(* upload: the database refuses what breaks their constraints.             *)
(***************************************************************************)
CONSTANTS
    Staff, Usernames, Phones, Emails,
    Files,              \* names of uploaded files; each is a new UUID
    Requests,           \* calls that may be in flight at once
    Absent,             \* null in a row; not given in a payload
    Idle

AbsentAssumption == Absent \notin Usernames \cup Phones \cup Emails \cup Files

VARIABLES
    row,        \* the rows of staffs
    disk,       \* the avatars that exist
    written,    \* the file names that have been used
    refused,    \* the avatars of updates that named a taken username or an unknown role
    call        \* the calls in flight

vars == <<row, disk, written, refused, call>>

Given(S) == S \cup {Absent}
StaffRow == [username: Usernames, phone: Given(Phones), email: Emails, avatar: Given(Files)]

(* `unknown`: the roleId names no role, or another field is null where the  *)
(* table allows none.                                                      *)
StaffUpdateInput == [username: Given(Usernames), phone: Given(Phones), email: Given(Emails),
                     unknown: BOOLEAN, avatarFile: BOOLEAN]
Call == [at: {"phone", "email", "upload", "update", "delete"}, staff: Staff,
         payload: StaffUpdateInput, seen: Given(Files), avatar: Given(Files)]

IdleAssumption == Idle \notin Call

TypeOK ==
    /\ row \in [Staff -> StaffRow]
    /\ disk \subseteq written /\ written \subseteq Files /\ refused \subseteq written
    /\ call \in [Requests -> Call \cup {Idle}]

(* Staff have different usernames and emails from their creation. *)
Init ==
    /\ row \in [Staff -> [username: Usernames, phone: {Absent}, email: Emails, avatar: {Absent}]]
    /\ \A s, t \in Staff :
           row[s].username = row[t].username \/ row[s].email = row[t].email => s = t
    /\ disk = {} /\ written = {} /\ refused = {}
    /\ call = [r \in Requests |-> Idle]

--------------------------------------------------------------------------------
At(r, place) == call[r] # Idle /\ call[r].at = place
Goto(r, place) == call' = [call EXCEPT ![r].at = place]
End(r) == call' = [call EXCEPT ![r] = Idle]

(* IgnoreUnique: a column that is undefined is no condition, so any other   *)
(* row is found.                                                           *)
IgnoreUnique(s, column, value) ==
    \A t \in Staff \ {s} : value # Absent /\ row[t][column] # value

updateStaffProfile(r, s, payload) ==
    /\ call[r] = Idle
    /\ call' = [call EXCEPT ![r] = [at |-> "phone", staff |-> s, payload |-> payload,
                                    seen |-> row[s].avatar, avatar |-> Absent]]
    /\ UNCHANGED <<row, disk, written, refused>>

checkPhone(r) ==
    /\ At(r, "phone")
    /\ LET c == call[r]
       IN  IF IgnoreUnique(c.staff, "phone", c.payload.phone) THEN Goto(r, "email") ELSE End(r)
    /\ UNCHANGED <<row, disk, written, refused>>

(* isUser is false and isAdmin true for everybody. *)
checkEmail(r) ==
    /\ At(r, "email")
    /\ LET c == call[r]
       IN  IF c.payload.email = Absent \/ IgnoreUnique(c.staff, "email", c.payload.email)
             THEN Goto(r, "upload") ELSE End(r)
    /\ UNCHANGED <<row, disk, written, refused>>

upload(r) ==
    /\ At(r, "upload")
    /\ \E f \in IF call[r].payload.avatarFile THEN Files \ written ELSE {Absent} :
           /\ disk' = disk \cup ({f} \ {Absent})
           /\ written' = written \cup ({f} \ {Absent})
           /\ call' = [call EXCEPT ![r].at = "update", ![r].avatar = f]
    /\ UNCHANGED <<row, refused>>

(* The fields that are given, and the avatar when there was a file.         *)
Updated(old, c) ==
    [username |-> IF c.payload.username = Absent THEN old.username ELSE c.payload.username,
     phone |-> IF c.payload.phone = Absent THEN old.phone ELSE c.payload.phone,
     email |-> IF c.payload.email = Absent THEN old.email ELSE c.payload.email,
     avatar |-> IF c.avatar = Absent THEN old.avatar ELSE c.avatar]

(* What was searched for before the upload may be taken since, ...          *)
TakesSearchedKey(s, new) ==
    \E t \in Staff \ {s} : \/ row[t].email = new.email
                           \/ new.phone # Absent /\ row[t].phone = new.phone

(* ... and a username or a role was not searched for.                       *)
BreaksUnsearched(c, new) ==
    c.payload.unknown \/ \E t \in Staff \ {c.staff} : row[t].username = new.username

(* A statement that breaks a constraint throws, and the new avatar stays.   *)
update(r) ==
    /\ At(r, "update")
    /\ LET c == call[r]
           new == Updated(row[c.staff], c)
       IN  \/ /\ BreaksUnsearched(c, new) /\ End(r)
              /\ refused' = refused \cup ({c.avatar} \ {Absent})
              /\ UNCHANGED row
           \/ /\ ~BreaksUnsearched(c, new) /\ TakesSearchedKey(c.staff, new) /\ End(r)
              /\ UNCHANGED <<row, refused>>
           \/ /\ ~BreaksUnsearched(c, new) /\ ~TakesSearchedKey(c.staff, new) /\ Goto(r, "delete")
              /\ row' = [row EXCEPT ![c.staff] = new]
              /\ UNCHANGED refused
    /\ UNCHANGED <<disk, written>>

(* Variant: the row is read again for its avatar. *)
deleteFile_ReadsAgain(r) ==
    /\ At(r, "delete") /\ End(r)
    /\ disk' = IF call[r].payload.avatarFile THEN disk \ {row[call[r].staff].avatar} ELSE disk
    /\ UNCHANGED <<row, written, refused>>

deleteFile(r) ==
    /\ At(r, "delete") /\ End(r)
    /\ disk' = IF call[r].payload.avatarFile THEN disk \ {call[r].seen} ELSE disk
    /\ UNCHANGED <<row, written, refused>>

(* A statement or a file operation fails, or the process stops. *)
loseCall(r) == call[r] # Idle /\ End(r) /\ UNCHANGED <<row, disk, written, refused>>

--------------------------------------------------------------------------------
Serve ==
    \E r \in Requests :
        \/ \E s \in Staff, payload \in StaffUpdateInput : updateStaffProfile(r, s, payload)
        \/ checkPhone(r) \/ checkEmail(r) \/ upload(r) \/ update(r) \/ deleteFile(r)

(* Every statement and file operation succeeds. *)
FaultlessSpec == Init /\ [][Serve]_vars

Next == Serve \/ \E r \in Requests : loseCall(r)

Spec == Init /\ [][Next]_vars

--------------------------------------------------------------------------------
(* The avatar a row names exists, although each update deletes the one its  *)
(* guard has seen, whenever that was, and may stop between any two steps.   *)
AvatarExists == \A s \in Staff : row[s].avatar \in disk \cup {Absent}

Avatars == {row[s].avatar : s \in Staff} \ {Absent}
Quiet == \A r \in Requests : call[r] = Idle

(* When calls neither overlap nor fail, the disk keeps the avatars that rows *)
(* name and, of the others, just those of updates that asked for a taken    *)
(* username or an unknown role: these are refused after the upload, a taken *)
(* phone or email before it.                                               *)
OnlyUnsearchedLeavesAvatars == Quiet => disk = Avatars \cup refused
================================================================================
