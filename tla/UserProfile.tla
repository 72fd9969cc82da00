------------------------------ MODULE UserProfile ------------------------------
(***************************************************************************)
(* The profile of a user, its picture and the verification of its mail     *)
(* address: updateProfile and resendVerificationEmail                      *)
(* (src/src/app/modules/user/user.service.ts), userVerifyMail              *)
(* (src/src/app/modules/auth/user.auth.service.ts) and the file operations *)
(* they call.                                                              *)
(*                                                                         *)
(* A handler works on the row its guard has read, `seen`, and awaits each  *)
(* of its statements; other handlers run in between.  Of the profile, the  *)
(* address and one picture are modelled: phone and user name are checked   *)
(* and written like the address, the banner like the picture.              *)
(*                                                                         *)
(* updateProfile never comes to its end: updateSocialLink, after the row   *)
(* and the files are changed, uses a table the schema does not have, and   *)
(* throws.  So the mail that should follow a new address is never sent.    *)
(***************************************************************************)
EXTENDS Naturals

CONSTANTS
    Users,
    Emails,     \* mail addresses
    Codes,      \* values of getRandomNumber(6)
    Files,      \* names of uploaded files; each is a new UUID
    Requests,   \* calls that may be in flight at once
    NoEmail,    \* null
    NoCode,     \* null
    NoFile,     \* null, or a payload without a file
    Unchanged,  \* a payload without an address
    Idle        \* a call slot that is free

ASSUME NoEmailAssumption == NoEmail \notin Emails /\ Unchanged \notin Emails \cup {NoEmail}
ASSUME NoCodeAssumption == NoCode \notin Codes
ASSUME NoFileAssumption == NoFile \notin Files

VARIABLES
    profile,    \* the rows of users
    disk,       \* the uploaded files that exist
    written,    \* the file names that have been used
    mails,      \* which codes were sent to whom, at which address
    confirmed,  \* who presented a code that was sent to an address
    call        \* the calls in flight

vars == <<profile, disk, written, mails, confirmed, call>>

Profile == [email: Emails \cup {NoEmail}, verified: BOOLEAN,
            code: Codes \cup {NoCode}, picture: Files \cup {NoFile}]

(* `to` is the address of the payload, or the one the mail is sent to.      *)
Call == [at: {"checking", "uploading", "saving", "replacing", "linking", "mailing",
              "verifying"},
         user: Users, seen: Profile, to: Emails \cup {NoEmail, Unchanged},
         file: Files \cup {NoFile}]

ASSUME IdleAssumption == Idle \notin Call

TypeOK ==
    /\ profile \in [Users -> Profile]
    /\ disk \subseteq written /\ written \subseteq Files
    /\ mails \subseteq [user: Users, to: Emails, code: Codes]
    /\ confirmed \subseteq [user: Users, to: Emails]
    /\ call \in [Requests -> Call \cup {Idle}]

Init ==
    /\ profile = [u \in Users |-> [email |-> NoEmail, verified |-> FALSE,
                                   code |-> NoCode, picture |-> NoFile]]
    /\ disk = {}
    /\ written = {}
    /\ mails = {}
    /\ confirmed = {}
    /\ call = [r \in Requests |-> Idle]

--------------------------------------------------------------------------------
At(r, place) == call[r] # Idle /\ call[r].at = place
Goto(r, place) == call' = [call EXCEPT ![r].at = place]
Finish(r) == call' = [call EXCEPT ![r] = Idle]
Start(r, place, u, to, file) ==
    /\ call[r] = Idle
    /\ call' = [call EXCEPT ![r] = [at |-> place, user |-> u, seen |-> profile[u],
                                    to |-> to, file |-> file]]
    /\ UNCHANGED <<profile, disk, written, mails, confirmed>>

Taken(email, u) == email \in Emails /\ \E v \in Users \ {u} : profile[v].email = email

(* The guard has read the user; the payload may change or clear the address *)
(* and may bring a picture.                                                *)
updateProfile(r, u, email, file) ==
    /\ file \notin written
    /\ \A q \in Requests : call[q] # Idle /\ file # NoFile => call[q].file # file
    /\ Start(r, "checking", u, email, file)

(* IgnoreUnique looks for another row with the address. *)
checkUserUniqueEmail(r) ==
    /\ At(r, "checking")
    /\ IF Taken(call[r].to, call[r].user) THEN Finish(r) ELSE Goto(r, "uploading")
    /\ UNCHANGED <<profile, disk, written, mails, confirmed>>

(* profileImageUpload writes the file. *)
profileImageUpload(r) ==
    /\ At(r, "uploading")
    /\ LET new == {call[r].file} \ {NoFile}
       IN  disk' = disk \cup new /\ written' = written \cup new
    /\ Goto(r, "saving")
    /\ UNCHANGED <<profile, mails, confirmed>>

(* Variant: an address the payload does not have is written all the same.   *)
saveProfile_WritesAbsent(r) ==
    /\ At(r, "saving")
    /\ profile' = [profile EXCEPT ![call[r].user].email = call[r].to,
                                  ![call[r].user].picture = call[r].file]
    /\ Goto(r, "replacing")
    /\ UNCHANGED <<disk, written, mails, confirmed>>

(* user.update, which throws when another row has got the address since.    *)
saveProfile(r) ==
    /\ At(r, "saving")
    /\ LET c == call[r]
       IN  IF Taken(c.to, c.user)
             THEN Finish(r) /\ UNCHANGED profile
             ELSE /\ profile' = [profile EXCEPT
                        ![c.user].email = IF c.to = Unchanged THEN @ ELSE c.to,
                        ![c.user].picture = IF c.file = NoFile THEN @ ELSE c.file]
                  /\ Goto(r, "replacing")
    /\ UNCHANGED <<disk, written, mails, confirmed>>

(* Variant: the picture is looked up again instead of taken from `seen`.    *)
deleteFile_ReadsAgain(r) ==
    /\ At(r, "replacing")
    /\ LET c == call[r]
           old == IF c.file = NoFile THEN {} ELSE {profile[c.user].picture} \ {NoFile}
       IN  /\ disk' = disk \ old
           /\ \/ Goto(r, "linking")
              \/ ~(old \subseteq disk) /\ Finish(r)
    /\ UNCHANGED <<profile, written, mails, confirmed>>

(* deleteFile removes the picture that was seen when the call began; the    *)
(* disk's delete may throw when the file is gone.                          *)
deleteFile(r) ==
    /\ At(r, "replacing")
    /\ LET c == call[r]
           old == IF c.file = NoFile THEN {} ELSE {c.seen.picture} \ {NoFile}
       IN  /\ disk' = disk \ old
           /\ \/ Goto(r, "linking")
              \/ ~(old \subseteq disk) /\ Finish(r)
    /\ UNCHANGED <<profile, written, mails, confirmed>>

(* updateSocialLink looks into prisma_client.socialLinks, which is undefined: *)
(* schema.prisma has no such model.  The call ends with that error, and the *)
(* comparison of the addresses behind it is never made.                    *)
updateSocialLink(r) ==
    /\ At(r, "linking")
    /\ Finish(r)
    /\ UNCHANGED <<profile, disk, written, mails, confirmed>>

(* resendVerificationEmail, for a user that was not verified when seen. *)
resendVerificationEmail(r, u) ==
    /\ ~profile[u].verified
    /\ Start(r, "mailing", u, profile[u].email, NoFile)

Mailed(c, code) == [user: {c.user}, to: {c.to} \ {NoEmail}, code: {code}]

(* The code is stored and the flag reset in one statement; the mail is      *)
(* handed over without waiting for it.                                     *)
sendVerificationMail(r, code) ==
    /\ At(r, "mailing")
    /\ profile' = [profile EXCEPT ![call[r].user].code = code,
                                  ![call[r].user].verified = FALSE]
    /\ mails' = mails \cup Mailed(call[r], code)
    /\ Finish(r)
    /\ UNCHANGED <<disk, written, confirmed>>

(* userVerifyMail, with a code that somebody has got in a mail, finds some  *)
(* user with the code ...                                                  *)
userVerifyMail(r, code, u) ==
    /\ \E m \in mails : m.code = code
    /\ profile[u].code = code
    /\ call[r] = Idle
    /\ call' = [call EXCEPT ![r] = [at |-> "verifying", user |-> u, seen |-> profile[u],
                                    to |-> NoEmail, file |-> NoFile]]
    /\ confirmed' = confirmed \cup
           {[user |-> u, to |-> m.to] : m \in {n \in mails : n.user = u /\ n.code = code}}
    /\ UNCHANGED <<profile, disk, written, mails>>

(* ... and marks that user, whatever its address is by now. *)
markVerified(r) ==
    /\ At(r, "verifying")
    /\ profile' = [profile EXCEPT ![call[r].user].verified = TRUE,
                                  ![call[r].user].code = NoCode]
    /\ Finish(r)
    /\ UNCHANGED <<disk, written, mails, confirmed>>

(* A statement fails or the process stops: the call ends where it is. *)
loseCall(r) ==
    /\ call[r] # Idle
    /\ Finish(r)
    /\ UNCHANGED <<profile, disk, written, mails, confirmed>>

--------------------------------------------------------------------------------
Continue(r) ==
    \/ checkUserUniqueEmail(r) \/ profileImageUpload(r) \/ saveProfile(r)
    \/ deleteFile(r) \/ updateSocialLink(r) \/ markVerified(r)
    \/ \E code \in Codes : sendVerificationMail(r, code)

Serve ==
    \E r \in Requests :
        \/ \E u \in Users, email \in Emails \cup {NoEmail, Unchanged}, file \in Files \cup {NoFile} :
               updateProfile(r, u, email, file)
        \/ \E u \in Users : resendVerificationEmail(r, u)
        \/ \E u \in Users, code \in Codes : userVerifyMail(r, code, u)
        \/ Continue(r)

Next == Serve \/ \E r \in Requests : loseCall(r)

Spec == Init /\ [][Next]_vars

(* Every statement succeeds. *)
FaultlessSpec == Init /\ [][Serve]_vars

--------------------------------------------------------------------------------
(* The picture a row names is on the disk, however calls that replace it    *)
(* overlap and wherever they fail: each deletes the picture it has seen,   *)
(* which may not be the one it replaces.                                   *)
PictureExists ==
    \A u \in Users : profile[u].picture # NoFile => profile[u].picture \in disk

Quiet == \A r \in Requests : call[r] = Idle

(* When calls neither overlap nor fail, the pictures on the disk between    *)
(* calls are the ones that rows name.                                      *)
NoPictureIsLeftBehind == Quiet => disk \subseteq {profile[u].picture : u \in Users}

(* "Click this button to verify your email address": between calls, an      *)
(* address is marked as verified only if its user has presented a code      *)
(* that was sent to this address.  updateProfile breaks it on its own: the  *)
(* new address is in the row, and the flag of the old one stays.            *)
VerifiedAddressWasConfirmed ==
    Quiet => \A u \in Users : profile[u].verified /\ profile[u].email # NoEmail
                 => [user |-> u, to |-> profile[u].email] \in confirmed
================================================================================
