--------------------------- MODULE UserProfile_proofs ---------------------------
(***************************************************************************)
(* Theorems about UserProfile, for all users, addresses, codes, files and  *)
(* calls: pictures whatever overlaps and fails, and, for calls that come   *)
(* one by one, what is left on the disk.                                   *)
(***************************************************************************)
EXTENDS MCUserProfile, TLAPS

USE NoEmailAssumption, NoCodeAssumption, NoFileAssumption, IdleAssumption

--------------------------------------------------------------------------------
(* Overlapping calls. *)

(* A file that is not uploaded yet has a new name; a mail has an address.   *)
CallsAreSound ==
    \A r \in Busy :
        /\ call[r].at \in {"checking", "uploading"} => call[r].file \notin written
        /\ call[r].at = "mailing" => call[r].to # Unchanged

FilesAreOwn ==
    \A q, r \in Busy : call[q].file # NoFile /\ call[q].file = call[r].file => q = r

(* A file that waits for the update of its row is on the disk, and nobody   *)
(* has seen it.                                                            *)
SavingFilesAreNew ==
    \A r \in Busy : call[r].at = "saving" /\ call[r].file # NoFile =>
        /\ call[r].file \in disk
        /\ \A u \in Users : profile[u].picture # call[r].file
        /\ \A q \in Busy : call[q].seen.picture # call[r].file

(* What a call has seen was uploaded, and is nobody else's.                 *)
SeenPicturesAreOwn ==
    \A r \in Busy : call[r].seen.picture # NoFile =>
        /\ call[r].seen.picture \in written
        /\ \A u \in Users : profile[u].picture = call[r].seen.picture => u = call[r].user

PicturesDiffer ==
    \A u, v \in Users : profile[u].picture # NoFile /\ profile[u].picture = profile[v].picture => u = v

(* What a call is about to delete is named by no row.                       *)
ReplacedIsUnnamed ==
    \A r \in Busy : call[r].at = "replacing" /\ call[r].file # NoFile /\ call[r].seen.picture # NoFile =>
        \A u \in Users : profile[u].picture # call[r].seen.picture

IInv ==
    /\ TypeOK
    /\ PictureExists
    /\ CallsAreSound
    /\ FilesAreOwn
    /\ SavingFilesAreNew
    /\ SeenPicturesAreOwn
    /\ PicturesDiffer
    /\ ReplacedIsUnnamed

--------------------------------------------------------------------------------
(* One call at a time. *)

Pictures == {profile[u].picture : u \in Users}

(* How far the one call is, and what it has left on the disk.               *)
Progress(c) ==
    LET row == profile[c.user]
    IN  /\ c.at \in {"checking", "uploading", "saving"} =>
              /\ c.seen = row
              /\ disk \subseteq Pictures \cup (IF c.at = "saving" THEN {c.file} ELSE {})
        /\ c.at \in {"uploading", "saving"} => ~Taken(c.to, c.user)
        /\ c.at = "replacing" =>
              /\ disk \subseteq Pictures \cup (IF c.file = NoFile THEN {} ELSE {c.seen.picture})
              /\ c.file # NoFile /\ c.seen.picture # NoFile => c.seen.picture \in disk
        /\ c.at \in {"linking", "mailing", "verifying"} => disk \subseteq Pictures

AloneInv ==
    /\ \A q, r \in Busy : q = r
    /\ Busy = {} => disk \subseteq Pictures
    /\ \A r \in Busy : Progress(call[r])

MCInv == IInv /\ (~overlapping => AloneInv)

--------------------------------------------------------------------------------
(* The steps. *)

LEMMA InitInv == Init => IInv
BY DEF Init, IInv, TypeOK, Profile, PictureExists, Busy, CallsAreSound, FilesAreOwn,
       SavingFilesAreNew, SeenPicturesAreOwn, PicturesDiffer, ReplacedIsUnnamed

LEMMA CallFields ==
    ASSUME TypeOK, NEW r \in Busy
    PROVE  /\ r \in Requests /\ call[r] \in Call
           /\ call[r].user \in Users /\ call[r].seen \in Profile
           /\ call[r].to \in Emails \cup {NoEmail, Unchanged}
           /\ call[r].file \in Files \cup {NoFile}
BY DEF TypeOK, Busy, Call

LEMMA TypeStep == TypeOK /\ CallsAreSound /\ [Next]_vars => TypeOK'
<1> SUFFICES ASSUME TypeOK, CallsAreSound, Next PROVE TypeOK'
  BY DEF vars, TypeOK
<1> USE DEF TypeOK
<1>1. ASSUME NEW r \in Requests, NEW u \in Users, NEW email \in Emails \cup {NoEmail, Unchanged},
             NEW file \in Files \cup {NoFile}, updateProfile(r, u, email, file)
      PROVE TypeOK'
  BY <1>1 DEF updateProfile, Start, Call
<1>2. ASSUME NEW r \in Requests, checkUserUniqueEmail(r) PROVE TypeOK'
  BY <1>2 DEF checkUserUniqueEmail, At, Goto, Finish, Call
<1>3. ASSUME NEW r \in Requests, profileImageUpload(r) PROVE TypeOK'
  BY <1>3, CallFields DEF profileImageUpload, At, Goto, Call, Busy
<1>4. ASSUME NEW r \in Requests, saveProfile(r) PROVE TypeOK'
  <2>1. call' \in [Requests -> Call \cup {Idle}]
    BY <1>4 DEF saveProfile, At, Goto, Finish, Call
  <2>2. profile' \in [Users -> Profile]
    <3>1. call[r].user \in Users /\ call[r].to \in Emails \cup {NoEmail, Unchanged}
          /\ call[r].file \in Files \cup {NoFile}
      BY <1>4, CallFields DEF saveProfile, At, Busy
    <3> QED BY <1>4, <3>1 DEF saveProfile, Profile
  <2> QED BY <1>4, <2>1, <2>2 DEF saveProfile
<1>5. ASSUME NEW r \in Requests, deleteFile(r) PROVE TypeOK'
  BY <1>5 DEF deleteFile, At, Goto, Finish, Call
<1>6. ASSUME NEW r \in Requests, updateSocialLink(r) PROVE TypeOK'
  BY <1>6 DEF updateSocialLink, At, Finish, Call
<1>7. ASSUME NEW r \in Requests, NEW u \in Users, resendVerificationEmail(r, u) PROVE TypeOK'
  BY <1>7 DEF resendVerificationEmail, Start, Call, Profile
<1>8. ASSUME NEW r \in Requests, NEW code \in Codes, sendVerificationMail(r, code) PROVE TypeOK'
  <2>1. r \in Busy /\ call[r].user \in Users /\ call[r].to \in Emails \cup {NoEmail}
    BY <1>8, CallFields DEF sendVerificationMail, At, Busy, CallsAreSound
  <2>2. Mailed(call[r], code) \subseteq [user: Users, to: Emails, code: Codes]
    BY <2>1 DEF Mailed
  <2>3. profile' \in [Users -> Profile]
    BY <1>8, <2>1 DEF sendVerificationMail, Profile
  <2> QED BY <1>8, <2>2, <2>3 DEF sendVerificationMail, Finish
<1>9. ASSUME NEW r \in Requests, NEW u \in Users, NEW code \in Codes, userVerifyMail(r, code, u)
      PROVE TypeOK'
  BY <1>9 DEF userVerifyMail, Call
<1>10. ASSUME NEW r \in Requests, markVerified(r) PROVE TypeOK'
  <2>1. call[r].user \in Users
    BY <1>10, CallFields DEF markVerified, At, Busy
  <2> QED BY <1>10, <2>1 DEF markVerified, Finish, Profile
<1>11. ASSUME NEW r \in Requests, loseCall(r) PROVE TypeOK'
  BY <1>11 DEF loseCall, Finish
<1> QED BY <1>1, <1>2, <1>3, <1>4, <1>5, <1>6, <1>7, <1>8, <1>9, <1>10, <1>11 DEF Next, Serve, Continue

(* A call that begins has seen the picture its row names now; if it brings  *)
(* a file, no other call has it and it was never written.                  *)
LEMMA CallBegins ==
    ASSUME IInv, TypeOK', NEW r \in Requests, call[r] = Idle, NEW u \in Users,
           NEW place \in {"checking", "mailing", "verifying"},
           NEW to \in Emails \cup {NoEmail, Unchanged}, NEW file \in Files \cup {NoFile},
           place = "mailing" => to # Unchanged,
           file \notin written,
           \A q \in Busy : file # NoFile => call[q].file # file,
           call' = [call EXCEPT ![r] = [at |-> place, user |-> u, seen |-> profile[u],
                                        to |-> to, file |-> file]],
           UNCHANGED <<profile, disk, written>>
    PROVE  IInv'
<1> DEFINE new == [at |-> place, user |-> u, seen |-> profile[u], to |-> to, file |-> file]
<1>1. Busy' = Busy \cup {r} /\ r \notin Busy /\ new # Idle
  <2>1. new \in Call
    BY DEF IInv, TypeOK, Call
  <2> QED BY <2>1 DEF IInv, TypeOK, Busy
<1>2. call'[r] = new /\ \A q \in Busy : call'[q] = call[q]
  BY <1>1 DEF IInv, TypeOK, Busy
<1>3. PictureExists' /\ PicturesDiffer'
  BY DEF IInv, PictureExists, PicturesDiffer
<1>4. CallsAreSound'
  BY <1>1, <1>2 DEF IInv, CallsAreSound
<1>5. FilesAreOwn'
  BY <1>1, <1>2 DEF IInv, FilesAreOwn
<1>6. SavingFilesAreNew'
  BY <1>1, <1>2 DEF IInv, SavingFilesAreNew
<1>7. SeenPicturesAreOwn'
  <2>1. profile[u].picture # NoFile => profile[u].picture \in written
    BY DEF IInv, PictureExists, TypeOK
  <2> QED BY <1>1, <1>2, <2>1 DEF IInv, SeenPicturesAreOwn, PicturesDiffer
<1>8. ReplacedIsUnnamed'
  BY <1>1, <1>2 DEF IInv, ReplacedIsUnnamed
<1> QED BY <1>3, <1>4, <1>5, <1>6, <1>7, <1>8 DEF IInv

(* A call ends, or goes on to a step that neither saves nor replaces, and   *)
(* no picture changes.                                                     *)
LEMMA CallGoesOn ==
    ASSUME IInv, TypeOK', NEW r \in Busy,
           \/ Finish(r)
           \/ call[r].at = "checking" /\ Goto(r, "uploading")
           \/ Goto(r, "linking"),
           \A u \in Users : profile'[u].picture = profile[u].picture,
           UNCHANGED <<disk, written>>
    PROVE  IInv'
<1>1. r \in Requests /\ Busy' \subseteq Busy
  BY DEF IInv, TypeOK, Busy, Goto, Finish
<1>2. \A q \in Busy' : q # r => call'[q] = call[q]
  BY DEF IInv, TypeOK, Busy, Goto, Finish
<1>3. r \in Busy' =>
        /\ call'[r].seen = call[r].seen /\ call'[r].user = call[r].user
        /\ call'[r].file = call[r].file /\ call'[r].to = call[r].to
        /\ \/ call'[r].at = "uploading" /\ call[r].at = "checking"
           \/ call'[r].at = "linking"
  BY CallFields DEF IInv, TypeOK, Busy, Call, Goto, Finish
<1>4. PictureExists' /\ PicturesDiffer'
  BY DEF IInv, PictureExists, PicturesDiffer
<1>5. CallsAreSound' /\ FilesAreOwn'
  BY <1>1, <1>2, <1>3 DEF IInv, CallsAreSound, FilesAreOwn
<1>6. SavingFilesAreNew'
  BY <1>1, <1>2, <1>3 DEF IInv, SavingFilesAreNew
<1>7. SeenPicturesAreOwn' /\ ReplacedIsUnnamed'
  BY <1>1, <1>2, <1>3 DEF IInv, SeenPicturesAreOwn, ReplacedIsUnnamed
<1> QED BY <1>4, <1>5, <1>6, <1>7 DEF IInv

(* What a step that moves a call to another place does to the calls.        *)
LEMMA CallMoves ==
    ASSUME TypeOK, NEW r \in Busy, NEW place, Goto(r, place),
           place \in {"uploading", "saving", "replacing", "linking", "mailing"}
    PROVE  /\ Busy' = Busy
           /\ \A q \in Busy : q # r => call'[q] = call[q]
           /\ call'[r].at = place
           /\ call'[r].user = call[r].user /\ call'[r].seen = call[r].seen
           /\ call'[r].to = call[r].to /\ call'[r].file = call[r].file
<1>1. call'[r] = [call[r] EXCEPT !.at = place] /\ call[r] \in Call
  BY CallFields DEF TypeOK, Goto, Busy
<1>2. call'[r] \in Call
  BY <1>1 DEF Call
<1>3. Busy' = Busy
  BY <1>2 DEF TypeOK, Goto, Busy
<1> QED BY <1>1, <1>3 DEF TypeOK, Goto, Busy, Call

LEMMA UploadStep ==
    ASSUME IInv, TypeOK', NEW r \in Requests, profileImageUpload(r)
    PROVE  IInv'
<1> DEFINE c == call[r]
<1>1. r \in Busy /\ c.at = "uploading" /\ c.file \notin written /\ c.file \in Files \cup {NoFile}
  BY CallFields DEF profileImageUpload, At, Busy, IInv, CallsAreSound
<1>2. /\ Busy' = Busy
      /\ \A q \in Busy : q # r => call'[q] = call[q]
      /\ call'[r].at = "saving" /\ call'[r].user = c.user /\ call'[r].seen = c.seen
      /\ call'[r].to = c.to /\ call'[r].file = c.file
  BY <1>1, CallMoves DEF profileImageUpload, IInv
<1>3. /\ disk' = disk \cup ({c.file} \ {NoFile}) /\ written' = written \cup ({c.file} \ {NoFile})
      /\ profile' = profile
  BY DEF profileImageUpload
<1> HIDE DEF c
<1>4. PictureExists' /\ PicturesDiffer'
  BY <1>3 DEF IInv, PictureExists, PicturesDiffer
<1>5. FilesAreOwn'
  BY <1>1, <1>2 DEF IInv, FilesAreOwn, c
<1>6. CallsAreSound'
  <2>1. \A q \in Busy : q # r => call[q].file # c.file \/ c.file = NoFile
    BY <1>1 DEF IInv, FilesAreOwn, c
  <2> QED BY <1>1, <1>2, <1>3, <2>1 DEF IInv, CallsAreSound
<1>7. SavingFilesAreNew'
  <2>1. c.file # NoFile =>
          /\ \A u \in Users : profile[u].picture # c.file
          /\ \A q \in Busy : call[q].seen.picture # c.file
    BY <1>1 DEF IInv, TypeOK, PictureExists, SeenPicturesAreOwn
  <2> QED BY <1>1, <1>2, <1>3, <2>1 DEF IInv, SavingFilesAreNew, c
<1>8. SeenPicturesAreOwn' /\ ReplacedIsUnnamed'
  BY <1>1, <1>2, <1>3 DEF IInv, SeenPicturesAreOwn, ReplacedIsUnnamed, c
<1> QED BY <1>4, <1>5, <1>6, <1>7, <1>8 DEF IInv

(* The update puts a new picture in the place of the one that the row has,  *)
(* which need not be the one that the call has seen; after it no row names *)
(* the one that the call has seen.                                         *)
LEMMA SaveStep ==
    ASSUME IInv, TypeOK', NEW r \in Requests, saveProfile(r)
    PROVE  IInv'
<1> DEFINE c == call[r]
<1>1. r \in Busy /\ c.at = "saving" /\ c.user \in Users /\ c.file \in Files \cup {NoFile}
  BY CallFields DEF saveProfile, At, Busy, IInv
<1>2. CASE Taken(c.to, c.user)
  BY <1>1, <1>2, CallGoesOn DEF saveProfile
<1>3. CASE ~Taken(c.to, c.user)
  <2>1. /\ Busy' = Busy
        /\ \A q \in Busy : q # r => call'[q] = call[q]
        /\ call'[r].at = "replacing" /\ call'[r].user = c.user /\ call'[r].seen = c.seen
        /\ call'[r].to = c.to /\ call'[r].file = c.file
    BY <1>1, <1>3, CallMoves DEF saveProfile, IInv
  <2>2. /\ disk' = disk /\ written' = written
        /\ profile'[c.user].picture = (IF c.file = NoFile THEN profile[c.user].picture ELSE c.file)
        /\ \A u \in Users \ {c.user} : profile'[u] = profile[u]
    BY <1>1, <1>3 DEF saveProfile, IInv, TypeOK, Profile
  <2>3. c.file # NoFile =>
          /\ c.file \in disk
          /\ \A u \in Users : profile[u].picture # c.file
          /\ \A q \in Busy : call[q].seen.picture # c.file
    BY <1>1 DEF IInv, SavingFilesAreNew
  <2>4. \A q \in Busy : q # r /\ c.file # NoFile => call[q].file # c.file
    BY <1>1 DEF IInv, FilesAreOwn
  <2>5. c.seen.picture # NoFile => \A u \in Users : profile[u].picture = c.seen.picture => u = c.user
    BY <1>1 DEF IInv, SeenPicturesAreOwn
  <2> HIDE DEF c
  <2>6. PictureExists' /\ PicturesDiffer'
    BY <2>2, <2>3 DEF IInv, PictureExists, PicturesDiffer
  <2>7. CallsAreSound' /\ FilesAreOwn'
    BY <1>1, <2>1, <2>2 DEF IInv, CallsAreSound, FilesAreOwn, c
  <2>8. SavingFilesAreNew'
    BY <1>1, <2>1, <2>2, <2>4 DEF IInv, SavingFilesAreNew, c
  <2>9. SeenPicturesAreOwn'
    BY <1>1, <2>1, <2>2, <2>3 DEF IInv, SeenPicturesAreOwn, c
  <2>10. ReplacedIsUnnamed'
    BY <1>1, <2>1, <2>2, <2>3, <2>5 DEF IInv, ReplacedIsUnnamed, c
  <2> QED BY <2>6, <2>7, <2>8, <2>9, <2>10 DEF IInv
<1> QED BY <1>2, <1>3

LEMMA DeleteStep ==
    ASSUME IInv, TypeOK', NEW r \in Requests, deleteFile(r)
    PROVE  IInv'
<1> DEFINE c == call[r]
           old == IF c.file = NoFile THEN {} ELSE {c.seen.picture} \ {NoFile}
<1>1. r \in Busy /\ c.at = "replacing"
  BY DEF deleteFile, At, Busy
<1>2. /\ disk' = disk \ old /\ profile' = profile /\ written' = written
      /\ Goto(r, "linking") \/ Finish(r)
  BY DEF deleteFile
<1>3. \A u \in Users : profile[u].picture \notin old
  BY <1>1 DEF IInv, ReplacedIsUnnamed
<1>4. \A q \in Busy : call[q].at = "saving" /\ call[q].file # NoFile => call[q].file \notin old
  BY <1>1 DEF IInv, SavingFilesAreNew
<1>5. /\ Busy' \subseteq Busy
      /\ \A q \in Busy' : q # r => call'[q] = call[q]
      /\ r \in Busy' => /\ call'[r].at = "linking" /\ call'[r].user = c.user
                          /\ call'[r].seen = c.seen /\ call'[r].file = c.file
  <2>1. CASE Goto(r, "linking")
    BY <1>1, <2>1, CallMoves DEF IInv
  <2>2. CASE Finish(r)
    BY <1>1, <2>2 DEF IInv, TypeOK, Finish, Busy
  <2> QED BY <1>2, <2>1, <2>2
<1> HIDE DEF c, old
<1>6. PictureExists' /\ PicturesDiffer'
  BY <1>2, <1>3 DEF IInv, PictureExists, PicturesDiffer
<1>7. CallsAreSound' /\ FilesAreOwn'
  BY <1>1, <1>2, <1>5 DEF IInv, CallsAreSound, FilesAreOwn, c
<1>8. SavingFilesAreNew'
  BY <1>1, <1>2, <1>4, <1>5 DEF IInv, SavingFilesAreNew, c
<1>9. SeenPicturesAreOwn' /\ ReplacedIsUnnamed'
  BY <1>1, <1>2, <1>5 DEF IInv, SeenPicturesAreOwn, ReplacedIsUnnamed, c
<1> QED BY <1>6, <1>7, <1>8, <1>9 DEF IInv

LEMMA NextInv == IInv /\ [Next]_vars => IInv'
<1> SUFFICES ASSUME IInv, [Next]_vars PROVE IInv'
  OBVIOUS
<1>1. TypeOK'
  BY TypeStep DEF IInv
<1>2. CASE UNCHANGED vars
  BY <1>2 DEF vars, IInv, TypeOK, PictureExists, Busy, CallsAreSound, FilesAreOwn,
              SavingFilesAreNew, SeenPicturesAreOwn, PicturesDiffer, ReplacedIsUnnamed
<1>3. ASSUME NEW r \in Requests, NEW u \in Users, NEW email \in Emails \cup {NoEmail, Unchanged},
             NEW file \in Files \cup {NoFile}, updateProfile(r, u, email, file)
      PROVE IInv'
  BY <1>1, <1>3, CallBegins DEF updateProfile, Start, Busy
<1>4. ASSUME NEW r \in Requests, NEW u \in Users, resendVerificationEmail(r, u) PROVE IInv'
  <2>1. NoFile \notin written /\ profile[u].email \in Emails \cup {NoEmail}
    BY DEF IInv, TypeOK, Profile
  <2> QED BY <1>1, <1>4, <2>1, CallBegins DEF resendVerificationEmail, Start
<1>5. ASSUME NEW r \in Requests, NEW u \in Users, NEW code \in Codes, userVerifyMail(r, code, u)
      PROVE IInv'
  <2>1. NoFile \notin written
    BY DEF IInv, TypeOK
  <2> QED BY <1>1, <1>5, <2>1, CallBegins DEF userVerifyMail
<1>6. ASSUME NEW r \in Requests, checkUserUniqueEmail(r) PROVE IInv'
  BY <1>1, <1>6, CallGoesOn DEF checkUserUniqueEmail, At, Busy
<1>7. ASSUME NEW r \in Requests, updateSocialLink(r) PROVE IInv'
  BY <1>1, <1>7, CallGoesOn DEF updateSocialLink, At, Busy
<1>8. ASSUME NEW r \in Requests, NEW code \in Codes, sendVerificationMail(r, code) PROVE IInv'
  <2>1. r \in Busy /\ call[r].user \in Users
    BY <1>8, CallFields DEF sendVerificationMail, At, Busy, IInv
  <2>2. \A u \in Users : profile'[u].picture = profile[u].picture
    BY <1>8, <2>1 DEF sendVerificationMail, IInv, TypeOK, Profile
  <2> QED BY <1>1, <1>8, <2>1, <2>2, CallGoesOn DEF sendVerificationMail
<1>9. ASSUME NEW r \in Requests, markVerified(r) PROVE IInv'
  <2>1. r \in Busy /\ call[r].user \in Users
    BY <1>9, CallFields DEF markVerified, At, Busy, IInv
  <2>2. \A u \in Users : profile'[u].picture = profile[u].picture
    BY <1>9, <2>1 DEF markVerified, IInv, TypeOK, Profile
  <2> QED BY <1>1, <1>9, <2>1, <2>2, CallGoesOn DEF markVerified
<1>10. ASSUME NEW r \in Requests, loseCall(r) PROVE IInv'
  BY <1>1, <1>10, CallGoesOn DEF loseCall, Busy
<1> QED BY <1>1, <1>2, <1>3, <1>4, <1>5, <1>6, <1>7, <1>8, <1>9, <1>10, UploadStep, SaveStep, DeleteStep
        DEF Next, Serve, Continue

(* Every variable keeps its type, and the picture a row names is on the     *)
(* disk, for any number of users and calls that overlap and stop: what a   *)
(* call deletes is named by no row any more, although another call may     *)
(* have replaced it.                                                       *)
THEOREM PicturesExist == Spec => [](TypeOK /\ PictureExists)
<1>1. IInv => TypeOK /\ PictureExists
  BY DEF IInv
<1> QED BY <1>1, InitInv, NextInv, PTL DEF Spec

--------------------------------------------------------------------------------
(* One by one. *)

(* The only call has ended.                                                 *)
LEMMA AllDone ==
    ASSUME TypeOK, NEW r \in Busy, \A q \in Busy : q = r, Finish(r), disk' \subseteq Pictures'
    PROVE  AloneInv'
<1>1. Busy' = {}
  BY DEF Busy, Finish, TypeOK
<1> QED BY <1>1 DEF AloneInv

(* The only call goes on.                                                   *)
LEMMA OneGoesOn ==
    ASSUME NEW r \in Requests, Busy' = {r}, Progress(call[r])'
    PROVE  AloneInv'
BY DEF AloneInv

(* A call begins when there is none; it has seen the row as it is.          *)
LEMMA OneBegins ==
    ASSUME IInv, IInv', AloneInv, \A q, r \in Busy' : q = r,
           NEW r \in Requests, call[r] = Idle, NEW u \in Users,
           NEW place \in {"checking", "mailing", "verifying"},
           NEW to \in Emails \cup {NoEmail, Unchanged}, NEW file \in Files \cup {NoFile},
           call' = [call EXCEPT ![r] = [at |-> place, user |-> u, seen |-> profile[u],
                                        to |-> to, file |-> file]],
           UNCHANGED <<profile, disk>>
    PROVE  AloneInv'
<1> DEFINE new == [at |-> place, user |-> u, seen |-> profile[u], to |-> to, file |-> file]
<1>1. new \in Call
  BY DEF IInv, TypeOK, Call
<1>2. call'[r] = new /\ \A q \in Requests \ {r} : call'[q] = call[q]
  BY DEF IInv, TypeOK
<1>3. Busy' = {r} /\ Busy = {}
  BY <1>1, <1>2 DEF Busy
<1>4. disk \subseteq Pictures /\ Pictures' = Pictures
  BY <1>3 DEF AloneInv, Pictures
<1>5. Progress(call[r])'
  BY <1>2, <1>4 DEF Progress
<1> QED BY <1>3, <1>5, OneGoesOn

LEMMA AloneContinues ==
    ASSUME IInv, IInv', AloneInv, NEW r \in Busy, Continue(r)
    PROVE  AloneInv'
<1> PICK c \in Call, u \in Users : c = call[r] /\ u = c.user
  BY CallFields DEF IInv
<1>1. TypeOK /\ r \in Requests /\ Busy = {r} /\ \A q \in Busy : q = r
  BY DEF IInv, AloneInv, Busy
<1>2. /\ c.seen \in Profile
      /\ c.to \in Emails \cup {NoEmail, Unchanged} /\ c.file \in Files \cup {NoFile}
      /\ profile[u] \in Profile
  BY <1>1 DEF TypeOK, Call
<1>3. Progress(c)
  BY <1>1 DEF AloneInv
<1>4. ASSUME NEW place \in {"uploading", "saving", "replacing", "linking", "mailing"}, Goto(r, place)
      PROVE  /\ Busy' = {r}
             /\ call'[r].at = place /\ call'[r].user = u /\ call'[r].seen = c.seen
             /\ call'[r].to = c.to /\ call'[r].file = c.file
  BY <1>1, <1>4, CallMoves
<1>5. CASE checkUserUniqueEmail(r)
  <2>1. /\ c.at = "checking" /\ UNCHANGED <<profile, disk, written, mails, confirmed>>
        /\ IF Taken(c.to, u) THEN Finish(r) ELSE Goto(r, "uploading")
    BY <1>5 DEF checkUserUniqueEmail, At
  <2>2. Pictures' = Pictures /\ disk' \subseteq Pictures
    BY <1>3, <2>1 DEF Pictures, Progress
  <2>3. CASE Taken(c.to, u)
    BY <1>1, <2>1, <2>2, <2>3, AllDone
  <2>4. CASE ~Taken(c.to, u)
    <3>1. Progress(call[r])'
      BY <1>3, <1>4, <2>1, <2>2, <2>4 DEF Progress, Taken
    <3> QED BY <1>1, <1>4, <2>1, <2>4, <3>1, OneGoesOn
  <2> QED BY <2>3, <2>4
<1>6. CASE profileImageUpload(r)
  <2>1. /\ c.at = "uploading" /\ UNCHANGED <<profile, mails, confirmed>>
        /\ disk' = disk \cup ({c.file} \ {NoFile}) /\ Goto(r, "saving")
    BY <1>6 DEF profileImageUpload, At
  <2>2. Pictures' = Pictures /\ disk \subseteq Pictures
    BY <1>3, <2>1 DEF Pictures, Progress
  <2>3. Progress(call[r])'
    BY <1>3, <1>4, <2>1, <2>2 DEF Progress, Taken
  <2> QED BY <1>1, <1>4, <2>1, <2>3, OneGoesOn
<1>7. CASE saveProfile(r)
  <2>1. /\ c.at = "saving" /\ UNCHANGED disk /\ ~Taken(c.to, u)
        /\ c.seen = profile[u] /\ disk \subseteq Pictures \cup {c.file}
    BY <1>3, <1>7 DEF saveProfile, At, Progress
  <2>2. /\ Goto(r, "replacing")
        /\ profile'[u].picture = (IF c.file = NoFile THEN c.seen.picture ELSE c.file)
        /\ \A v \in Users \ {u} : profile'[v] = profile[v]
    BY <1>1, <1>2, <1>7, <2>1 DEF saveProfile, TypeOK, Profile
  <2>3. disk' \subseteq Pictures' \cup (IF c.file = NoFile THEN {} ELSE {c.seen.picture})
    <3>1. Pictures \subseteq Pictures' \cup {c.seen.picture}
      BY <2>1, <2>2 DEF Pictures
    <3>2. c.file \in Pictures' \/ c.file = NoFile
      BY <1>2, <2>2 DEF Pictures
    <3>3. c.file = NoFile => Pictures' = Pictures /\ NoFile \notin disk
      BY <2>1, <2>2 DEF Pictures, IInv, TypeOK
    <3> QED BY <2>1, <3>1, <3>2, <3>3
  <2>4. c.seen.picture # NoFile => c.seen.picture \in disk'
    BY <1>2, <2>1 DEF IInv, PictureExists
  <2>5. Progress(call[r])'
    BY <1>4, <2>2, <2>3, <2>4 DEF Progress
  <2> QED BY <1>1, <1>4, <2>2, <2>5, OneGoesOn
<1>8. CASE deleteFile(r)
  <2> DEFINE old == IF c.file = NoFile THEN {} ELSE {c.seen.picture} \ {NoFile}
  <2>1. /\ c.at = "replacing" /\ UNCHANGED <<profile, mails, confirmed>> /\ disk' = disk \ old
        /\ \/ Goto(r, "linking")
           \/ ~(old \subseteq disk) /\ Finish(r)
    BY <1>8 DEF deleteFile, At
  <2>2. old \subseteq disk /\ disk' \subseteq Pictures
    BY <1>3, <2>1 DEF Progress, IInv, TypeOK
  <2>3. Pictures' = Pictures /\ Goto(r, "linking")
    BY <2>1, <2>2 DEF Pictures
  <2>4. Progress(call[r])'
    BY <1>4, <2>2, <2>3 DEF Progress
  <2> QED BY <1>1, <1>4, <2>3, <2>4, OneGoesOn
<1>9. CASE updateSocialLink(r)
  <2>1. /\ c.at = "linking" /\ UNCHANGED <<profile, disk>> /\ Finish(r)
    BY <1>9 DEF updateSocialLink, At
  <2>2. disk' \subseteq Pictures'
    BY <1>3, <2>1 DEF Progress, Pictures
  <2> QED BY <1>1, <2>1, <2>2, AllDone
<1>10. ASSUME NEW code \in Codes, sendVerificationMail(r, code) PROVE AloneInv'
  <2>1. c.at = "mailing" /\ disk \subseteq Pictures /\ UNCHANGED disk /\ Finish(r)
    BY <1>3, <1>10 DEF sendVerificationMail, At, Progress
  <2>2. \A v \in Users : profile'[v].picture = profile[v].picture
    BY <1>1, <1>2, <1>10 DEF sendVerificationMail, TypeOK, Profile
  <2>3. Pictures' = Pictures
    BY <2>2 DEF Pictures
  <2> QED BY <1>1, <2>1, <2>3, AllDone
<1>11. CASE markVerified(r)
  <2>1. c.at = "verifying" /\ disk \subseteq Pictures /\ UNCHANGED disk /\ Finish(r)
    BY <1>3, <1>11 DEF markVerified, At, Progress
  <2>2. \A v \in Users : profile'[v].picture = profile[v].picture
    BY <1>1, <1>2, <1>11 DEF markVerified, TypeOK, Profile
  <2>3. Pictures' = Pictures
    BY <2>2 DEF Pictures
  <2> QED BY <1>1, <2>1, <2>3, AllDone
<1> QED BY <1>5, <1>6, <1>7, <1>8, <1>9, <1>10, <1>11 DEF Continue

LEMMA AloneStep ==
    ASSUME IInv, IInv', AloneInv, \A q, r \in Busy' : q = r, Serve
    PROVE  AloneInv'
<1>1. ASSUME NEW r \in Requests, NEW u \in Users, NEW email \in Emails \cup {NoEmail, Unchanged},
             NEW file \in Files \cup {NoFile}, updateProfile(r, u, email, file)
      PROVE AloneInv'
  BY <1>1, OneBegins DEF updateProfile, Start
<1>2. ASSUME NEW r \in Requests, NEW u \in Users, resendVerificationEmail(r, u) PROVE AloneInv'
  <2>1. profile[u].email \in Emails \cup {NoEmail}
    BY DEF IInv, TypeOK, Profile
  <2> QED BY <1>2, <2>1, OneBegins DEF resendVerificationEmail, Start
<1>3. ASSUME NEW r \in Requests, NEW u \in Users, NEW code \in Codes, userVerifyMail(r, code, u)
      PROVE AloneInv'
  BY <1>3, OneBegins DEF userVerifyMail
<1>4. ASSUME NEW r \in Requests, Continue(r) PROVE AloneInv'
  <2>1. r \in Busy
    BY <1>4 DEF Continue, checkUserUniqueEmail, profileImageUpload, saveProfile, deleteFile,
                updateSocialLink, markVerified, sendVerificationMail, At, Busy
  <2> QED BY <1>4, <2>1, AloneContinues
<1> QED BY <1>1, <1>2, <1>3, <1>4 DEF Serve

LEMMA MCNextInv ==
    MCInv /\ [(Overlapping \/ OneByOne) /\ UNCHANGED overlapping]_<<vars, overlapping>> => MCInv'
<1> SUFFICES ASSUME MCInv, [(Overlapping \/ OneByOne) /\ UNCHANGED overlapping]_<<vars, overlapping>>
             PROVE MCInv'
  OBVIOUS
<1>1. [Next]_vars /\ UNCHANGED overlapping
  BY DEF Overlapping, OneByOne, Next
<1>2. IInv'
  BY <1>1, NextInv DEF MCInv
<1>3. ASSUME ~overlapping PROVE AloneInv'
  <2>1. CASE OneByOne
    BY <1>2, <1>3, <2>1, AloneStep DEF OneByOne, MCInv
  <2>2. CASE UNCHANGED vars
    <3>1. AloneInv
      BY <1>3 DEF MCInv
    <3> QED BY <2>2, <3>1 DEF vars, AloneInv, Busy, Pictures, Progress, Taken
  <2> QED BY <1>3, <2>1, <2>2 DEF Overlapping
<1> QED BY <1>1, <1>2, <1>3 DEF MCInv

LEMMA MCInitInv == MCInit => MCInv
<1>1. Init => AloneInv
  BY DEF Init, AloneInv, Busy, Pictures
<1> QED BY <1>1, InitInv DEF MCInit, MCInv

(* The variables keep their types.                                          *)
THEOREM ProfileTypes == MCSpec => []TypeOK
<1>1. MCInv => TypeOK
  BY DEF MCInv, IInv
<1> QED BY <1>1, MCInitInv, MCNextInv, PTL DEF MCSpec

(* The picture a row names exists, whatever overlaps and stops; when calls  *)
(* come one by one and none is lost, the disk has no other picture between *)
(* them: an update that is refused is refused before the upload.           *)
THEOREM PicturesKept == MCSpec => []PicturesAreKept
<1>1. MCInv => PicturesAreKept
  <2> SUFFICES ASSUME MCInv PROVE PicturesAreKept
    OBVIOUS
  <2>1. Quiet => Busy = {}
    BY DEF Quiet, Busy
  <2> QED BY <2>1 DEF MCInv, IInv, AloneInv, PicturesAreKept, NoPictureIsLeftBehind, Pictures
<1> QED BY <1>1, MCInitInv, MCNextInv, PTL DEF MCSpec
================================================================================
