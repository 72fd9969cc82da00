------------------------------ MODULE MCServices ------------------------------
(***************************************************************************)
(* Settings, seeding, uploads, log files, mails and nonces on small        *)
(* instances.  The modules share no variable, so one run explores them     *)
(* side by side: `part` is the one that moves, the variables of the others *)
(* are Off.  Settings are saved in one part by calls that overlap, in one   *)
(* group, and in the other one by one.  Of the seeding one part follows the *)
(* ids of blockchains and the other edits of settings.  Mails overlap in one *)
(* part, saves of their settings in the other.                             *)
(***************************************************************************)
EXTENDS Naturals, TLC

CONSTANTS
    Requests,
    SaveGroups, SaveKeys, UploadKeys, Input, Texts, Overlapping, \* of Settings
    Networks, MaxId, MaxEdits,                                  \* of Seeding
    Users, Names, Exts, Mimes,                                  \* of Uploads
    MaxEntries,                                                 \* of LogFiles
    People, env, MaxSaves,                                      \* of Mails
    Mints, FirstCount, MaxOthers, Faults,                       \* of MintNonces
    BLOCK_CONFIRMATION_TO_WAIT,
    NoRow, Null, None, Idle, Off

VARIABLES
    part,
    row, saveCall, last,
    main, admin, settings, chains, nextId, tokens, edits, rearranged,
    disk, origin, uploadCall, checks, answered, failed,
    file, logChannel, day,
    setting, save, asked, unsure, saves, code, mail, inbox, mailsOverlapped,
    txNonce, txCount, others, pool, mint, mintsOverlapped

Settings == INSTANCE Settings
    WITH Groups <- SaveGroups, Keys <- SaveKeys, imageSlugList <- UploadKeys,
         Values <- Texts, call <- saveCall
Seeding == INSTANCE Seeding
Uploads == INSTANCE Uploads WITH call <- uploadCall
Logs == INSTANCE LogFiles
Mails == INSTANCE Mails WITH Sends <- Requests, Savers <- Requests, Values <- Texts, overlapped <- mailsOverlapped
Nonces == INSTANCE MintNonces WITH overlapped <- mintsOverlapped

(* The values of the constants that are no model values.                    *)
GroupInput == [homepage |-> {"title", "image"}, mail |-> {"host"}]

ASSUME SettingsAssumption == Settings!InputAssumption /\ Settings!NullAssumption
ASSUME SeedingAssumption == Seeding!BoundsAssumption /\ Seeding!NetworksAssumption
ASSUME UploadsAssumption == Uploads!NoneAssumption /\ Uploads!AdminAssumption
ASSUME MailsAssumption == Mails!BoundsAssumption
ASSUME NoncesAssumption == Nonces!ConstantsAssumption

settingVars == <<row, saveCall, last>>
seedVars == <<main, admin, settings, chains, nextId, tokens, edits, rearranged>>
uploadVars == <<disk, origin, uploadCall, checks, answered, failed>>
logVars == <<file, logChannel, day>>
mailVars == <<setting, save, asked, unsure, saves, code, mail, inbox, mailsOverlapped>>
nonceVars == <<txNonce, txCount, others, pool, mint, mintsOverlapped>>
vars == <<part, settingVars, seedVars, uploadVars, logVars, mailVars, nonceVars>>

SettingsOff == row = Off /\ saveCall = Off /\ last = Off
SeedingOff ==
    /\ main = Off /\ admin = Off /\ settings = Off /\ chains = Off /\ nextId = Off
    /\ tokens = Off /\ edits = Off /\ rearranged = Off
UploadsOff ==
    /\ disk = Off /\ origin = Off /\ uploadCall = Off /\ checks = Off
    /\ answered = Off /\ failed = Off
LogsOff == file = Off /\ logChannel = Off /\ day = Off
MailsOff ==
    /\ setting = Off /\ save = Off /\ asked = Off /\ unsure = Off /\ saves = Off
    /\ code = Off /\ mail = Off /\ inbox = Off /\ mailsOverlapped = Off
NoncesOff ==
    /\ txNonce = Off /\ txCount = Off /\ others = Off /\ pool = Off
    /\ mint = Off /\ mintsOverlapped = Off

OnlyOverlapping ==
    /\ \A k \in SaveKeys : row[k] # NoRow => row[k].option_group \in Overlapping
    /\ \A r \in Requests : saveCall[r] # Idle => saveCall[r].save.group \in Overlapping
OneByOne == \A q, r \in Requests : saveCall[q] # Idle /\ saveCall[r] # Idle => q = r

Init ==
    \/ /\ \/ part = "settings" /\ Settings!Init /\ OnlyOverlapping
          \/ part = "settings one by one" /\ Settings!Init
       /\ SeedingOff /\ UploadsOff /\ LogsOff /\ MailsOff /\ NoncesOff
    \/ /\ part \in {"seeding ids", "seeding settings"} /\ Seeding!Init
       /\ SettingsOff /\ UploadsOff /\ LogsOff /\ MailsOff /\ NoncesOff
    \/ /\ part = "uploads" /\ Uploads!Init
       /\ SettingsOff /\ SeedingOff /\ LogsOff /\ MailsOff /\ NoncesOff
    \/ /\ part = "logs" /\ Logs!Init
       /\ SettingsOff /\ SeedingOff /\ UploadsOff /\ MailsOff /\ NoncesOff
    \/ /\ part \in {"mails", "mail settings"} /\ Mails!Init
       /\ SettingsOff /\ SeedingOff /\ UploadsOff /\ LogsOff /\ NoncesOff
    \/ /\ part = "nonces" /\ Nonces!Init
       /\ SettingsOff /\ SeedingOff /\ UploadsOff /\ LogsOff /\ MailsOff

SettingsNext ==
    /\ \/ part = "settings" /\ Settings!Next /\ OnlyOverlapping'
       \/ part = "settings one by one" /\ Settings!Next /\ OneByOne'
    /\ UNCHANGED <<part, seedVars, uploadVars, logVars, mailVars, nonceVars>>
OnlySeededSettings == \A k \in Seeding!Keys : settings[k] # NoRow => settings[k].value = "seeded"
SeedingNext ==
    /\ \/ part = "seeding ids" /\ Seeding!Next /\ OnlySeededSettings'
       \/ part = "seeding settings" /\ Seeding!Next /\ edits' <= 1 /\ nextId' <= 4 /\ ~rearranged'
    /\ UNCHANGED <<part, settingVars, uploadVars, logVars, mailVars, nonceVars>>
UploadsNext ==
    /\ part = "uploads" /\ Uploads!Next
    /\ UNCHANGED <<part, settingVars, seedVars, logVars, mailVars, nonceVars>>
LogsNext ==
    /\ part = "logs" /\ Logs!Next
    /\ UNCHANGED <<part, settingVars, seedVars, uploadVars, mailVars, nonceVars>>
OneMailReads ==
    /\ \E s \in Requests : mail[s].at = "idle"
    /\ \A s \in Requests : mail[s].at \notin {"sending", "delivered"}
    /\ asked.mail_driver # "log"
MailsNext ==
    /\ \/ part = "mails" /\ Mails!Next /\ saves' <= 1
       \/ part = "mail settings" /\ Mails!Next /\ OneMailReads'
    /\ UNCHANGED <<part, settingVars, seedVars, uploadVars, logVars, nonceVars>>
NoncesNext ==
    /\ part = "nonces" /\ Nonces!Next
    /\ UNCHANGED <<part, settingVars, seedVars, uploadVars, logVars, mailVars>>

Next == SettingsNext \/ SeedingNext \/ UploadsNext \/ LogsNext \/ MailsNext \/ NoncesNext

Spec == Init /\ [][Next]_vars

(* Calls, and texts or names, are interchangeable.                          *)
Symmetry == Permutations(Requests) \cup Permutations(Names) \cup Permutations(Mints)

--------------------------------------------------------------------------------
(* The types of the six modules.                                           *)
ServicesTypeOK ==
    /\ part \in {"settings", "settings one by one"} => Settings!TypeOK
    /\ part \in {"seeding ids", "seeding settings"} => Seeding!TypeOK
    /\ part = "uploads" => Uploads!TypeOK
    /\ part = "logs" => Logs!TypeOK
    /\ part \in {"mails", "mail settings"} => Mails!TypeOK
    /\ part = "nonces" => Nonces!TypeOK

(* Overlapping saves are refused only for keys that had no row, the mark    *)
(* from which links are made is on the uploads and only there, and without *)
(* overlaps a save that succeeded has stored its payload.                  *)
SavesAreSound ==
    /\ part = "settings" => Settings!OnlyNewKeysCollide /\ Settings!MediaIsMarked
    /\ part = "settings one by one" => Settings!SavedIsStored

(* Whatever staff change, rename or delete, seeding again leaves the row    *)
(* that a key has as it is; rows are in the group whose input saves their  *)
(* key, with uploads and only those as media, and seeded tokens are on the *)
(* blockchain they are for until staff rearrange the blockchains.          *)
SeedingIsSound ==
    /\ [][(part \in {"seeding ids", "seeding settings"}) => Seeding!StepKeepsRows]_vars
    /\ [](part = "seeding settings" => Seeding!EveryKeyCanBeSaved /\ Seeding!MediaRowsAreUploads)
    /\ [](part = "seeding ids" => Seeding!TokensAreOnTheirChain)

(* What an upload has answered is complete, the administrators' list names  *)
(* smaller images that exist, and a user's list can be answered and holds  *)
(* nothing too large.                                                      *)
UploadsAreWhole ==
    part = "uploads" =>
        Uploads!AnsweredFilesAreWhole /\ Uploads!AdminVariantsExist /\ Uploads!UserListAnswers

(* A view empties a file only if a write of it was cut off, and each entry  *)
(* is in the file of its day or of its name.                               *)
LogsAreKept ==
    /\ [][part = "logs" => Logs!LossNeedsBrokenEntry]_vars
    /\ [](part = "logs" => Logs!EntriesAreInTheirDay)

(* A mail mixes old and new settings only where a save is under way or was  *)
(* disturbed, and who asked for a code when no mail was on its way has the  *)
(* stored code in the last one.                                            *)
MailsAreSound ==
    /\ [][(part \in {"mails", "mail settings"}) => Mails!ConfigAsAsked]_vars
    /\ [](part \in {"mails", "mail settings"} => Mails!LastMailHasTheCode)

(* Mints share a nonce only if they overlapped, or if it is the first; as   *)
(* long as no mint has failed, none waits for a nonce nobody sends.        *)
NoncesAreSound == part = "nonces" => Nonces!SharedNonceNeedsOverlap /\ Nonces!NoGapWithoutFailure
================================================================================
