-------------------------------- MODULE Uploads --------------------------------
(***************************************************************************)
(* Uploaded files and their lists: FilesystemService with FileUtil         *)
(* (src/src/app/filesystem).                                               *)
(*                                                                         *)
(* `upload` reads a file to its end to measure it before it writes it;     *)
(* `adminUpload` starts the same validation and does not wait for it.  The *)
(* calls are interleaved at each stream.  A write that fails leaves what   *)
(* it has written.                                                         *)
(***************************************************************************)
EXTENDS Naturals, FiniteSets

CONSTANTS
    Users,
    Requests,       \* calls that may be in flight at once
    Names,          \* the UUIDs of hashName
    Exts, Mimes,    \* extensions and types of the files that are sent
    None

VARIABLES
    disk,       \* the state of each path that exists
    origin,     \* the file that was sent, for each name that has been used
    call,       \* the calls in flight
    checks,     \* validations that nobody waits for and that will reject
    answered,   \* the paths that uploads have answered
    failed      \* the names whose uploads have failed

vars == <<disk, origin, call, checks, answered, failed>>

allowedExts ==
    [image |-> {"png", "jpeg", "jpg", "gif", "svg"},
     video |-> {"mp4", "m4a", "m4p", "m4b", "m4r", "m4v", "webm"},
     audio |-> {"mp3", "ogg", "wav"},
     _3d   |-> {"glb"}]
allowedMimes ==
    [image |-> {"image/png", "image/jpeg", "image/gif", "image/svg+xml"},
     video |-> {"video/mp4", "video/mpeg", "video/webm"},
     audio |-> {"audio/mpeg", "audio/ogg", "audio/wav", "audio/x-wav"},
     _3d   |-> {"application/octet-stream"}]
FileTypes == DOMAIN allowedExts
imageSizes == {"thumb"}

FileUpload == [ext: Exts, mime: Mimes, large: BOOLEAN]
Path == [dir: Users \cup {"admin"}, size: imageSizes \cup {"full"}, name: Names, ext: Exts]
Call == [at: {"size", "full", "thumb"}, dir: Users \cup {"admin"}, types: SUBSET FileTypes,
         file: FileUpload, name: Names \cup {None}]

NoneAssumption == None \notin FileTypes \cup Names \cup FileUpload \cup Call
AdminAssumption == "admin" \notin Users

TypeOK ==
    /\ DOMAIN disk \subseteq Path /\ \A p \in DOMAIN disk : disk[p] \in {"partial", "whole"}
    /\ origin \in [Names -> FileUpload \cup {None}]
    /\ call \in [Requests -> Call \cup {None}]
    /\ checks \subseteq Requests
    /\ answered \subseteq Path /\ failed \subseteq Names
    /\ \A p \in DOMAIN disk : origin[p.name] # None /\ origin[p.name].ext = p.ext

Init ==
    /\ disk = [p \in {} |-> "whole"]
    /\ origin = [n \in Names |-> None]
    /\ call = [r \in Requests |-> None]
    /\ checks = {} /\ answered = {} /\ failed = {}

--------------------------------------------------------------------------------
(* FileUtil *)
type(ext) ==
    IF \E t \in FileTypes : ext \in allowedExts[t]
    THEN CHOOSE t \in FileTypes : ext \in allowedExts[t]
    ELSE None

(* The extension and the type are looked up each on its own, in all the     *)
(* classes that are asked for: an image may come with the type of a sound. *)
Fits(file, types) ==
    \E t, u \in types : file.ext \in allowedExts[t] /\ file.mime \in allowedMimes[u]

isImage(file) == file.ext \in allowedExts.image /\ file.mime \in allowedMimes.image

At(r, place) == call[r] # None /\ call[r].at = place
PathOf(c, size) == [dir |-> c.dir, size |-> size, name |-> c.name, ext |-> c.file.ext]
Put(path, state) == [p \in DOMAIN disk \cup {path} |-> IF p = path THEN state ELSE disk[p]]

--------------------------------------------------------------------------------
(* upload: uploadFile takes every type, the profiles and logos take images. *)
upload(r, u, file, types) ==
    /\ call[r] = None /\ Fits(file, types)
    /\ call' = [call EXCEPT ![r] = [at |-> "size", dir |-> u, types |-> types,
                                    file |-> file, name |-> None]]
    /\ UNCHANGED <<disk, origin, checks, answered, failed>>

BeginWrite(r, c, name) ==
    LET d == [c EXCEPT !.at = "full", !.name = name]
    IN  /\ origin[name] = None
        /\ origin' = [origin EXCEPT ![name] = c.file]
        /\ call' = [call EXCEPT ![r] = d]
        /\ disk' = Put(PathOf(d, "full"), "partial")

validateSize(r) ==
    /\ At(r, "size")
    /\ IF call[r].file.large
       THEN /\ call' = [call EXCEPT ![r] = None]
            /\ UNCHANGED <<disk, origin>>
       ELSE \E name \in Names : BeginWrite(r, call[r], name)
    /\ UNCHANGED <<checks, answered, failed>>

(* adminUpload: the promise of isValid() is true as it is. *)
adminUpload(r, file) ==
    /\ call[r] = None
    /\ \E name \in Names :
           BeginWrite(r, [at |-> "full", dir |-> "admin", types |-> FileTypes,
                          file |-> file, name |-> None], name)
    /\ checks' = IF Fits(file, FileTypes) /\ file.large THEN checks \cup {r} ELSE checks
    /\ UNCHANGED <<answered, failed>>

(* Variants: the file is answered at once; the larger image is enough. *)
saveFile_NotAwaited(r) ==
    /\ At(r, "full")
    /\ answered' = answered \cup {PathOf(call[r], "full")}
    /\ call' = [call EXCEPT ![r] = None]
    /\ UNCHANGED <<disk, origin, checks, failed>>
saveFile_NoResize(r) ==
    /\ At(r, "full")
    /\ disk' = Put(PathOf(call[r], "full"), "whole")
    /\ answered' = answered \cup {PathOf(call[r], "full")}
    /\ call' = [call EXCEPT ![r] = None]
    /\ UNCHANGED <<origin, checks, failed>>

(* The file is written.  resizeAndSave goes on with the smaller images. *)
saveFile(r) ==
    /\ At(r, "full")
    /\ LET c == call[r] IN
       /\ IF c.dir = "admin" /\ isImage(c.file)
          THEN /\ disk' = [p \in DOMAIN disk \cup {PathOf(c, "thumb")} |->
                              IF p = PathOf(c, "full") THEN "whole"
                              ELSE IF p = PathOf(c, "thumb") THEN "partial" ELSE disk[p]]
               /\ call' = [call EXCEPT ![r].at = "thumb"]
               /\ UNCHANGED answered
          ELSE /\ disk' = Put(PathOf(c, "full"), "whole")
               /\ call' = [call EXCEPT ![r] = None]
               /\ answered' = answered \cup {PathOf(c, "full")}
    /\ UNCHANGED <<origin, checks, failed>>

resizeAndSave(r) ==
    /\ At(r, "thumb")
    /\ disk' = Put(PathOf(call[r], "thumb"), "whole")
    /\ answered' = answered \cup {PathOf(call[r], size) : size \in {"full", "thumb"}}
    /\ call' = [call EXCEPT ![r] = None]
    /\ UNCHANGED <<origin, checks, failed>>

NamesOf(requests) == {call[r].name : r \in {s \in requests : call[s] # None}} \ {None}

(* A stream breaks, or sharp cannot read what claims to be an image. *)
failCall(r) ==
    /\ call[r] # None
    /\ call' = [call EXCEPT ![r] = None]
    /\ failed' = failed \cup NamesOf({r})
    /\ UNCHANGED <<disk, origin, checks, answered>>

(* The validation of an upload that is not waited for rejects.  Sentry      *)
(* notes it if it has its address; without, the process ends with every     *)
(* call in it.                                                             *)
rejectCheck(r) ==
    /\ r \in checks
    /\ \/ checks' = checks \ {r} /\ UNCHANGED <<call, failed>>
       \/ /\ checks' = {}
          /\ call' = [s \in Requests |-> None]
          /\ failed' = failed \cup NamesOf(Requests)
    /\ UNCHANGED <<disk, origin, answered>>

Next ==
    \E r \in Requests :
        \/ \E file \in FileUpload :
              \/ \E u \in Users, types \in {FileTypes, {"image"}} : upload(r, u, file, types)
              \/ adminUpload(r, file)
        \/ validateSize(r) \/ saveFile(r) \/ resizeAndSave(r)
        \/ failCall(r) \/ rejectCheck(r)

Spec == Init /\ [][Next]_vars

--------------------------------------------------------------------------------
(* listFile and adminFileList: what a directory holds, with the sizes an    *)
(* image is said to have.                                                  *)
FileObjects(dir) ==
    {[path |-> p, type |-> type(p.ext),
      variants |-> IF type(p.ext) = "image" THEN imageSizes ELSE {}] :
        p \in {q \in DOMAIN disk : q.dir = dir /\ q.size = "full"}}

(* The list of a user can always be answered, for the type of a file is not *)
(* nullable, and holds nothing that is too large.                          *)
UserListAnswers ==
    \A u \in Users : \A f \in FileObjects(u) :
        f.type # None /\ ~origin[f.path.name].large

(* Whatever fails or stops, the paths an upload has answered are complete.  *)
AnsweredFilesAreWhole == \A p \in answered : p \in DOMAIN disk /\ disk[p] = "whole"

(* The list of the administrators names a smaller image that is missing     *)
(* only while its upload runs, after one that failed, or when the file was *)
(* sent as something else than an image.                                   *)
AdminVariantsExist ==
    \A f \in FileObjects("admin") : \A size \in f.variants :
        LET p == [f.path EXCEPT !.size = size] IN
        \/ p \in DOMAIN disk /\ disk[p] = "whole"
        \/ p.name \in failed \cup NamesOf(Requests)
        \/ origin[p.name].mime \notin allowedMimes.image
================================================================================
