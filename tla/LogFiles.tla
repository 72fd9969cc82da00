------------------------------- MODULE LogFiles -------------------------------
(***************************************************************************)
(* The log files: what console.log, warn and error append to them          *)
(* (src/src/libs/log/logger.service.ts) and what the log viewer reads,     *)
(* cleans and deletes (src/src/libs/logviewer).                            *)
(*                                                                         *)
(* An entry is a JSON object with a comma and a newline, appended in one   *)
(* write.  The disk may be full and the process may stop, so that only a   *)
(* prefix of it is there; the viewer takes the whole file for one list.    *)
(***************************************************************************)
EXTENDS Naturals, SequencesExt

CONSTANTS MaxEntries    \* bound on the entries of a file, for the model checker

VARIABLES
    file,       \* the content of each file in storage/logs
    logChannel, \* LOG_CHANNEL of the environment
    day         \* the date

vars == <<file, logChannel, day>>

datedFile == <<"1_debug.log", "2_debug.log">>
Days == DOMAIN datedFile
LogFile == {"debug.log", "mail.log", "deploy.log", datedFile[1], datedFile[2]}

(* How much of an entry is there: all, all but the newline, two characters  *)
(* at most, or something in between.                                       *)
Part == {"whole", "noNewline", "cut", "start"}
Entry == [of: {"message", "error"}, day: Days, part: Part]
DeployText == [of |-> "deploy", day |-> 1, part |-> "cut"]

TypeOK ==
    /\ DOMAIN file \subseteq LogFile
    /\ \A f \in DOMAIN file : file[f] \in Seq(Entry \cup {DeployText})
    /\ logChannel \in {"single", "daily"} /\ day \in Days

Init ==
    /\ file = [f \in {"deploy.log"} |-> <<DeployText>>]
    /\ logChannel \in {"single", "daily"}
    /\ day = 1

Content(fs, f) == IF f \in DOMAIN fs THEN fs[f] ELSE <<>>
Put(fs, f, content) == [g \in DOMAIN fs \cup {f} |-> IF g = f THEN content ELSE fs[g]]
Bounded == \A f \in DOMAIN file : Len(file[f]) < MaxEntries

--------------------------------------------------------------------------------
debugLog == IF logChannel = "daily" THEN datedFile[day] ELSE "debug.log"

(* Variant: every name takes it. *)
FileOf_Dated(logFile) ==
    IF logFile = "debug.log" THEN debugLog
    ELSE IF logChannel = "daily" THEN "1_mail.log" ELSE logFile

(* The file of a message: only the default name takes the date. *)
FileOf(logFile) == IF logFile = "debug.log" THEN debugLog ELSE logFile

(* What an append may leave of an entry: nothing, a part, or all of it. *)
Written(of, parts) == {<<>>} \cup {<<[of |-> of, day |-> day, part |-> p]>> : p \in parts}

(* logCatch, which appends the error to the default file if it can. *)
logCatch(fs) ==
    {Put(fs, debugLog, Content(fs, debugLog) \o error) : error \in Written("error", Part)}

(* The files after a message: with its entry, or, when the append throws    *)
(* with a part of it written, with what logCatch adds.                     *)
Logged(fs, logFile, of) ==
    LET f == FileOf(logFile)
        Appended(entry) == Put(fs, f, Content(fs, f) \o entry)
    IN  {Appended(<<[of |-> of, day |-> day, part |-> "whole"]>>)} \cup
        UNION {logCatch(Appended(entry)) : entry \in Written(of, Part \ {"whole"})}

(* Objects, what goes to the standard output, and messages of the session   *)
(* store and of the start leave the files as they are.                     *)
Skipped == {"object", "stdout", "session-file-store", "NestFactory"}

log(kind, logFile) ==
    /\ kind \notin Skipped /\ Bounded
    /\ file' \in Logged(file, logFile, "message")
    /\ UNCHANGED <<logChannel, day>>

(* The process stops while it writes, and starts again. *)
stop(logFile) ==
    /\ Bounded
    /\ LET f == FileOf(logFile) IN
       \E entry \in Written("message", Part) :
           file' = Put(file, f, Content(file, f) \o entry)
    /\ UNCHANGED <<logChannel, day>>

--------------------------------------------------------------------------------
(* Variant: one character is dropped. *)
Parses_SliceOne(content) ==
    \A i \in DOMAIN content :
        content[i].part = (IF i = Len(content) THEN "noNewline" ELSE "whole")

(* The list parses when its last two characters can be dropped and the rest *)
(* is objects with commas between them.                                    *)
Parses(content) ==
    \/ \A i \in DOMAIN content :
          \/ content[i].part = "whole"
          \/ content[i].part = "noNewline" /\ i < Len(content)
    \/ Len(content) = 1 /\ content[1].part = "start"

(* getLogs: a file that does not parse is emptied, and the error is logged. *)
(* deploy.log, which the deployment writes, is shown as it is.             *)
getLogs(f) ==
    /\ f \in DOMAIN file \ {"deploy.log"} /\ ~Parses(file[f])
    /\ Bounded
    /\ file' \in Logged(Put(file, f, <<>>), "debug.log", "error")
    /\ UNCHANGED <<logChannel, day>>

cleanFile(f) ==
    /\ f \in DOMAIN file
    /\ file' = Put(file, f, <<>>)
    /\ UNCHANGED <<logChannel, day>>

deleteFile(f) ==
    /\ f \in DOMAIN file
    /\ file' = [g \in DOMAIN file \ {f} |-> file[g]]
    /\ UNCHANGED <<logChannel, day>>

NextDay ==
    /\ day + 1 \in Days /\ day' = day + 1
    /\ UNCHANGED <<file, logChannel>>

Next ==
    \/ \E logFile \in {"debug.log", "mail.log"} :
          stop(logFile) \/ \E kind \in Skipped \cup {"string"} : log(kind, logFile)
    \/ \E f \in LogFile : getLogs(f) \/ cleanFile(f) \/ deleteFile(f)
    \/ NextDay

Spec == Init /\ [][Next]_vars

--------------------------------------------------------------------------------
(* Entries leave a file only when staff clean or delete it, or when it is   *)
(* viewed with an entry in it that a failed write has cut off; the file of *)
(* the deployment is never emptied by a view.                              *)
LossNeedsBrokenEntry ==
    \A f \in DOMAIN file :
        \/ f \in DOMAIN file' /\ IsPrefix(file[f], file'[f])
        \/ f # "deploy.log" /\ \E i \in DOMAIN file[f] : file[f][i].part # "whole"
        \/ cleanFile(f) \/ deleteFile(f)
EntriesAreLostOnlyBroken == [][LossNeedsBrokenEntry]_vars

(* With daily files each entry, those of the logger's own errors and of the *)
(* viewer's included, is in the file of its day or of its own name.        *)
EntriesAreInTheirDay ==
    logChannel = "daily" =>
        /\ "debug.log" \notin DOMAIN file
        /\ \A d \in Days : \A i \in DOMAIN Content(file, datedFile[d]) :
              file[datedFile[d]][i].day = d
================================================================================
