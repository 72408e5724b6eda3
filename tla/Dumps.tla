------------------------------- MODULE Dumps -------------------------------
(***************************************************************************)
(* The dumps to the SD card: option_DumpSyslogs with copy_file, and        *)
(* option_DumpOtpAndSeeprom with write_file_to_sd, read_otp_seeprom and    *)
(* EEPROM_Read (ios_mcp/source/options and utils.c).                       *)
(***************************************************************************)
EXTENDS Fsa

CONSTANTS
    Logs,          \* the files in /vol/system/logs
    Directories,   \* the directories in it
    MaxBlocks      \* bound: the largest log, in blocks of COPY_BUFFER_SIZE

ASSUME DumpConstants ==
    /\ MaxBlocks \in Nat
    /\ Logs \cap (Directories \cup {"otp.bin", "seeprom.bin", "end"}) = {}

VARIABLES
    sd,        \* how much of each dumped file is on the card: "none", "part" or "whole"
    job,       \* the dump under way: "none", "logs" or "otp"
    entries,   \* the entries of the logs directory that were not read yet
    file,      \* the log that copy_file copies
    blocks,    \* what is left to read of it
    short,     \* was a block of it not written as a whole?
    wrote,     \* history: the files that the running dump wrote as a whole
    unnoticed  \* history: the losses that it has not noticed

dumpVars == <<sd, job, entries, file, blocks, short, wrote, unnoticed>>

Dumped == Logs \cup {"otp.bin", "seeprom.bin"}

\* Between two dumps the variables of the last one mean nothing.
NoDump ==
    /\ job' = "none" /\ entries' = {} /\ file' = "end" /\ blocks' = 0 /\ short' = FALSE
    /\ wrote' = {} /\ unnoticed' = {}
    /\ UNCHANGED sd

DumpInit ==
    /\ sd = [name \in Dumped |-> "none"]
    /\ job = "none" /\ entries = {} /\ file = "end" /\ blocks = 0 /\ short = FALSE
    /\ wrote = {} /\ unnoticed = {}

-----------------------------------------------------------------------------
(* Syslogs.                                                                *)

MakeLogs ==
    /\ job' = "logs"
    /\ \E res \in FSA_MakeDir :
          IF res = "failed" THEN print_error("logs", "dumped", "error")
                            ELSE Step("logs", "logsOpen") /\ UNCHANGED told
    /\ UNCHANGED <<held, sd, entries, file, blocks, short, wrote, unnoticed>>

OpenLogs ==
    /\ \E res \in FSA_OpenDir :
          \/ /\ res = "ok" /\ Step("logsOpen", "logsRead") /\ Hold({"dir"}, {})
             /\ entries' = Logs \cup Directories /\ UNCHANGED told
          \/ res # "ok" /\ print_error("logsOpen", "dumped", "error") /\ UNCHANGED <<held, entries>>
    /\ UNCHANGED <<sd, job, file, blocks, short, wrote, unnoticed>>

\* The loop over the directory.  Whatever FSA_ReadDir fails with ends it, and
\* then the dump is "Done!".
ReadLogs ==
    /\ \E entry \in FSA_ReadDir(entries) :
          /\ entries' = entries \ {entry}
          /\ \/ entry \in Directories /\ Step("logsRead", "logsRead") /\ UNCHANGED <<told, file, unnoticed>>
             \/ entry \in Logs /\ Step("logsRead", "copyOpen") /\ file' = entry /\ UNCHANGED <<told, unnoticed>>
             \/ /\ entry = "end" /\ Wait("logsRead", "logsClose") /\ told' = "done"
                /\ unnoticed' = unnoticed \cup (IF entries \cap Logs # {} THEN {"readDir"} ELSE {})
                /\ UNCHANGED file
    /\ UNCHANGED <<held, sd, job, blocks, short, wrote>>

CloseLogs ==
    /\ Step("logsClose", "dumped") /\ UNCHANGED told
    /\ Hold({}, FSA_CloseDir("dir"))
    /\ UNCHANGED dumpVars

\* copy_file failed and released what it had; the directory is closed before the
\* message.
CopyFails(here, released) ==
    /\ print_error(here, "dumped", "error")
    /\ Hold({}, released \cup FSA_CloseDir("dir"))

\* copy_file opens the log ...
OpenLog ==
    /\ \/ "failed" \in FSA_OpenFile("openLog", TRUE) /\ CopyFails("copyOpen", {})
       \/ /\ "ok" \in FSA_OpenFile("openLog", TRUE)
          /\ Step("copyOpen", "copyCreate") /\ Hold({"src"}, {}) /\ UNCHANGED told
    /\ UNCHANGED dumpVars

\* Faulty: the log stays open when its copy cannot be created.
CreateCopy_KeepLog ==
    /\ \/ "failed" \in FSA_OpenFile("openCopy", TRUE) /\ CopyFails("copyCreate", {}) /\ UNCHANGED sd
       \/ /\ "ok" \in FSA_OpenFile("openCopy", TRUE)
          /\ Step("copyCreate", "copyAlloc") /\ Hold({"dst"}, {}) /\ UNCHANGED told
          /\ sd' = [sd EXCEPT ![file] = "part"]
    /\ UNCHANGED <<job, entries, file, blocks, short, wrote, unnoticed>>

\* ... creates or truncates its copy ...
CreateCopy ==
    /\ \/ /\ "failed" \in FSA_OpenFile("openCopy", TRUE)
          /\ CopyFails("copyCreate", FSA_CloseFile("src")) /\ UNCHANGED sd
       \/ /\ "ok" \in FSA_OpenFile("openCopy", TRUE)
          /\ Step("copyCreate", "copyAlloc") /\ Hold({"dst"}, {}) /\ UNCHANGED told
          /\ sd' = [sd EXCEPT ![file] = "part"]
    /\ UNCHANGED <<job, entries, file, blocks, short, wrote, unnoticed>>

\* ... and allocates its buffer.
AllocateCopy ==
    /\ \/ /\ "failed" \in Outcomes("alloc")
          /\ CopyFails("copyAlloc", FSA_CloseFile("src") \cup FSA_CloseFile("dst")) /\ UNCHANGED blocks
       \/ /\ Step("copyAlloc", "copy") /\ Hold({"copyBuffer"}, {}) /\ UNCHANGED told
          /\ blocks' \in 0 .. MaxBlocks
    /\ UNCHANGED <<sd, job, entries, file, short, wrote, unnoticed>>

\* After the loop copy_file frees the buffer and closes both files.
ReleaseCopy == {"copyBuffer"} \cup FSA_CloseFile("dst") \cup FSA_CloseFile("src")

\* The end of the log.
EndCopy ==
    /\ Step("copy", "logsRead") /\ UNCHANGED <<told, unnoticed>>
    /\ Hold({}, ReleaseCopy)
    /\ sd' = [sd EXCEPT ![file] = IF short THEN "part" ELSE "whole"]
    /\ wrote' = IF short THEN wrote ELSE wrote \cup {file}
    /\ blocks' = 0 /\ short' = FALSE

\* An error ends the copy and leaves a part of the log on the card.
BreakCopy ==
    /\ CopyFails("copy", ReleaseCopy)
    /\ blocks' = 0 /\ short' = FALSE
    /\ UNCHANGED <<sd, wrote, unnoticed>>

\* A block was read and `written` of its n parts were written.
WroteBlock(n, written) ==
    /\ Step("copy", "copy") /\ UNCHANGED <<held, told, sd, wrote>>
    /\ blocks' = blocks - n
    /\ short' = (short \/ written < n)
    /\ unnoticed' = unnoticed \cup (IF written < n THEN {"shortWrite"} ELSE {})

\* Faulty: an error of FSA_WriteFile does not end the copy.
CopyBlock_IgnoreError ==
    /\ \E n \in FSA_ReadFile("readLog", IF blocks > 0 THEN 1 ELSE 0) :
          \/ n = -1 /\ BreakCopy
          \/ n = 0 /\ EndCopy
          \/ /\ n > 0 /\ Step("copy", "copy") /\ blocks' = blocks - n
             /\ \E written \in FSA_WriteFile("writeLog", n) : short' = (short \/ written < n)
             /\ UNCHANGED <<held, told, sd, wrote, unnoticed>>
    /\ UNCHANGED <<job, entries, file>>

\* One turn of copy_file's loop: read a block and write it.  Only a negative
\* answer of FSA_WriteFile ends the loop, so a short write is not noticed.
CopyBlock ==
    /\ \E n \in FSA_ReadFile("readLog", IF blocks > 0 THEN 1 ELSE 0) :
          \/ n = -1 /\ BreakCopy
          \/ n = 0 /\ EndCopy
          \/ n > 0 /\ \E written \in FSA_WriteFile("writeLog", n) :
                \/ written = -1 /\ BreakCopy
                \/ written >= 0 /\ WroteBlock(n, written)
    /\ UNCHANGED <<job, entries, file>>

-----------------------------------------------------------------------------
(* OTP and SEEPROM.                                                        *)

\* IOS_ReadOTP, which the bootstrap allowed for every process.
IOS_ReadOTP == Outcomes("readOtp")

\* One word after the other; the first that fails ends it.  A range that ends
\* beyond the SEEPROM is refused.
EEPROM_Read(offset, num) ==
    IF offset + num > 256 THEN {"failed"} ELSE {"ok"} \cup (IF num > 0 THEN Outcomes("bspRead") ELSE {})

\* The message waits for a button before the caller gets its answer.
read_otp_seeprom(here, there, failed) ==
    \/ "ok" \in IOS_ReadOTP \cap EEPROM_Read(0, 256) /\ Step(here, there) /\ UNCHANGED told
    \/ "failed" \in IOS_ReadOTP \cup EEPROM_Read(0, 256) /\ print_error(here, failed, "error")

AllocateDump ==
    /\ job' = "otp"
    /\ \/ Step("otp", "otpRead") /\ Hold({"dumpBuffer"}, {}) /\ UNCHANGED told
       \/ "failed" \in Outcomes("alloc") /\ print_error("otp", "dumped", "error") /\ UNCHANGED held
    /\ UNCHANGED <<sd, entries, file, blocks, short, wrote, unnoticed>>

\* The buffer is freed before the message.
ReadMemory(here, there, outcomes) ==
    /\ \/ "ok" \in outcomes /\ Step(here, there) /\ UNCHANGED <<held, told>>
       \/ "failed" \in outcomes /\ print_error(here, "dumped", "error") /\ Hold({}, {"dumpBuffer"})
    /\ UNCHANGED dumpVars

\* The file is created and `written` of its two halves are written.
Wrote(name, written) ==
    /\ "ok" \in FSA_OpenFile("createDump", TRUE)
    /\ sd' = [sd EXCEPT ![name] = IF written = 2 THEN "whole" ELSE "part"]
    /\ wrote' = IF written = 2 THEN wrote \cup {name} ELSE wrote

\* write_file_to_sd creates the file, writes the buffer, closes the file and
\* returns what FSA_WriteFile answered when it was not the size.  That is 0, a
\* success for the caller, when nothing could be written.
write_file_to_sd(here, name, there) ==
    /\ \/ /\ "failed" \in FSA_OpenFile("createDump", TRUE)
          /\ print_error(here, "dumpFree", "error") /\ UNCHANGED <<sd, wrote, unnoticed>>
       \/ \E written \in FSA_WriteFile("writeDump", 2) :
             /\ Wrote(name, written)
             /\ \/ written = 2 /\ Step(here, there) /\ UNCHANGED <<told, unnoticed>>
                \/ /\ written = 0 /\ print_error(here, there, "error")
                   /\ unnoticed' = unnoticed \cup {"zeroWrite"}
                \/ written \notin {0, 2} /\ print_error(here, "dumpFree", "error") /\ UNCHANGED unnoticed
    /\ UNCHANGED <<held, job, entries, file, blocks, short>>

DumpDone ==
    /\ Wait("dumpDone", "dumpFree") /\ told' = "done"
    /\ UNCHANGED <<held, dumpVars>>

FreeDump ==
    /\ Step("dumpFree", "dumped") /\ UNCHANGED told
    /\ Hold({}, {"dumpBuffer"})
    /\ UNCHANGED dumpVars

option_DumpOtpAndSeeprom ==
    \/ AllocateDump
    \/ ReadMemory("otpRead", "otpWrite", IOS_ReadOTP)
    \/ write_file_to_sd("otpWrite", "otp.bin", "seepromRead")
    \/ ReadMemory("seepromRead", "seepromWrite", EEPROM_Read(0, 256))
    \/ write_file_to_sd("seepromWrite", "seeprom.bin", "dumpDone")
    \/ DumpDone \/ FreeDump

CopyLog == OpenLog \/ CreateCopy \/ AllocateCopy \/ CopyBlock

option_DumpSyslogs == MakeLogs \/ OpenLogs \/ ReadLogs \/ CloseLogs \/ CopyLog

\* A dump returns to the main menu, but for the frees after its last wait.
DumpReturns == Return("dumped") /\ UNCHANGED held /\ NoDump

DumpNext == (option_DumpSyslogs \/ option_DumpOtpAndSeeprom \/ DumpReturns) /\ UNCHANGED fsaHandle

-----------------------------------------------------------------------------

DumpTypeOK ==
    /\ sd \in [Dumped -> {"none", "part", "whole"}]
    /\ job \in {"none", "logs", "otp"}
    /\ entries \subseteq Logs \cup Directories
    /\ file \in Logs \cup {"end"}
    /\ blocks \in 0 .. MaxBlocks
    /\ short \in BOOLEAN
    /\ wrote \subseteq Dumped
    /\ unnoticed \subseteq {"readDir", "shortWrite", "zeroWrite"}

FilesOfJob(dump) == IF dump = "logs" THEN Logs ELSE {"otp.bin", "seeprom.bin"}

\* The dumps promise what CopyJob says.
Copies == INSTANCE CopyJob WITH
    Names <- Dumped, Jobs <- {"logs", "otp"}, FilesOf <- FilesOfJob,
    copies <- sd, todo <- IF job = "none" THEN {} ELSE FilesOfJob(job) \ wrote,
    damaged <- unnoticed # {}, outcome <- IF job = "none" THEN "nothing" ELSE told

\* Both dumps implement the abstract dump: they touch no file but their own, and
\* "Done!" is said only when every file was written as a whole by this dump,
\* except after a loss the code does not notice: an error of FSA_ReadDir, a
\* short write of copy_file or a write_file_to_sd that wrote nothing.
CopySpec == Copies!Spec
=============================================================================
