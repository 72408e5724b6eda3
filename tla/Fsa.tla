-------------------------------- MODULE Fsa --------------------------------
(***************************************************************************)
(* The file system as the options see it: ios_mcp/source/fsa.c, which      *)
(* turns every call into one request to /dev/fsa and returns the answer.   *)
(* A call is the set of answers it may get; without a handle to /dev/fsa   *)
(* every request fails.                                                    *)
(***************************************************************************)
EXTENDS MenuInput

VARIABLE fsaHandle     \* "open" or "none"

\* IOS_Ioctl(fsaHandle, ...): "ok" only with a handle; any call may fail.
Request(call) == IF fsaHandle = "open" THEN Outcomes(call) ELSE {"failed"}

\* -0x30016, the directory exists, is no failure to its only caller.
FSA_MakeDir == Request("makeDir") \cup (IF fsaHandle = "open" THEN {"exists"} ELSE {})

FSA_OpenDir == Request("openDir")

\* The next entry of those that are left; an error looks like the end.
FSA_ReadDir(left) ==
    (IF "ok" \in Request("readDir") THEN left ELSE {})
        \cup (IF left = {} \/ "failed" \in Request("readDir") THEN {"end"} ELSE {})

\* A file that does not exist cannot be opened for reading.
FSA_OpenFile(call, exists) == IF exists THEN Request(call) ELSE {"failed"}

FSA_StatFile == Request("stat")

\* size * cnt bytes or items are asked for: an answer is a number up to that, or
\* -1 for an error.
_FSA_ReadWriteFile(call, answers) ==
    (IF fsaHandle = "open" THEN answers ELSE {}) \cup (IF "failed" \in Request(call) THEN {-1} ELSE {})

\* Reading stops short of what is asked for only at the end of the file.
FSA_ReadFile(call, left) == _FSA_ReadWriteFile(call, {left})

\* Writing may stop short anywhere, also before the first byte.
FSA_WriteFile(call, size) ==
    _FSA_ReadWriteFile(call, IF "shortWrite" \in Faults THEN 0 .. size ELSE {size})

-----------------------------------------------------------------------------
(* Closing: what the option holds is given back, whatever is answered.     *)

FSA_CloseFile(file) == {file}
FSA_CloseDir(dir)   == {dir}
=============================================================================
