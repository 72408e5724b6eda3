------------------------------ MODULE CopyJob ------------------------------
(***************************************************************************)
(* What a dump to the SD card promises.  A job writes its files, and no    *)
(* others.  It succeeds only when it wrote every one of them as a whole,   *)
(* unless it lost something without noticing, and it may fail at any time. *)
(***************************************************************************)
CONSTANTS
    Names,      \* the files on the card
    Jobs,       \* the jobs
    FilesOf(_)  \* the files that a job writes

VARIABLES
    copies,     \* how much of each file is on the card
    job,        \* the job that runs, "none" if there is none
    todo,       \* its files that it has not written as a whole
    damaged,    \* has it lost something without noticing?
    outcome     \* what it said at last: "nothing", "done" or "error"

copyVars == <<copies, job, todo, damaged, outcome>>

Init ==
    /\ copies = [name \in Names |-> "none"]
    /\ job = "none" /\ todo = {} /\ damaged = FALSE /\ outcome = "nothing"

\* A job starts; it may fail before it touches a file.
Begin ==
    /\ job = "none"
    /\ job' \in Jobs
    /\ todo' = FilesOf(job')
    /\ outcome' \in {"nothing", "error"}
    /\ UNCHANGED <<copies, damaged>>

Truncated == {[copies EXCEPT ![name] = "part"] : name \in FilesOf(job)}

\* A file is begun, or the rest of it is written.
Write ==
    /\ job # "none"
    /\ \/ copies' \in Truncated /\ UNCHANGED todo
       \/ \E name \in FilesOf(job) : copies' = [copies EXCEPT ![name] = "whole"] /\ todo' = todo \ {name}
    /\ UNCHANGED <<job, damaged, outcome>>

\* Something is lost, and the job goes on as if nothing had happened.
Lose ==
    /\ job # "none"
    /\ damaged' = TRUE
    /\ copies' \in {copies} \cup Truncated
    /\ outcome' \in {"nothing", "error", "done"}
    /\ UNCHANGED <<job, todo>>

Succeed ==
    /\ job # "none" /\ (todo = {} \/ damaged)
    /\ outcome' = "done"
    /\ UNCHANGED <<copies, job, todo, damaged>>

Fail ==
    /\ job # "none"
    /\ copies' \in {copies} \cup Truncated
    /\ outcome' = "error"
    /\ UNCHANGED <<job, todo, damaged>>

\* A job ends only after it said how.
End ==
    /\ job # "none" /\ outcome # "nothing"
    /\ job' = "none" /\ todo' = {} /\ damaged' = FALSE /\ outcome' = "nothing"
    /\ UNCHANGED copies

Next == Begin \/ Write \/ Lose \/ Succeed \/ Fail \/ End

Spec == Init /\ [][Next]_copyVars
=============================================================================
