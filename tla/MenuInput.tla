----------------------------- MODULE MenuInput -----------------------------
(***************************************************************************)
(* What every option of the menu uses: drawMenu, waitButtonInput and       *)
(* print_error of ios_mcp/source/menu.c, and the calls that may fail.      *)
(*                                                                         *)
(* The menu thread is sequential: pc is where it is, and each step is one  *)
(* call, or a few whose order nobody can observe, with every outcome.      *)
(* SMC_ReadSystemEventFlag reads any flag each time, which covers an SMC   *)
(* that reports the level of a button as well as one that latches it, and  *)
(* events of others, which only make a flag differ from the last one.      *)
(***************************************************************************)
EXTENDS Integers, Sequences, FiniteSets

CONSTANT Faults    \* the calls that may fail, by name

VARIABLES
    pc,        \* where the menu thread is
    cur_flag,  \* the event flag that drawMenu or waitButtonInput saw last
    selected,  \* the entry that the menu on the screen highlights
    proceed,   \* where the option goes on after waitButtonInput
    held,      \* the handles and heap blocks that the option holds
    told       \* what the option told the user last

inputVars == <<pc, cur_flag, selected, proceed, held, told>>

Buttons == {"EJECT", "POWER"}

Flags == SUBSET Buttons

\* The outcomes of a call that may fail.
Outcomes(call) == {"ok"} \cup (IF call \in Faults THEN {"failed"} ELSE {})

InputInit ==
    /\ pc = "boot"
    /\ cur_flag = {}
    /\ selected = 0
    /\ proceed = "main"
    /\ held = {}
    /\ told = "nothing"

-----------------------------------------------------------------------------
(* Steps of an option.                                                     *)

\* The option goes on, holding now what it takes and no more what it drops.
Hold(takes, drops) == held' = (held \ drops) \cup takes

Step(here, there) ==
    /\ pc = here /\ pc' = there
    /\ UNCHANGED <<cur_flag, selected, proceed>>

\* drawMenu begins: cur_flag = 0, and an entry that the menu does not have is
\* replaced by the first.
drawMenu(here, there, first, count) ==
    /\ pc = here /\ pc' = there
    /\ cur_flag' = {}
    /\ selected' = IF first < count THEN first ELSE 0
    /\ UNCHANGED proceed

\* waitButtonInput begins: cur_flag = 0.
Wait(here, there) ==
    /\ pc = here /\ pc' = "wait"
    /\ proceed' = there
    /\ cur_flag' = {}
    /\ UNCHANGED selected

\* print_error and printf_error: the message, then waitButtonInput.
print_error(here, there, message) ==
    /\ Wait(here, there)
    /\ told' = message

\* The option is over, without a wait.
Return(here) == Step(here, "main") /\ UNCHANGED told

\* A call that takes something when it succeeds, and otherwise ends the option:
\* what it holds is dropped before the message.
Check(here, there, answers, takes, drops) ==
    \/ "ok" \in answers /\ Step(here, there) /\ Hold(takes, {}) /\ UNCHANGED told
    \/ "failed" \in answers /\ print_error(here, "main", "error") /\ Hold({}, drops)

-----------------------------------------------------------------------------
(* The loops that read the buttons.                                        *)

\* SMC_ReadSystemEventFlag returned a flag that differs from the last one.
NewFlag(flag) == flag \in Flags /\ flag # cur_flag

\* Faulty: the selection runs past the last entry.
Navigate_NoWrap(here, count) ==
    \E flag \in Flags :
        /\ pc = here /\ NewFlag(flag)
        /\ "POWER" \in flag => "EJECT" \in flag
        /\ selected' = IF "EJECT" \in flag /\ selected < count THEN selected + 1 ELSE selected
        /\ cur_flag' = flag
        /\ UNCHANGED <<pc, proceed, held, told>>

\* EJECT, which is tested before POWER, moves the selection; a flag without a
\* button is remembered.
Navigate(here, count) ==
    \E flag \in Flags :
        /\ pc = here /\ NewFlag(flag)
        /\ "POWER" \in flag => "EJECT" \in flag
        /\ selected' = IF "EJECT" \in flag THEN (selected + 1) % count ELSE selected
        /\ cur_flag' = flag
        /\ UNCHANGED <<pc, proceed, held, told>>

\* POWER without EJECT chooses the entry that is highlighted.
Chooses(here) ==
    /\ pc = here
    /\ \E flag \in Flags : NewFlag(flag) /\ flag = {"POWER"}
    /\ cur_flag' = {}

\* waitButtonInput: either button ends it.
waitButtonInput ==
    \E flag \in Flags :
        /\ pc = "wait" /\ NewFlag(flag)
        /\ IF flag # {}
           THEN pc' = proceed /\ proceed' = "main" /\ cur_flag' = {}
           ELSE cur_flag' = flag /\ UNCHANGED <<pc, proceed>>
        /\ UNCHANGED <<selected, held, told>>
=============================================================================
