-------------------------- MODULE NotificationLed --------------------------
(***************************************************************************)
(* The notification LED of ios_mcp/source/utils.c.  The menu thread calls  *)
(* setNotificationLED; with a duration the mask is only flashed, and a     *)
(* one-shot timer posts a message that makes the asynchronous thread       *)
(* restore the current mask.  The two threads share currentLedMask and     *)
(* write to the same LED over blocking IPC, without a lock.                *)
(*                                                                         *)
(* finalizeUtils, the only sender of ASYNC_MESSAGE_STOP_THREAD, is never   *)
(* called (menu.c has the call commented out), so every message says       *)
(* ASYNC_MESSAGE_SET_LED and the queue is the number of them.  The kernel's *)
(* timer and queue and the SMC are external.                               *)
(***************************************************************************)
EXTENDS Naturals

CONSTANTS
    Masks,      \* what the LED can show
    Purple,     \* the initial value of currentLedMask
    QueueSize,  \* messages asyncMessageQueue can hold
    InitFails,  \* may a call of initializeUtils fail?
    Prompt      \* does a timer never expire so late that its restore meets the next call?

ASSUME LedConstants ==
    /\ Purple \in Masks
    /\ QueueSize \in Nat \ {0}
    /\ InitFails \in BOOLEAN
    /\ Prompt \in BOOLEAN

VARIABLES
    led,             \* the mask the SMC was last told to show
    currentLedMask,
    ledTimer,        \* "uninit", then "failed" or, once created, "stopped" or "armed"
    queued,          \* messages in asyncMessageQueue
    caller,          \* where the menu thread is in setNotificationLED
    call,            \* the parameters of the last call of setNotificationLED
    async,           \* where asyncThread is
    asyncMask        \* the mask asyncThread passes to the SMC

ledVars == <<led, currentLedMask, ledTimer, queued, caller, call, async, asyncMask>>

LedInit ==
    /\ led \in Masks            \* whatever the code before the menu left
    /\ currentLedMask = Purple
    /\ ledTimer = "uninit"
    /\ queued = 0
    /\ caller = "out"
    /\ call = [mask |-> Purple, flash |-> FALSE]
    /\ async = "wait"
    /\ asyncMask = Purple

-----------------------------------------------------------------------------

\* initializeUtils creates the queue, the thread and the timer; when one of
\* them fails there is no timer, and the menu ignores the result.
InitializeUtils ==
    /\ ledTimer = "uninit" /\ caller = "out"
    /\ ledTimer' \in {"stopped"} \cup (IF InitFails THEN {"failed"} ELSE {})
    /\ UNCHANGED <<led, currentLedMask, queued, caller, call, async, asyncMask>>

HasTimer == ledTimer \in {"stopped", "armed"}

Quiet == queued = 0 /\ async = "wait"

\* setNotificationLED(mask, duration), flash standing for duration # 0.
Call(mask, flash) ==
    /\ caller = "out"
    /\ Prompt => Quiet
    /\ caller' = "stop"
    /\ call' = [mask |-> mask, flash |-> flash]
    /\ UNCHANGED <<led, currentLedMask, ledTimer, queued, async, asyncMask>>

Stopped == IF ledTimer = "armed" THEN "stopped" ELSE ledTimer

\* IOS_StopTimer, then the early return for the current mask.
StopTimer ==
    /\ caller = "stop"
    /\ ledTimer' = Stopped
    /\ caller' = IF call.mask = currentLedMask THEN "out" ELSE "smc"
    /\ UNCHANGED <<led, currentLedMask, queued, call, async, asyncMask>>

\* SMC_SetNotificationLED(mask)
WriteLed ==
    /\ caller = "smc"
    /\ caller' = "finish"
    /\ led' = call.mask
    /\ UNCHANGED <<currentLedMask, ledTimer, queued, call, async, asyncMask>>

\* Faulty: a flash becomes the current mask.
Finish_KeepFlash ==
    /\ caller = "finish"
    /\ caller' = "out"
    /\ ledTimer' = IF call.flash /\ HasTimer THEN "armed" ELSE ledTimer
    /\ currentLedMask' = call.mask
    /\ UNCHANGED <<led, queued, call, async, asyncMask>>

\* Faulty: the timer of a flash is not started.
Finish_NoTimer ==
    /\ caller = "finish"
    /\ caller' = "out"
    /\ currentLedMask' = IF call.flash THEN currentLedMask ELSE call.mask
    /\ UNCHANGED <<led, ledTimer, queued, call, async, asyncMask>>

\* A flash restarts the timer, a set makes the mask the current one.
Finish ==
    /\ caller = "finish"
    /\ caller' = "out"
    /\ ledTimer' = IF call.flash /\ HasTimer THEN "armed" ELSE ledTimer
    /\ currentLedMask' = IF call.flash THEN currentLedMask ELSE call.mask
    /\ UNCHANGED <<led, queued, call, async, asyncMask>>

-----------------------------------------------------------------------------

\* Faulty: the queue takes every message.
TimerExpires_NoLimit ==
    /\ ledTimer = "armed"
    /\ Prompt => caller # "stop"
    /\ ledTimer' = "stopped"
    /\ queued' = queued + 1
    /\ UNCHANGED <<led, currentLedMask, caller, call, async, asyncMask>>

\* The timer posts ASYNC_MESSAGE_SET_LED, which a full queue refuses.
TimerExpires ==
    /\ ledTimer = "armed"
    /\ Prompt => caller # "stop"
    /\ ledTimer' = "stopped"
    /\ queued' = IF queued < QueueSize THEN queued + 1 ELSE queued
    /\ UNCHANGED <<led, currentLedMask, caller, call, async, asyncMask>>

\* asyncThread: IOS_ReceiveMessage ...
ReceiveMessage ==
    /\ async = "wait" /\ queued > 0
    /\ async' = "read"
    /\ queued' = queued - 1
    /\ UNCHANGED <<led, currentLedMask, ledTimer, caller, call, asyncMask>>

\* Faulty: restores a mask that is not the current one.
ReadMask_Old ==
    /\ async = "read"
    /\ async' = "write"
    /\ asyncMask' = call.mask
    /\ UNCHANGED <<led, currentLedMask, ledTimer, queued, caller, call>>

\* ... reads currentLedMask ...
ReadMask ==
    /\ async = "read"
    /\ async' = "write"
    /\ asyncMask' = currentLedMask
    /\ UNCHANGED <<led, currentLedMask, ledTimer, queued, caller, call>>

\* ... and calls SMC_SetNotificationLED with it.
RestoreLed ==
    /\ async = "write"
    /\ async' = "wait"
    /\ led' = asyncMask
    /\ UNCHANGED <<currentLedMask, ledTimer, queued, caller, call, asyncMask>>

-----------------------------------------------------------------------------

CallerStep == StopTimer \/ WriteLed \/ Finish

AsyncStep == ReceiveMessage \/ ReadMask \/ RestoreLed

\* Callers that ask for any mask, flashed or set; they flash once initializeUtils
\* has run.
AnyCall == \E mask \in Masks, flash \in BOOLEAN :
              (flash => ledTimer # "uninit") /\ Call(mask, flash)

LedNext == InitializeUtils \/ AnyCall \/ CallerStep \/ TimerExpires \/ AsyncStep

LedSpec == LedInit /\ [][LedNext]_ledVars

-----------------------------------------------------------------------------

LedTypeOK ==
    /\ led \in Masks
    /\ currentLedMask \in Masks
    /\ ledTimer \in {"uninit", "failed", "stopped", "armed"}
    /\ queued \in 0..QueueSize
    /\ caller \in {"out", "stop", "smc", "finish"}
    /\ call \in [mask : Masks, flash : BOOLEAN]
    /\ async \in {"wait", "read", "write"}
    /\ asyncMask \in Masks

\* A flash is on: the last call was one that got past the early return.
Flashed == caller = "out" /\ call.flash /\ call.mask # currentLedMask /\ HasTimer

\* The restore of currentLedMask is still to come ...
RestoreOwed == ledTimer = "armed" \/ queued > 0 \/ async = "read"
                  \/ (async = "write" /\ asyncMask = currentLedMask)

\* After a flash the LED shows the current mask or its restore is still to
\* come, however the two threads interleave, also when the queue was full.
FlashRestored == Flashed => RestoreOwed \/ (async = "wait" /\ led = currentLedMask)

\* A flash ends: the LED gets back to the current mask unless another call
\* comes first.
FlashEnds == Flashed ~> (led = currentLedMask \/ caller # "out")

\* Nothing is under way: what the LED shows now stays.
Settled == caller = "out" /\ ledTimer # "armed" /\ Quiet

\* Once nothing is under way the LED shows the current mask, whatever calls
\* came before ("restore the current LED mask after the specified duration").
LedMatchesMask == Settled /\ HasTimer => led = currentLedMask
=============================================================================
