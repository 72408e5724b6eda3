--------------------------- MODULE MenuLedProofs ---------------------------
(***************************************************************************)
(* The notification LED for any masks and any queue: a flash is restored   *)
(* whatever the caller, and the menu is one of those callers.              *)
(***************************************************************************)
EXTENDS MCMenuLed, TLAPS

\* The steps of NotificationLed keep its variables in their types; the queue
\* never holds more than asyncMessageQueueBuf has room for.
THEOREM LedTypeCorrect == LedSpec => []LedTypeOK
<1> USE LedConstants DEF LedTypeOK
<1>1. LedInit => LedTypeOK
  BY DEF LedInit
<1>2. LedTypeOK /\ [LedNext]_ledVars => LedTypeOK'
  <2> SUFFICES ASSUME LedTypeOK, [LedNext]_ledVars PROVE LedTypeOK'
    OBVIOUS
  <2>1. CASE InitializeUtils
    BY <2>1 DEF InitializeUtils
  <2>2. CASE AnyCall
    BY <2>2 DEF AnyCall, Call
  <2>3. CASE CallerStep
    BY <2>3 DEF CallerStep, StopTimer, Stopped, WriteLed, Finish, HasTimer
  <2>4. CASE TimerExpires
    BY <2>4 DEF TimerExpires
  <2>5. CASE AsyncStep
    BY <2>5 DEF AsyncStep, ReceiveMessage, ReadMask, RestoreLed
  <2>6. CASE UNCHANGED ledVars
    BY <2>6 DEF ledVars
  <2> QED
    BY <2>1, <2>2, <2>3, <2>4, <2>5, <2>6 DEF LedNext
<1> QED
  BY <1>1, <1>2, PTL DEF LedSpec

\* What FlashRestored needs to be inductive: nothing was flashed before the
\* timer existed.
NoEarlyFlash == ledTimer = "uninit" => ~call.flash

\* A flash is never forgotten: as long as no other call is made, the timer, a
\* message or asyncThread is about to restore currentLedMask, or has done so.
THEOREM FlashSafety == LedSpec => []FlashRestored
<1> USE LedConstants DEF FlashRestored, NoEarlyFlash, Flashed, RestoreOwed, HasTimer
<1>1. LedInit => FlashRestored /\ NoEarlyFlash
  BY DEF LedInit
<1>2. LedTypeOK /\ FlashRestored /\ NoEarlyFlash /\ [LedNext]_ledVars
        => FlashRestored' /\ NoEarlyFlash'
  <2> SUFFICES ASSUME LedTypeOK, FlashRestored, NoEarlyFlash, [LedNext]_ledVars
               PROVE  FlashRestored' /\ NoEarlyFlash'
    OBVIOUS
  <2>1. CASE InitializeUtils
    BY <2>1 DEF InitializeUtils
  <2>2. CASE AnyCall
    BY <2>2 DEF AnyCall, Call
  <2>3. CASE CallerStep
    BY <2>3 DEF CallerStep, StopTimer, Stopped, WriteLed, Finish
  <2>4. CASE TimerExpires
    BY <2>4 DEF TimerExpires, LedTypeOK
  <2>5. CASE ReceiveMessage
    BY <2>5 DEF ReceiveMessage
  <2>6. CASE ReadMask
    BY <2>6 DEF ReadMask
  <2>7. CASE RestoreLed
    BY <2>7 DEF RestoreLed
  <2>8. CASE UNCHANGED ledVars
    BY <2>8 DEF ledVars
  <2> QED
    BY <2>1, <2>2, <2>3, <2>4, <2>5, <2>6, <2>7, <2>8 DEF LedNext, AsyncStep
<1> QED
  BY <1>1, <1>2, LedTypeCorrect, PTL DEF LedSpec

-----------------------------------------------------------------------------

\* Past menuThread's call of initializeUtils the timer was created, or its
\* creation has failed.
MenuTimer == screen \notin {"boot", "init"} => ledTimer # "uninit"

\* The menu uses the library as it is meant to be used: it flashes the LED only
\* after initializeUtils, and never calls from within a call.
THEOREM MenuUsesLed == MenuSpec => LedSpec
<1> USE MenuMasks
<1>1. MenuInit => LedInit
  BY DEF MenuInit
<1>2. MenuTimer /\ [MenuNext]_menuVars => [LedNext]_ledVars
  <2> SUFFICES ASSUME MenuTimer, [MenuNext]_menuVars PROVE [LedNext]_ledVars
    OBVIOUS
  <2>1. ASSUME NEW here, NEW there, NEW mask \in Masks, NEW flash \in BOOLEAN,
               flash => ledTimer # "uninit", Go(here, there, mask, flash)
        PROVE  LedNext
    BY <2>1 DEF Go, LedNext, AnyCall
  <2>2. CASE Boot
    BY <2>1, <2>2 DEF Boot, LedNext, Go
  <2>3. CASE Press
    BY <2>1, <2>3 DEF Press, MenuTimer, Go
  <2>4. CASE PlainOption \/ FailJob
    BY <2>4 DEF PlainOption, FailJob, Turn
  <2>5. CASE StartJob \/ FinishJob \/ PrintError
    BY <2>1, <2>5 DEF StartJob, FinishJob, PrintError
  <2>6. CASE LibraryStep
    BY <2>6 DEF LibraryStep, LedNext
  <2>7. CASE UNCHANGED menuVars
    BY <2>7 DEF menuVars
  <2> QED
    BY <2>2, <2>3, <2>4, <2>5, <2>6, <2>7 DEF MenuNext, UserStep
<1>3. MenuInit => MenuTimer
  BY DEF MenuInit, MenuTimer
<1>4. MenuTimer /\ [MenuNext]_menuVars => MenuTimer'
  <2> SUFFICES ASSUME MenuTimer, [MenuNext]_menuVars PROVE MenuTimer'
    OBVIOUS
  <2> USE DEF MenuTimer
  <2>1. CASE Boot
    BY <2>1 DEF Boot, Go, Call, InitializeUtils
  <2>2. CASE Press
    BY <2>2 DEF Press, Go, Call
  <2>3. CASE PlainOption \/ FailJob
    BY <2>3 DEF PlainOption, FailJob, Turn, ledVars
  <2>4. CASE StartJob \/ FinishJob \/ PrintError
    BY <2>4 DEF StartJob, FinishJob, PrintError, Go, Call
  <2>5. CASE LibraryStep
    BY <2>5 DEF LibraryStep, CallerStep, StopTimer, Stopped, WriteLed, Finish, HasTimer,
                TimerExpires, AsyncStep, ReceiveMessage, ReadMask, RestoreLed
  <2>6. CASE UNCHANGED menuVars
    BY <2>6 DEF menuVars, ledVars
  <2> QED
    BY <2>1, <2>2, <2>3, <2>4, <2>5, <2>6 DEF MenuNext, UserStep
<1> QED
  BY <1>1, <1>2, <1>3, <1>4, PTL DEF MenuSpec, LedSpec

\* So a flash is restored in the menu too, whatever the user does.
THEOREM MenuFlashSafety == MenuSpec => []FlashRestored
BY MenuUsesLed, FlashSafety

\* The menu's own variable keeps its type as well.
THEOREM MenuTypeCorrect == MenuSpec => []MenuTypeOK
<1> USE DEF Screens
<1>1. MenuInit => screen \in Screens
  BY DEF MenuInit
<1>2. screen \in Screens /\ [MenuNext]_menuVars => (screen \in Screens)'
  BY DEF MenuNext, Boot, UserStep, Press, PlainOption, StartJob, FinishJob, FailJob, PrintError,
         LibraryStep, Go, Turn, menuVars
<1>3. MenuSpec => [](screen \in Screens)
  BY <1>1, <1>2, PTL DEF MenuSpec
<1> QED
  BY <1>3, MenuUsesLed, LedTypeCorrect, PTL DEF MenuTypeOK

-----------------------------------------------------------------------------
(* Until a call cuts a flash off, a restore overlaps a set or an           *)
(* installation is cancelled, the LED says what the menu does.             *)

\* The mask that is the current one once the last call has returned.
Goal == IF caller # "out" /\ ~call.flash THEN call.mask ELSE currentLedMask

\* What the menu lets the LED show at each screen.
Shown ==
    [s \in Screens |->
        CASE s \in {"main", "option", "menu", "wait"} -> {"purple"}
          [] s = "boot"                               -> {"purple"}
          [] s \in {"init", "ready"}                  -> {"boot"}
          [] s = "install"                            -> {"redBlinking"}
          [] s \in {"job", "error"}                   -> {"redBlinking", "purple"}
          [] s \in {"errorWait", "errorEnd"}          -> {"red"}]

\* The menu's part, as long as nothing was cancelled: each screen has its mask.
ScreenInv == Goal \in Shown[screen]

\* Before initializeUtils there is one call, with nothing that could disturb it.
StartsAlone ==
    /\ screen \in {"boot", "init"} => ledTimer = "uninit" /\ Quiet /\ ~call.flash
    /\ screen = "boot" => caller = "out" /\ currentLedMask = "purple"
    /\ screen = "init" =>
          IF caller = "out" THEN led = currentLedMask ELSE call.mask # currentLedMask

\* The library's part, as long as no flash is cut off and no restore overlaps a
\* set: asyncThread restores the current mask, a set ends with the LED as it left
\* it, and outside of a call the LED shows the current mask or is about to.
RestoreInv ==
    /\ async = "write" => asyncMask = currentLedMask
    /\ caller = "finish" /\ ~call.flash => led = call.mask
    /\ caller \in {"out", "stop"} /\ HasTimer =>
          led = currentLedMask \/ ledTimer = "armed" \/ ~Quiet

TimingInv == StartsAlone /\ RestoreInv

UnspoiltInv ==
    /\ spoilt \subseteq {"cancelled"} => TimingInv
    /\ spoilt = {} => ScreenInv

\* Each screen is entered with the mask it is to show.
LEMMA ScreenInvStep ==
    ASSUME screen \in Screens, ScreenInv, [MenuNext]_menuVars, ~Cancelled
    PROVE  ScreenInv'
<1> USE MenuMasks DEF ScreenInv, Goal, Shown, Screens
<1>1. CASE Boot
  BY <1>1 DEF Boot, Go, Call, InitializeUtils
<1>2. CASE Press
  BY <1>2 DEF Press, Go, Call, Cancelled
<1>3. CASE PlainOption
  BY <1>3 DEF PlainOption, Turn, ledVars
<1>4. CASE StartJob \/ FinishJob
  BY <1>4 DEF StartJob, FinishJob, Go, Call
<1>5. CASE FailJob
  BY <1>5 DEF FailJob, Turn, ledVars
<1>6. CASE PrintError
  BY <1>6 DEF PrintError, Go, Call
<1>7. CASE LibraryStep
  BY <1>7 DEF LibraryStep, CallerStep, StopTimer, WriteLed, Finish, TimerExpires, AsyncStep,
              ReceiveMessage, ReadMask, RestoreLed
<1>8. CASE UNCHANGED menuVars
  BY <1>8 DEF menuVars, ledVars
<1> QED
  BY <1>1, <1>2, <1>3, <1>4, <1>5, <1>6, <1>7, <1>8 DEF MenuNext, UserStep

\* A new call disturbs nothing: what it does comes later.
LEMMA CallKeeps ==
    ASSUME TimingInv, NEW here, NEW there \in Screens \ {"boot", "init"}, NEW mask \in Masks,
           NEW flash \in BOOLEAN, Go(here, there, mask, flash)
    PROVE  TimingInv'
BY DEF Go, Call, TimingInv, StartsAlone, RestoreInv, HasTimer, Quiet

\* Every step keeps it that cuts off no flash and overlaps no set.
LEMMA TimingInvStep ==
    ASSUME LedTypeOK, TimingInv, [MenuNext]_menuVars, ~CutsFlash, ~OverlapsSet
    PROVE  TimingInv'
<1>0. ASSUME NEW here, NEW there \in Screens \ {"boot", "init"}, NEW mask \in Masks,
             NEW flash \in BOOLEAN, Go(here, there, mask, flash)
      PROVE  TimingInv'
  BY <1>0, CallKeeps
<1> USE MenuMasks DEF TimingInv, StartsAlone, RestoreInv, Quiet, HasTimer, Screens
<1>1. CASE Boot
  <2>1. CASE Go("boot", "init", "boot", FALSE)
    BY <2>1, <1>1 DEF Boot, Go, Call
  <2>2. CASE Go("ready", "main", "purple", FALSE)
    BY <2>2, <1>0
  <2>3. CASE screen = "init" /\ screen' = "ready" /\ InitializeUtils
    BY <2>3 DEF InitializeUtils
  <2> QED
    BY <1>1, <2>1, <2>2, <2>3 DEF Boot
<1>2. CASE Press \/ StartJob \/ FinishJob \/ PrintError
  BY <1>2, <1>0 DEF Press, StartJob, FinishJob, PrintError
<1>3. CASE PlainOption \/ FailJob
  BY <1>3 DEF PlainOption, FailJob, Turn, ledVars
<1>4. CASE LibraryStep
  <2> UNCHANGED screen
    BY <1>4 DEF LibraryStep
  <2>1. CASE StopTimer
    BY <2>1 DEF StopTimer, Stopped, CutsFlash
  <2>2. CASE WriteLed
    BY <2>2 DEF WriteLed
  <2>3. CASE Finish
    BY <2>3 DEF Finish, OverlapsSet
  <2>4. CASE TimerExpires
    BY <2>4, LedConstants DEF TimerExpires, LedTypeOK
  <2>5. CASE ReceiveMessage
    BY <2>5 DEF ReceiveMessage
  <2>6. CASE ReadMask
    BY <2>6 DEF ReadMask
  <2>7. CASE RestoreLed
    BY <2>7 DEF RestoreLed, OverlapsSet
  <2> QED
    BY <1>4, <2>1, <2>2, <2>3, <2>4, <2>5, <2>6, <2>7 DEF LibraryStep, CallerStep, AsyncStep
<1>5. CASE UNCHANGED menuVars
  BY <1>5 DEF menuVars, ledVars
<1> QED
  BY <1>1, <1>2, <1>3, <1>4, <1>5 DEF MenuNext, UserStep

\* What a run of the menu adds to the library is only its history.
LEMMA HistoryOnly == MCSpec => MenuSpec
<1>1. MCInit => MenuInit
  BY DEF MCInit
<1>2. [MCNext]_mcVars => [MenuNext]_menuVars
  BY DEF MCNext, mcVars
<1> QED
  BY <1>1, <1>2, PTL DEF MCSpec, MenuSpec

\* The history misses nothing.
LEMMA HistoryStep ==
    ASSUME [MCNext]_mcVars
    PROVE  /\ spoilt \subseteq spoilt'
           /\ spoilt' \subseteq {"cancelled"} => ~CutsFlash /\ ~OverlapsSet
           /\ spoilt' = {} => ~Cancelled
<1>1. CASE MCNext
  <2>1. CutsFlash => "cut" \in Spoils
    BY DEF Spoils
  <2>2. OverlapsSet => "overlap" \in Spoils
    BY DEF Spoils
  <2>3. Cancelled => "cancelled" \in Spoils
    BY DEF Spoils
  <2> QED
    BY <1>1, <2>1, <2>2, <2>3 DEF MCNext
<1>2. CASE UNCHANGED mcVars
  BY <1>2 DEF mcVars, menuVars, ledVars, CutsFlash, OverlapsSet, Cancelled
<1> QED
  BY <1>1, <1>2

\* Nothing else ends it.
LEMMA UnspoiltInvariant == MCSpec => [](MenuTypeOK /\ UnspoiltInv)
<1>1. MCInit => UnspoiltInv
  BY MenuMasks DEF MCInit, MenuInit, LedInit, UnspoiltInv, ScreenInv, TimingInv, StartsAlone,
                   RestoreInv, Goal, Shown, Screens, Quiet, HasTimer
<1>2. MenuTypeOK /\ UnspoiltInv /\ [MCNext]_mcVars => UnspoiltInv'
  <2> SUFFICES ASSUME MenuTypeOK, UnspoiltInv, [MCNext]_mcVars
               PROVE  UnspoiltInv'
    OBVIOUS
  <2>1. [MenuNext]_menuVars
    BY DEF MCNext, mcVars
  <2>2. ASSUME spoilt' \subseteq {"cancelled"} PROVE TimingInv'
    <3>1. TimingInv /\ ~CutsFlash /\ ~OverlapsSet
      BY <2>2, HistoryStep DEF UnspoiltInv
    <3> QED
      BY <2>1, <3>1, TimingInvStep DEF MenuTypeOK
  <2>3. ASSUME spoilt' = {} PROVE ScreenInv'
    <3>1. ScreenInv /\ ~Cancelled
      BY <2>3, HistoryStep DEF UnspoiltInv
    <3> QED
      BY <2>1, <3>1, ScreenInvStep DEF MenuTypeOK
  <2> QED
    BY <2>2, <2>3 DEF UnspoiltInv
<1> QED
  BY <1>1, <1>2, HistoryOnly, MenuTypeCorrect, PTL DEF MCSpec

\* "purple: menu is ready and running", for any queue, any delay of the timer
\* and also when initializeUtils fails.
THEOREM ReadyIsPurpleSafety == MCSpec => []ReadyIsPurpleUnspoilt
<1>1. UnspoiltInv => ReadyIsPurpleUnspoilt
  BY DEF UnspoiltInv, ScreenInv, TimingInv, RestoreInv, Goal, Shown, Screens,
         ReadyIsPurpleUnspoilt, ReadyIsPurple, Settled
<1> QED
  BY <1>1, UnspoiltInvariant, PTL

\* Once nothing is under way the LED shows the current mask, also when restores
\* came into calls, as long as none overlapped a set and no call cut off a flash.
THEOREM LedMatchesMaskSafety == MCSpec => []LedMatchesMaskUnspoilt
<1>1. UnspoiltInv => LedMatchesMaskUnspoilt
  BY DEF UnspoiltInv, TimingInv, RestoreInv, LedMatchesMaskUnspoilt, LedMatchesMask, Settled
<1> QED
  BY <1>1, UnspoiltInvariant, PTL
=============================================================================
