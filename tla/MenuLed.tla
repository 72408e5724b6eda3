------------------------------ MODULE MenuLed ------------------------------
(***************************************************************************)
(* The LED as the menu uses it: menuThread of ios_mcp/source/menu.c, its   *)
(* helpers drawMenu, waitButtonInput and print_error, and the options,     *)
(* reduced to their calls of setNotificationLED.  The library is           *)
(* NotificationLed; here only the order of the calls is left to say.       *)
(*                                                                         *)
(* Two kinds of option: those that never touch the LED themselves, and the *)
(* jobs (DumpSyslogs, DumpOtpAndSeeprom, PairDRC, InstallWUP) that make it *)
(* blink red until they are done.                                          *)
(***************************************************************************)
EXTENDS NotificationLed

CONSTANT Cancels   \* may the user choose "Cancel" in InstallWUP?

ASSUME CancelsConstant == Cancels \in BOOLEAN

ASSUME MenuMasks == Masks = {"off", "red", "redBlinking", "purple", "boot"} /\ Purple = "purple"

VARIABLE screen    \* where the menu thread is

menuVars == <<screen, ledVars>>

Screens == {"boot", "init", "ready", "main", "option", "menu", "install", "job",
            "wait", "error", "errorWait", "errorEnd"}

MenuInit == LedInit /\ screen = "boot"

\* The screen changes with a call of setNotificationLED ...
Go(here, there, mask, flash) ==
    screen = here /\ screen' = there /\ Call(mask, flash)

\* ... or, once the last call has returned, without one.
Turn(here, there) ==
    screen = here /\ screen' = there /\ caller = "out" /\ UNCHANGED ledVars

-----------------------------------------------------------------------------

\* Faulty: the menu runs before initializeUtils.
Boot_LateInit ==
    \/ Go("boot", "ready", "boot", FALSE)
    \/ Go("ready", "main", "purple", FALSE)
    \/ screen = "main" /\ UNCHANGED screen /\ InitializeUtils

\* menuThread up to its main loop: purple and orange blinking, initializeUtils,
\* the font and the SD card, purple.
Boot ==
    \/ Go("boot", "init", "boot", FALSE)
    \/ screen = "init" /\ screen' = "ready" /\ InitializeUtils
    \/ Go("ready", "main", "purple", FALSE)

\* The button presses of drawMenu and waitButtonInput flash the LED.  EJECT
\* moves the selection of the main menu or of an option's menu.  POWER leaves
\* the main menu for an option and, in option_InstallWUP's menu, chooses
\* "Install" or "Cancel", which returns without another call.
Press ==
    \/ Go("main", "main", "off", TRUE)
    \/ Go("main", "option", "off", TRUE)
    \/ Go("menu", "menu", "off", TRUE)
    \/ Go("install", "install", "off", TRUE)
    \/ Go("install", "job", "off", TRUE)
    \/ Cancels /\ Go("install", "main", "off", TRUE)
    \/ Go("wait", "main", "off", TRUE)
    \/ Go("errorWait", "errorEnd", "off", TRUE)

\* Any other option shows a menu of its own, waits for a button, fails or
\* returns by itself.
PlainOption ==
    \E here \in {"option", "menu"}, there \in {"menu", "wait", "error", "main"} :
        Turn(here, there)

\* A job: red blinking first, purple when it is done, or an error in between.
StartJob == \E job \in {"job", "install"} : Go("option", job, "redBlinking", FALSE)

FinishJob == Go("job", "wait", "purple", FALSE)

\* Faulty: the job ends without a word to the LED.
FinishJob_NoLed == Turn("job", "wait")

FailJob == Turn("job", "error") \/ Turn("install", "error")

\* Faulty: print_error leaves the LED red.
PrintError_KeepRed ==
    \/ Go("error", "errorWait", "red", FALSE)
    \/ Turn("errorEnd", "main")

\* print_error: red, waitButtonInput, purple.  The option then returns, waits
\* once more (option_StartWupserver) or goes on (option_DumpOtpAndSeeprom, when
\* FSA_WriteFile wrote nothing).
PrintError ==
    \/ Go("error", "errorWait", "red", FALSE)
    \/ \E next \in {"main", "wait", "job"} : Go("errorEnd", next, "purple", FALSE)

\* What the user and the hardware decide.
UserStep == Press \/ PlainOption \/ StartJob \/ FinishJob \/ FailJob

LibraryStep == (CallerStep \/ TimerExpires \/ AsyncStep) /\ UNCHANGED screen

MenuNext == Boot \/ UserStep \/ PrintError \/ LibraryStep

MenuSpec == MenuInit /\ [][MenuNext]_menuVars

\* An armed timer expires and both threads run.
MenuFairness ==
    /\ WF_menuVars(CallerStep /\ UNCHANGED screen)
    /\ WF_menuVars(TimerExpires /\ UNCHANGED screen)
    /\ WF_menuVars(AsyncStep /\ UNCHANGED screen)

MenuFairSpec == MenuSpec /\ MenuFairness

-----------------------------------------------------------------------------

MenuTypeOK == LedTypeOK /\ screen \in Screens

\* "purple: menu is ready and running": in the main menu, with no LED update
\* under way, the LED is purple.
ReadyIsPurple == screen = "main" /\ Settled /\ HasTimer => led = "purple"
=============================================================================
