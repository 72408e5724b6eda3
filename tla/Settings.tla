------------------------------ MODULE Settings ------------------------------
(***************************************************************************)
(* The options that show and change settings: option_SetColdbootTitle,     *)
(* option_EditParental with the requests of sci.c, and                     *)
(* option_SystemInformation with those of mdinfo.c (ios_mcp/source).       *)
(***************************************************************************)
EXTENDS Dumps, SystemRegion

CONSTANT TitleCounts    \* the entries of coldbootTitleOptions that are shown

\* "Back" and at least one title.
ASSUME SettingsConstants == TitleCounts \subseteq 2 .. 7

VARIABLES
    option_count,      \* 7 on a system in debug mode, 4 on any other
    coldboot,          \* the default title: an entry of the menu
    parentalEnable,    \* are the parental controls enabled?
    shown              \* what the screen says of a setting, "error" if it could not be read

settingsVars == <<option_count, coldboot, parentalEnable, shown>>

SettingsInit ==
    /\ option_count \in TitleCounts
    /\ coldboot = 1
    /\ parentalEnable = TRUE
    /\ shown = "none"

-----------------------------------------------------------------------------
(* The coldboot title.                                                     *)

\* The menu starts at the entry that was chosen last.
DrawColdboot(here, first) ==
    /\ drawMenu(here, "coldbootMenu", first, option_count)
    /\ shown' = "none"
    /\ UNCHANGED <<held, told, option_count, coldboot, parentalEnable>>

\* "Back" has no title and ends the option; any other entry is set.
ChooseColdboot ==
    /\ Chooses("coldbootMenu")
    /\ pc' = IF selected = 0 THEN "main" ELSE "coldbootSet"
    /\ UNCHANGED <<selected, proceed, held, told, settingsVars>>

\* setDefaultTitleId, then the menu again.
SetColdboot ==
    /\ drawMenu("coldbootSet", "coldbootMenu", selected, option_count)
    /\ \E res \in Outcomes("setTitle") :
          /\ told' = IF res = "ok" THEN "done" ELSE "error"
          /\ coldboot' = IF res = "ok" THEN selected ELSE coldboot
    /\ shown' = "none"
    /\ UNCHANGED <<held, option_count, parentalEnable>>

-----------------------------------------------------------------------------
(* Parental controls.                                                      *)

\* A request to IOS-UC answers 1 for success, 0 without a handle and a negative
\* number for an error; only 1 is a success.
SysConfig(call) == {1} \cup (IF call \in Faults THEN {0, -1, -3, -4} ELSE {})

SCIGetParentalEnable == SysConfig("readParental")
SCISetParentalEnable == SysConfig("writeParental")

\* What the screen says: the setting is read again in every turn of the loop.
ShowParental(enable) ==
    shown' \in (IF 1 \in SCIGetParentalEnable THEN {IF enable THEN "enabled" ELSE "disabled"} ELSE {})
               \cup (IF SCIGetParentalEnable # {1} THEN {"error"} ELSE {})

DrawParental ==
    /\ drawMenu("parental", "parentalMenu", 0, 2)
    /\ ShowParental(parentalEnable)
    /\ UNCHANGED <<held, told, option_count, coldboot, parentalEnable>>

\* "Back" or "Disable"
ChooseParental ==
    /\ Chooses("parentalMenu")
    /\ pc' = IF selected = 0 THEN "main" ELSE "parentalSet"
    /\ UNCHANGED <<selected, proceed, held, told, settingsVars>>

DisableParental ==
    /\ drawMenu("parentalSet", "parentalMenu", selected, 2)
    /\ \E rval \in SCISetParentalEnable :
          /\ told' = IF rval = 1 THEN "done" ELSE "error"
          /\ parentalEnable' = (parentalEnable /\ rval # 1)
    /\ ShowParental(parentalEnable')
    /\ UNCHANGED <<held, option_count, coldboot>>

-----------------------------------------------------------------------------
(* System information.                                                     *)

\* What cannot be read is not shown; the region is the only part of it that
\* decides where the rest is read.  The buffer is freed before the memory devices
\* are read, which cannot fail.
option_SystemInformation ==
    /\ \/ Check("info", "infoRead", Outcomes("alloc"), {"infoBuffer"}, {})
       \/ read_otp_seeprom("infoRead", "infoRegion", "infoFree") /\ UNCHANGED held
       \/ Return("infoFree") /\ Hold({}, {"infoBuffer"})
       \/ \E res \in FSA_OpenFile("openVersion", TRUE) :
             /\ Wait("infoRegion", "main") /\ UNCHANGED told
             /\ Hold({}, {"infoBuffer"} \cup (IF res = "ok" THEN FSA_CloseFile("version") ELSE {}))
    /\ UNCHANGED settingsVars

-----------------------------------------------------------------------------

option_SetColdbootTitle == DrawColdboot("coldboot", 0) \/ SetColdboot

option_EditParental == DrawParental \/ DisableParental

SettingsUserStep ==
    \/ (Navigate("coldbootMenu", option_count) \/ Navigate("parentalMenu", 2)) /\ UNCHANGED settingsVars
    \/ ChooseColdboot \/ ChooseParental

SettingsTypeOK ==
    /\ option_count \in TitleCounts
    /\ coldboot \in 1 .. option_count - 1
    /\ parentalEnable \in BOOLEAN
    /\ shown \in {"none", "error", "enabled", "disabled"}
=============================================================================
