---------------------------- MODULE MenuOptions ----------------------------
(***************************************************************************)
(* The recovery menu as a whole: menuThread of ios_mcp/source/menu.c, its  *)
(* main menu and the options, which share the screen, the file system,     *)
(* MCP's settings, the network and what earlier options left.              *)
(*                                                                         *)
(* Installing a WUP, the BOOT1 payload and the sessions of wupserver have  *)
(* modules of their own; here they are single steps.                       *)
(***************************************************************************)
EXTENDS SubmitData, Settings, GamepadPairing

CONSTANT Sessions    \* bound: the sets of options that a user chooses from

VARIABLES
    last,     \* the main menu's own selected
    visits    \* the options that this user chooses from

menuVars == <<last, visits>>

vars == <<inputVars, fsaHandle, dumpVars, regionVars, networkVars, submitVars, settingsVars, pairVars, menuVars>>

\* The entries of the main menu, each named for where its option begins.
mainMenuOptions ==
    <<"coldboot", "logs", "otp", "netconf", "wup", "pair", "install", "parental",
      "region", "info", "submit", "boot1", "shutdown">>

Init ==
    /\ InputInit /\ fsaHandle = "none"
    /\ DumpInit /\ RegionInit /\ NetworkInit /\ SubmitInit /\ SettingsInit /\ PairInit
    /\ last = 0
    /\ visits \in Sessions

-----------------------------------------------------------------------------
(* The menu thread.                                                        *)

\* Without a font nothing can be shown and the console is turned off.  A file
\* system or an SD card that is missing is only logged.
Boot ==
    /\ \/ "failed" \in Outcomes("font") /\ Step("boot", "off") /\ UNCHANGED fsaHandle
       \/ Step("boot", "autoboot") /\ fsaHandle' \in {"open"} \cup (IF "openFsa" \in Faults THEN {"none"} ELSE {})
    /\ UNCHANGED <<held, told, dumpVars, regionVars, networkVars, submitVars, settingsVars, pairVars, menuVars>>

\* handleBoot1Autoboot, and option_LoadBoot1Payload: the console reboots or not.
MayReboot(here) ==
    /\ Step(here, "main") \/ Step(here, "rebooted")
    /\ UNCHANGED <<held, told>>

\* Installations and wupserver are single steps, see there.
Elsewhere ==
    /\ \/ MayReboot("autoboot") \/ MayReboot("boot1")
       \/ Return("install") /\ UNCHANGED held
    /\ UNCHANGED <<fsaHandle, dumpVars, regionVars, networkVars, submitVars, settingsVars, pairVars, menuVars>>

\* The main menu is drawn over what the option showed, and its locals are gone.
DrawMain ==
    /\ drawMenu("main", "mainMenu", last, Len(mainMenuOptions))
    /\ told' = "nothing" /\ last' = 0
    /\ productArea_id' = 0 /\ gameRegion' = {} /\ menu' = 0
    /\ timeout' = 0 /\ status' = "unset" /\ shown' = "none"
    /\ pdh' = -1 /\ sent' = 0 /\ server' = "nothing"
    /\ UNCHANGED <<held, fsaHandle, dumpVars, product_area, game_region, installed, networkVars, lost,
                   option_count, coldboot, parentalEnable, cdc_handle, drh, stopRefused, visits>>

\* The entry's callback runs.
ChooseOption ==
    /\ Chooses("mainMenu")
    /\ mainMenuOptions[selected + 1] \in visits
    /\ pc' = mainMenuOptions[selected + 1]
    /\ last' = selected /\ selected' = 0
    /\ UNCHANGED <<proceed, held, told, visits, fsaHandle,
                   dumpVars, regionVars, networkVars, submitVars, settingsVars, pairVars>>

\* The volumes are flushed and the card is unmounted, whatever is answered.
option_Shutdown ==
    /\ Step("shutdown", "off")
    /\ fsaHandle' = "none"
    /\ UNCHANGED <<held, told, dumpVars, regionVars, networkVars, submitVars, settingsVars, pairVars, menuVars>>

-----------------------------------------------------------------------------

Input == waitButtonInput \/ Navigate("mainMenu", Len(mainMenuOptions)) \/ Navigate("submitMenu", 2)

\* What the user, and nobody else, decides about.
UserStep ==
    \/ ChooseOption
    \/ /\ UNCHANGED <<fsaHandle, menuVars, dumpVars, networkVars, pairVars>>
       /\ \/ (Input \/ ChooseSubmit) /\ UNCHANGED <<submitVars, regionVars, settingsVars>>
          \/ RegionUserStep /\ UNCHANGED <<submitVars, settingsVars>>
          \/ SettingsUserStep /\ UNCHANGED <<submitVars, regionVars>>

\* DRH and the server go on at their own pace.
OthersStep ==
    /\ UNCHANGED <<fsaHandle, menuVars, dumpVars, regionVars, networkVars, settingsVars>>
    /\ \/ DrhStep /\ UNCHANGED submitVars
       \/ ServerStep /\ UNCHANGED <<held, pairVars>>

OptionStep ==
    /\ UNCHANGED menuVars
    /\ \/ DumpNext /\ UNCHANGED <<regionVars, networkVars, submitVars, settingsVars, pairVars>>
       \/ RegionOption /\ UNCHANGED <<dumpVars, networkVars, submitVars, settingsVars, pairVars>>
       \/ NetworkNext /\ UNCHANGED <<dumpVars, regionVars, submitVars, settingsVars, pairVars>>
       \/ option_SubmitSystemData /\ UNCHANGED <<fsaHandle, dumpVars, regionVars, settingsVars, pairVars>>
       \/ /\ option_SetColdbootTitle \/ option_EditParental \/ option_SystemInformation
          /\ UNCHANGED <<fsaHandle, dumpVars, regionVars, networkVars, submitVars, pairVars>>
       \/ option_PairDRC /\ UNCHANGED <<fsaHandle, dumpVars, regionVars, networkVars, submitVars, settingsVars>>

MenuStep == Boot \/ Elsewhere \/ DrawMain \/ option_Shutdown \/ OptionStep

Next == UserStep \/ OthersStep \/ MenuStep

\* The menu thread runs whenever it does not wait for the user.  Nothing is
\* assumed of the user, of DRH or of the server.
Spec == Init /\ [][Next]_vars /\ WF_vars(MenuStep)

-----------------------------------------------------------------------------

TypeOK ==
    /\ cur_flag \in Flags /\ selected \in 0 .. 12 /\ last \in 0 .. 12
    /\ fsaHandle \in {"open", "none"}
    /\ DumpTypeOK /\ RegionTypeOK /\ NetworkTypeOK /\ SubmitTypeOK /\ SettingsTypeOK /\ PairTypeOK

\* No option returns to the main menu holding a buffer, a file, a directory or a
\* key, whatever failed in it.  The sockets that are lost on the way are counted
\* in lost.
MenuHoldsNothing == pc \in {"main", "mainMenu"} => held = {}

\* Whatever fails, the menu comes back to where it reads the buttons, or the
\* console is turned off or rebooted.
ReadsButtons == {"wait", "mainMenu", "regionMenu", "submitMenu", "coldbootMenu", "parentalMenu"}

AlwaysReturns == []<>(pc \in ReadsButtons \cup {"off", "rebooted"})
=============================================================================
