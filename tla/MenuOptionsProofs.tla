------------------------- MODULE MenuOptionsProofs -------------------------
(***************************************************************************)
(* The options of the menu for any faults, logs, regions, settings,        *)
(* servers, sockets and sessions.  What an option holds is a function of   *)
(* the place where it is, so that it holds nothing when it is over; what   *)
(* it tells its user is true: a repaired region, a paired GamePad and an   *)
(* accepted submission are what they are said to be; and the dumps         *)
(* implement CopyJob: each step of the menu is a step of the abstract job  *)
(* or leaves it alone.  The frame lemmas say what an option leaves alone. *)
(***************************************************************************)
EXTENDS MenuOptions, WellFoundedInduction, TLAPS

\* The place where the option is, or will be after the button.
Here == IF pc = "wait" THEN proceed ELSE pc

\* What an option holds at a place: each thing has the places where it is held.
HeldAt(place) ==
    {x \in {"dir"} :
        place \in {"logsRead", "copyOpen", "copyCreate", "copyAlloc", "copy", "logsClose"}}
    \cup {x \in {"src"} : place \in {"copyCreate", "copyAlloc", "copy"}}
    \cup {x \in {"dst"} : place \in {"copyAlloc", "copy"}}
    \cup {x \in {"copyBuffer"} : place = "copy"}
    \cup {x \in {"dumpBuffer"} :
            place \in {"otpRead", "otpWrite", "seepromRead", "seepromWrite", "dumpDone", "dumpFree"}}
    \cup {x \in {"cfg"} :
            place \in {"netconfStat", "netconfAlloc", "netconfRead", "netconfApply", "netconfDone",
                       "netconfFree"}}
    \cup {x \in {"cfgBuffer"} :
            place \in {"netconfRead", "netconfApply", "netconfDone", "netconfFree"}}
    \cup {x \in {"infoBuffer"} : place \in {"infoRead", "infoRegion", "infoFree"}}
    \cup {x \in {"dataBuffer"} :
            place \in {"submitRead", "submitCert", "submitBsp", "submitCollect", "submitRand",
                       "submitRsa", "submitKey", "submitImport", "submitEncrypt", "submitFree",
                       "submitNet", "submitNoNet", "submitSocket", "submitLookup", "submitConnect",
                       "submitSend", "submitRecv"}}
    \cup {x \in {"aesHandle"} : place \in {"submitImport", "submitEncrypt"}}
    \cup {x \in {"socket"} :
            place \in {"submitLookup", "submitConnect", "submitSend", "submitRecv"}}

HeldInv == held = HeldAt(Here)

\* The entry that is highlighted is one of the menu on the screen.
EntryInv ==
    /\ selected \in 0 .. 12 /\ last \in 0 .. 12 /\ option_count \in TitleCounts
    /\ pc = "coldbootMenu" => selected < option_count
    /\ pc = "coldbootSet" => selected \in 1 .. option_count - 1
    /\ proceed \notin {"mainMenu", "coldbootMenu", "coldbootSet"}

\* A selection that moves stays in its menu.
LEMMA Wraps == ASSUME NEW n \in Nat, NEW count \in Nat \ {0} PROVE (n + 1) % count \in 0 .. count - 1
OBVIOUS

\* A press of a button changes neither what is held where nor the bounds of the selection.
LEMMA UserKeeps ==
    ASSUME HeldInv, EntryInv, UserStep PROVE HeldInv' /\ EntryInv'
<1> USE SettingsConstants DEF HeldInv, HeldAt, Here, EntryInv, Chooses, settingsVars
<1>1. CASE ChooseOption
  BY <1>1 DEF ChooseOption, mainMenuOptions
<1>2. ASSUME NEW here \in {"mainMenu", "submitMenu", "regionMenu", "coldbootMenu", "parentalMenu"},
             NEW count \in 1 .. 13, here = "coldbootMenu" => count = option_count,
             Navigate(here, count), option_count' = option_count, last' = last
      PROVE  HeldInv' /\ EntryInv'
  <2>1. (selected + 1) % count \in 0 .. count - 1
    BY Wraps
  <2> QED
    BY <1>2, <2>1 DEF Navigate
<1>3. CASE waitButtonInput /\ UNCHANGED <<option_count, last>>
  BY <1>3 DEF waitButtonInput
<1>4. CASE ChooseSubmit /\ UNCHANGED <<option_count, last>>
  BY <1>4 DEF ChooseSubmit
<1>5. CASE ChooseFix /\ UNCHANGED <<option_count, last>>
  BY <1>5 DEF ChooseFix
<1>6. CASE (ChooseColdboot \/ ChooseParental) /\ UNCHANGED last
  BY <1>6 DEF ChooseColdboot, ChooseParental
<1>7. CASE \/ Navigate("mainMenu", Len(mainMenuOptions)) \/ Navigate("submitMenu", 2)
           \/ Navigate("regionMenu", 2) \/ Navigate("parentalMenu", 2)
           \/ Navigate("coldbootMenu", option_count)
  <2>1. Len(mainMenuOptions) = 13 /\ option_count \in 1 .. 13
    BY DEF mainMenuOptions
  <2>2. CASE UNCHANGED <<option_count, last>>
    <3>1. PICK here \in {"mainMenu", "submitMenu", "regionMenu", "coldbootMenu", "parentalMenu"},
               count \in 1 .. 13 :
                  (here = "coldbootMenu" => count = option_count) /\ Navigate(here, count)
      <4> HIDE DEF HeldInv, EntryInv
      <4> QED
        BY <1>7, <2>1
    <3> QED
      BY <1>2, <2>2, <3>1
  <2>3. UNCHANGED <<option_count, last>> \/ ChooseOption
    BY DEF UserStep, Input, RegionUserStep, SettingsUserStep, ChooseColdboot, ChooseParental, menuVars
  <2> QED
    BY <1>1, <2>2, <2>3
<1> QED
  BY <1>1, <1>3, <1>4, <1>5, <1>6, <1>7 DEF UserStep, Input, RegionUserStep, SettingsUserStep, menuVars

\* Whatever write_file_to_sd meets, the buffer stays, and the dump goes on or is over.
LEMMA WriteFileMoves ==
    ASSUME NEW here, NEW name, NEW there, write_file_to_sd(here, name, there)
    PROVE  /\ held' = held
           /\ \/ Step(here, there)
              \/ Wait(here, there)
              \/ Wait(here, "dumpFree")
BY DEF write_file_to_sd, print_error

\* The dumps take and give back just what their places say, however they fail.
LEMMA DumpsKeep ==
    ASSUME HeldInv, EntryInv, DumpNext, UNCHANGED <<option_count, last>>
    PROVE  HeldInv' /\ EntryInv'
<1> USE DEF HeldInv, HeldAt, Here, EntryInv, Step, Wait, print_error, Hold, FSA_CloseDir, FSA_CloseFile
<1>1. CASE MakeLogs
  BY <1>1 DEF MakeLogs
<1>2. CASE OpenLogs
  BY <1>2 DEF OpenLogs
<1>3. CASE ReadLogs
  BY <1>3 DEF ReadLogs
<1>4. CASE CloseLogs
  BY <1>4 DEF CloseLogs
<1>5. CASE OpenLog \/ CreateCopy \/ AllocateCopy
  <2>1. CASE OpenLog
    <3>1. CASE CopyFails("copyOpen", {})
      BY <3>1 DEF CopyFails
    <3>2. CASE Step("copyOpen", "copyCreate") /\ Hold({"src"}, {})
      BY <3>2
    <3> QED
      BY <2>1, <3>1, <3>2 DEF OpenLog
  <2>2. CASE CreateCopy
    <3>1. CASE CopyFails("copyCreate", FSA_CloseFile("src"))
      BY <3>1 DEF CopyFails
    <3>2. CASE Step("copyCreate", "copyAlloc") /\ Hold({"dst"}, {})
      BY <3>2
    <3> QED
      BY <2>2, <3>1, <3>2 DEF CreateCopy
  <2>3. CASE AllocateCopy
    BY <2>3 DEF AllocateCopy, CopyFails
  <2> QED
    BY <1>5, <2>1, <2>2, <2>3
<1>6. CASE CopyBlock
  BY <1>6 DEF CopyBlock, CopyFails, BreakCopy, EndCopy, ReleaseCopy, WroteBlock
<1>7. CASE option_DumpOtpAndSeeprom
  <2>1. CASE AllocateDump
    BY <2>1 DEF AllocateDump
  <2>2. CASE ReadMemory("otpRead", "otpWrite", IOS_ReadOTP)
    BY <2>2 DEF ReadMemory
  <2>3. CASE ReadMemory("seepromRead", "seepromWrite", EEPROM_Read(0, 256))
    BY <2>3 DEF ReadMemory
  <2>4. CASE write_file_to_sd("otpWrite", "otp.bin", "seepromRead")
    BY <2>4, WriteFileMoves
  <2>5. CASE write_file_to_sd("seepromWrite", "seeprom.bin", "dumpDone")
    BY <2>5, WriteFileMoves
  <2>6. CASE DumpDone \/ FreeDump
    BY <2>6 DEF DumpDone, FreeDump
  <2> QED
    BY <1>7, <2>1, <2>2, <2>3, <2>4, <2>5, <2>6 DEF option_DumpOtpAndSeeprom
<1>8. CASE DumpReturns
  BY <1>8 DEF DumpReturns, Return
<1> QED
  BY <1>1, <1>2, <1>3, <1>4, <1>5, <1>6, <1>7, <1>8 DEF DumpNext, option_DumpSyslogs, CopyLog

\* So do the options that use the network configuration.
LEMMA NetworkKeeps ==
    ASSUME HeldInv, EntryInv, NetworkNext, UNCHANGED <<option_count, last>>
    PROVE  HeldInv' /\ EntryInv'
<1> USE DEF HeldInv, HeldAt, Here, EntryInv, Step, Wait, print_error, Return, Hold, Check, FSA_CloseFile
<1>1. CASE option_LoadNetConf
  <2>1. CASE OpenIfmgr
    BY <2>1 DEF OpenIfmgr
  <2>2. CASE ParseConfig \/ ApplyConfig
    BY <2>2 DEF ParseConfig, ApplyConfig
  <2>3. ASSUME NEW answers, Check("netconfOpen", "netconfStat", answers, {"cfg"}, {})
        PROVE  HeldInv' /\ EntryInv'
    BY <2>3
  <2>4. CASE Check("netconfStat", "netconfAlloc", FSA_StatFile, {}, FSA_CloseFile("cfg"))
    BY <2>4
  <2>5. CASE Check("netconfAlloc", "netconfRead", Outcomes("alloc"), {"cfgBuffer"}, FSA_CloseFile("cfg"))
    BY <2>5
  <2>6. CASE ReadConfig
    BY <2>6 DEF ReadConfig
  <2>7. CASE Wait("netconfDone", "netconfFree") /\ UNCHANGED held
    BY <2>7
  <2>8. CASE Return("netconfFree") /\ Hold({}, {"cfgBuffer"} \cup FSA_CloseFile("cfg"))
    BY <2>8
  <2> QED
    BY <1>1, <2>1, <2>2, <2>3, <2>4, <2>5, <2>6, <2>7, <2>8 DEF option_LoadNetConf
<1>2. CASE option_StartWupserver
  BY <1>2 DEF option_StartWupserver, initNetconf
<1> QED
  BY <1>1, <1>2 DEF NetworkNext

\* So does the submission, whose places differ in what they hold.
LEMMA SubmissionKeeps ==
    ASSUME HeldInv, EntryInv, option_SubmitSystemData, UNCHANGED <<option_count, last>>
    PROVE  HeldInv' /\ EntryInv'
<1> USE DEF HeldInv, HeldAt, Here, EntryInv, Step, Wait, print_error, Return, Hold, Check
<1>1. CASE AskSubmit
  BY <1>1 DEF AskSubmit, drawMenu
<1>2. CASE Prepare
  BY <1>2 DEF Prepare
<1>3. CASE ReadOtpSeeprom \/ GetCertificate \/ Collect \/ Encrypt \/ FreeSubmit
  BY <1>3 DEF ReadOtpSeeprom, read_otp_seeprom, GetCertificate, Collect, Encrypt, FreeSubmit
<1>4. CASE NetworkFailed \/ CreateSocket \/ Connect \/ SendPart \/ ReceiveAnswer
  BY <1>4 DEF NetworkFailed, CreateSocket, Connect, SendPart, LoseSocket, ReceiveAnswer
<1>5. CASE LookUpHost
  BY <1>5 DEF LookUpHost, LoseSocket
<1>6. CASE initNetconf("submitNet", "submitSocket", "submitNoNet")
  BY <1>6 DEF initNetconf
<1> QED
  BY <1>1, <1>2, <1>3, <1>4, <1>5, <1>6 DEF option_SubmitSystemData

\* So do the settings and the system information.
LEMMA SettingsKeep ==
    ASSUME HeldInv, EntryInv, UNCHANGED last,
           option_SetColdbootTitle \/ option_EditParental \/ option_SystemInformation
    PROVE  HeldInv' /\ EntryInv'
<1> USE SettingsConstants
    DEF HeldInv, HeldAt, Here, EntryInv, Step, Wait, print_error, Return, Hold, Check, drawMenu,
        FSA_CloseFile, read_otp_seeprom
<1>1. CASE option_SetColdbootTitle
  BY <1>1 DEF option_SetColdbootTitle, DrawColdboot, SetColdboot
<1>2. CASE option_EditParental
  BY <1>2 DEF option_EditParental, DrawParental, DisableParental
<1>3. CASE option_SystemInformation
  <2>1. CASE Check("info", "infoRead", Outcomes("alloc"), {"infoBuffer"}, {}) /\ UNCHANGED option_count
    BY <2>1
  <2>2. CASE /\ read_otp_seeprom("infoRead", "infoRegion", "infoFree")
             /\ UNCHANGED <<held, option_count>>
    BY <2>2
  <2>3. CASE Return("infoFree") /\ Hold({}, {"infoBuffer"}) /\ UNCHANGED option_count
    BY <2>3
  <2>4. ASSUME NEW things, things \in {{}, {"version"}}, UNCHANGED option_count,
               Wait("infoRegion", "main"), Hold({}, {"infoBuffer"} \cup things)
        PROVE  HeldInv' /\ EntryInv'
    BY <2>4
  <2> QED
    BY <1>3, <2>1, <2>2, <2>3, <2>4 DEF option_SystemInformation, settingsVars
<1> QED
  BY <1>1, <1>2, <1>3

\* The region, the GamePad, DRH and the server hold nothing.
LEMMA OthersKeep ==
    ASSUME HeldInv, EntryInv, UNCHANGED <<option_count, last>>,
           option_DebugSystemRegion \/ option_PairDRC \/ DrhStep \/ ServerStep
    PROVE  HeldInv' /\ EntryInv'
<1> USE DEF HeldInv, HeldAt, Here, EntryInv, Step, Wait, print_error, drawMenu, inputVars
<1>1. CASE option_DebugSystemRegion
  BY <1>1 DEF option_DebugSystemRegion, ReadRegion, SearchMenu, FixRegion
<1>2. CASE option_PairDRC
  BY <1>2 DEF option_PairDRC, CCRCDCSetup, GetPincode, StartPairing, PollPairing, EndPairing, pairVars
<1>3. CASE DrhStep \/ ServerStep
  BY <1>3 DEF DrhStep, ServerStep
<1> QED
  BY <1>1, <1>2, <1>3

\* What is held is a function of the place, and the selection is an entry.
LEMMA PlaceSafety == Spec => [](HeldInv /\ EntryInv)
<1>1. Init => HeldInv /\ EntryInv
  BY DEF Init, InputInit, SettingsInit, HeldInv, HeldAt, Here, EntryInv
<1>2. HeldInv /\ EntryInv /\ [Next]_vars => HeldInv' /\ EntryInv'
  <2> SUFFICES ASSUME HeldInv, EntryInv, [Next]_vars PROVE HeldInv' /\ EntryInv'
    OBVIOUS
  <2>1. CASE UserStep
    BY <2>1, UserKeeps
  <2>2. CASE OthersStep
    BY <2>2, OthersKeep DEF OthersStep, settingsVars, menuVars
  <2>3. CASE OptionStep
    BY <2>3, OthersKeep, DumpsKeep, NetworkKeeps, SubmissionKeeps, SettingsKeep
       DEF OptionStep, settingsVars, menuVars, RegionOption
  <2>4. CASE Boot \/ Elsewhere \/ option_Shutdown
    BY <2>4 DEF Boot, Elsewhere, MayReboot, Return, Step, option_Shutdown, settingsVars, menuVars,
                HeldInv, HeldAt, Here, EntryInv
  <2>5. CASE DrawMain
    BY <2>5 DEF DrawMain, drawMenu, mainMenuOptions, HeldInv, HeldAt, Here, EntryInv
  <2>6. CASE UNCHANGED vars
    BY <2>6 DEF vars, inputVars, settingsVars, menuVars, HeldInv, HeldAt, Here, EntryInv
  <2> QED
    BY <2>1, <2>2, <2>3, <2>4, <2>5, <2>6 DEF Next, MenuStep
<1> QED
  BY <1>1, <1>2, PTL DEF Spec

\* No option returns to the main menu holding a buffer, a file, a directory or a
\* key, for any faults, files and sessions.
THEOREM HeldSafety == Spec => []MenuHoldsNothing
<1>1. HeldInv => MenuHoldsNothing
  BY DEF HeldInv, HeldAt, Here, MenuHoldsNothing
<1> QED
  BY <1>1, PlaceSafety, PTL

-----------------------------------------------------------------------------
(* Where the steps of the options lead, and what they tell.                *)

\* The places of each option in its code.
DumpPlaces ==
    {"logs", "logsOpen", "logsRead", "logsClose", "copyOpen", "copyCreate", "copyAlloc", "copy", "dumped", "otp", "otpRead",
     "otpWrite", "seepromRead", "seepromWrite", "dumpDone", "dumpFree"}
RegionPlaces == {"region", "regionSearch", "regionMenu", "regionFix"}
NetworkPlaces ==
    {"netconf", "netconfOpen", "netconfStat", "netconfAlloc", "netconfRead", "netconfApply",
     "netconfDone", "netconfFree", "wup", "wupRuns", "wupFailed"}
SubmitPlaces ==
    {"submit", "submitMenu", "submitAlloc", "submitRead", "submitCert", "submitBsp", "submitCollect",
     "submitRand", "submitRsa", "submitKey", "submitImport", "submitEncrypt", "submitFree", "submitNet",
     "submitNoNet", "submitSocket", "submitLookup", "submitConnect", "submitSend", "submitRecv"}
SettingsPlaces ==
    {"coldboot", "coldbootMenu", "coldbootSet", "parental", "parentalMenu", "parentalSet", "info",
     "infoRead", "infoRegion", "infoFree"}
PairPlaces == {"pair", "pairPin", "pairStart", "pairPoll", "pairEnd"}

\* A step of an option starts at one of its places, leads to another of them, to
\* a wait or to the main menu, and tells only its own messages.
Frame(places, messages) ==
    /\ pc \in places /\ pc' \in places \cup {"main", "wait"}
    /\ IF pc' = "wait" THEN proceed' \in places \cup {"main"} ELSE proceed' = proceed
    /\ told' \in messages \cup {told}
    /\ cur_flag' \in {cur_flag, {}}

\* The dumps stay in their own places and say "error" or "done".
LEMMA DumpFrame == ASSUME DumpNext PROVE Frame(DumpPlaces, {"error", "done"})
<1> USE DEF Step, Wait, print_error, Return, Frame, DumpPlaces
<1>1. CASE MakeLogs \/ OpenLogs \/ ReadLogs \/ CloseLogs
  BY <1>1 DEF MakeLogs, OpenLogs, ReadLogs, CloseLogs
<1>2. CASE CopyLog
  BY <1>2 DEF CopyLog, OpenLog, CreateCopy, AllocateCopy, CopyBlock, CopyFails, BreakCopy, EndCopy, WroteBlock
<1>3. CASE option_DumpOtpAndSeeprom
  BY <1>3 DEF option_DumpOtpAndSeeprom, AllocateDump, ReadMemory, write_file_to_sd, DumpDone, FreeDump
<1>4. CASE DumpReturns
  BY <1>4 DEF DumpReturns
<1> QED
  BY <1>1, <1>2, <1>3, <1>4 DEF DumpNext, option_DumpSyslogs

\* So do the options that use the network configuration.
LEMMA NetworkFrame == ASSUME NetworkNext PROVE Frame(NetworkPlaces, {"error", "done"})
<1> USE DEF Step, Wait, print_error, Return, Check, Frame, NetworkPlaces
<1>1. CASE option_LoadNetConf
  BY <1>1 DEF option_LoadNetConf, OpenIfmgr, ReadConfig, ParseConfig, ApplyConfig
<1>2. CASE option_StartWupserver
  BY <1>2 DEF option_StartWupserver, initNetconf
<1> QED
  BY <1>1, <1>2 DEF NetworkNext

\* So do the settings and the system information.
LEMMA SettingsFrame ==
    ASSUME option_SetColdbootTitle \/ option_EditParental \/ option_SystemInformation
    PROVE  Frame(SettingsPlaces, {"error", "done"})
<1> USE DEF Step, Wait, print_error, Return, Check, drawMenu, Frame, SettingsPlaces
<1>1. CASE option_SetColdbootTitle \/ option_EditParental
  BY <1>1 DEF option_SetColdbootTitle, DrawColdboot, SetColdboot, option_EditParental, DrawParental,
              DisableParental
<1>2. CASE option_SystemInformation
  BY <1>2 DEF option_SystemInformation, read_otp_seeprom
<1> QED
  BY <1>1, <1>2

\* Only the submission says that something was submitted.
LEMMA SubmitFrame ==
    ASSUME option_SubmitSystemData PROVE Frame(SubmitPlaces, {"error", "submitFailed", "submitted"})
<1> USE DEF Step, Wait, print_error, Return, Check, drawMenu, Frame, SubmitPlaces
<1>1. CASE AskSubmit \/ Prepare \/ ReadOtpSeeprom \/ GetCertificate \/ Collect \/ Encrypt \/ FreeSubmit
  BY <1>1 DEF AskSubmit, Prepare, ReadOtpSeeprom, read_otp_seeprom, GetCertificate, Collect, Encrypt,
              FreeSubmit
<1>2. CASE NetworkFailed \/ CreateSocket \/ Connect \/ SendPart \/ ReceiveAnswer \/ LookUpHost
  BY <1>2 DEF NetworkFailed, CreateSocket, Connect, SendPart, LoseSocket, ReceiveAnswer, LookUpHost
<1>3. CASE initNetconf("submitNet", "submitSocket", "submitNoNet")
  BY <1>3 DEF initNetconf
<1> QED
  BY <1>1, <1>2, <1>3 DEF option_SubmitSystemData

\* Only the region's option says that a region is right or repaired.
LEMMA RegionFrame ==
    ASSUME option_DebugSystemRegion
    PROVE  Frame(RegionPlaces, {"error", "noArea", "correct", "repaired"})
BY DEF option_DebugSystemRegion, ReadRegion, SearchMenu, FixRegion, Step, Wait, print_error, drawMenu,
       Frame, RegionPlaces

\* Only the pairing says how a pairing ended.
LEMMA PairFrame == ASSUME option_PairDRC PROVE Frame(PairPlaces, {"pairFailed", "paired"})
BY DEF option_PairDRC, CCRCDCSetup, GetPincode, StartPairing, PollPairing, EndPairing, Step, Wait,
       print_error, Frame, PairPlaces

\* Where a choice in the main menu may lead.
Entries == {mainMenuOptions[i] : i \in 1 .. 13}

\* The entries of the main menu.
LEMMA EntriesAre ==
    Entries = {"coldboot", "logs", "otp", "netconf", "wup", "pair", "install", "parental",
               "region", "info", "submit", "boot1", "shutdown"}
BY DEF Entries, mainMenuOptions

\* What a press of a button does: the places it leads to.
LEMMA UserFrame ==
    ASSUME UserStep, EntryInv
    PROVE  /\ told' = told
           /\ \/ ChooseOption /\ pc = "mainMenu" /\ proceed' = proceed
                 /\ pc' \in Entries
              \/ UNCHANGED <<pc, proceed>>
              \/ pc = "wait" /\ pc' = proceed /\ proceed' = "main"
              \/ /\ proceed' = proceed /\ pc' \in {"main", "submitAlloc"} /\ pc = "submitMenu"
              \/ /\ proceed' = proceed /\ pc' \in {"main", "regionFix"} /\ pc = "regionMenu"
              \/ /\ proceed' = proceed /\ pc \in {"coldbootMenu", "parentalMenu"}
                 /\ pc' \in {"main", "coldbootSet", "parentalSet"}
<1> USE DEF Chooses
<1>1. CASE ChooseOption
  BY <1>1 DEF ChooseOption, EntryInv, mainMenuOptions, Entries
<1>2. CASE Input
  BY <1>2 DEF Input, waitButtonInput, Navigate
<1>3. CASE ChooseSubmit
  BY <1>3 DEF ChooseSubmit
<1>4. CASE RegionUserStep
  BY <1>4 DEF RegionUserStep, Navigate, ChooseFix
<1>5. CASE SettingsUserStep
  BY <1>5 DEF SettingsUserStep, Navigate, ChooseColdboot, ChooseParental
<1> QED
  BY <1>1, <1>2, <1>3, <1>4, <1>5 DEF UserStep

\* The steps of the menu thread that belong to no option.
LEMMA MenuFrame ==
    ASSUME Boot \/ Elsewhere \/ option_Shutdown
    PROVE  Frame({"boot", "autoboot", "boot1", "install", "shutdown"} \cup {"off", "rebooted"}, {})
BY DEF Boot, Elsewhere, MayReboot, option_Shutdown, Return, Step, Frame

-----------------------------------------------------------------------------
(* What the menu tells its user. *)

\* The messages that say how an option ended.
Endings == {"repaired", "correct", "paired", "pairFailed", "submitted"}

Talking == {"mainMenu"} \cup RegionPlaces \cup SubmitPlaces \cup PairPlaces

\* Until an option ends, nobody has said how it ended.
TalkInv ==
    /\ pc # "wait" => proceed = "main"
    /\ Here \in Talking => told \notin Endings

\* What the option knows of the region where it is.
RegionInv ==
    /\ Here = "regionSearch" => productArea_id = LowestBit(product_area) /\ gameRegion = game_region
    /\ Here \in {"regionMenu", "regionFix"} => menu \in installed
    /\ RegionTruthful

\* DRH pairs only while the option polls it, and a success that it read stays one.
PairInv ==
    /\ Here \in {"mainMenu", "pair", "pairPin", "pairStart"} => timeout = 0 /\ status = "unset"
    /\ Here = "pairPoll" => timeout \in Nat /\ status \in Unpaired \cup {"unset"}
    /\ Here = "pairEnd" => timeout \in Int /\ (status = "paired" => timeout >= 0 /\ drh = "paired")
    /\ drh \in Unpaired => pc \in {"pairPoll", "pairEnd"} \/ stopRefused
    /\ PairingIsOver

\* The server answers only what was sent as a whole.
SubmitInv ==
    /\ Here \in {"mainMenu"} \cup (SubmitPlaces \ {"submitSend", "submitRecv"}) => sent = 0
    /\ Here = "submitSend" => sent \in 0 .. 2
    /\ server # "nothing" => sent = 3
    /\ SubmitTruthful

\* An option that has not ended has not said how it ends.
LEMMA TalkSafety == Spec => []TalkInv
<1>1. Init => TalkInv
  BY DEF Init, InputInit, TalkInv, Here, Endings
<1>2. TalkInv /\ EntryInv /\ [Next]_vars => TalkInv'
  <2> SUFFICES ASSUME TalkInv, EntryInv, [Next]_vars PROVE TalkInv'
    OBVIOUS
  <2> USE DEF TalkInv, Here, Endings, Talking, Frame, RegionPlaces, SubmitPlaces, PairPlaces
  <2>1. CASE UserStep
    BY <2>1, UserFrame, EntriesAre DEF Entries
  <2>2. CASE OthersStep
    BY <2>2 DEF OthersStep, DrhStep, ServerStep, inputVars
  <2>3. CASE Boot \/ Elsewhere \/ option_Shutdown
    BY <2>3, MenuFrame
  <2>4. CASE DrawMain
    BY <2>4 DEF DrawMain, drawMenu
  <2>5. CASE DumpNext
    BY <2>5, DumpFrame DEF DumpPlaces
  <2>6. CASE NetworkNext
    BY <2>6, NetworkFrame DEF NetworkPlaces
  <2>7. CASE option_SetColdbootTitle \/ option_EditParental \/ option_SystemInformation
    BY <2>7, SettingsFrame DEF SettingsPlaces
  <2>8. CASE option_DebugSystemRegion
    BY <2>8 DEF option_DebugSystemRegion, ReadRegion, SearchMenu, FixRegion, Step, Wait, print_error,
                drawMenu
  <2>9. CASE option_PairDRC
    BY <2>9 DEF option_PairDRC, CCRCDCSetup, GetPincode, StartPairing, PollPairing, EndPairing, Step,
                Wait, print_error
  <2>10. CASE option_SubmitSystemData
    <3>1. CASE told' \in {told, "error"}
      BY <2>10, <3>1, SubmitFrame
    <3>2. CASE ReceiveAnswer
      BY <3>2 DEF ReceiveAnswer, Wait
    <3> QED
      BY <2>10, <3>1, <3>2
         DEF option_SubmitSystemData, AskSubmit, Prepare, ReadOtpSeeprom, read_otp_seeprom, GetCertificate,
             Collect, Encrypt, FreeSubmit, NetworkFailed, CreateSocket, Connect, SendPart, LoseSocket,
             LookUpHost, initNetconf, Return, Check, print_error
  <2>11. CASE UNCHANGED vars
    BY <2>11 DEF vars, inputVars
  <2> QED
    BY <2>1, <2>2, <2>3, <2>4, <2>5, <2>6, <2>7, <2>8, <2>9, <2>10, <2>11
       DEF Next, MenuStep, OptionStep, RegionOption
<1> QED
  BY <1>1, <1>2, PlaceSafety, PTL DEF Spec

\* What the option knows of the region is so.
LEMMA RegionInvariant == Spec => []RegionInv
<1>1. Init => RegionInv
  BY DEF Init, InputInit, RegionInv, RegionTruthful, Here
<1>2. RegionInv /\ TalkInv /\ EntryInv /\ [Next]_vars => RegionInv'
  <2> SUFFICES ASSUME RegionInv, TalkInv, EntryInv, [Next]_vars PROVE RegionInv'
    OBVIOUS
  <2> USE DEF RegionInv, RegionTruthful, Settings, regionVars, Here
  <2>1. CASE UserStep
    <3>1. CASE UNCHANGED regionVars
      BY <2>1, <3>1, UserFrame, EntriesAre DEF Entries, EntryInv
    <3> QED
      BY <2>1, <3>1
         DEF UserStep, ChooseOption, RegionUserStep, ChooseFix
  <2>2. CASE OthersStep
    BY <2>2 DEF OthersStep, DrhStep, ServerStep, inputVars
  <2>3. CASE Boot \/ Elsewhere \/ option_Shutdown
    BY <2>3, MenuFrame DEF Frame, Boot, Elsewhere, option_Shutdown
  <2>4. CASE DrawMain
    BY <2>4 DEF DrawMain, drawMenu
  <2>5. CASE DumpNext /\ UNCHANGED regionVars
    BY <2>5, DumpFrame DEF Frame, DumpPlaces
  <2>6. CASE NetworkNext /\ UNCHANGED regionVars
    BY <2>6, NetworkFrame DEF Frame, NetworkPlaces
  <2>7. CASE /\ option_SetColdbootTitle \/ option_EditParental \/ option_SystemInformation
             /\ UNCHANGED regionVars
    BY <2>7, SettingsFrame DEF Frame, SettingsPlaces
  <2>8. CASE option_DebugSystemRegion
    <3> USE DEF Step, Wait, print_error, drawMenu
    <3>1. CASE ReadRegion
      BY <3>1 DEF ReadRegion
    <3>2. CASE SearchMenu
      <4>1. ASSUME NEW opened \in MenusOpened PROVE opened \subseteq installed
        BY <4>1 DEF MenusOpened
      <4>2. ASSUME NEW opened \in MenusOpened, productArea_id \in Found(opened)
            PROVE  productArea_id \in installed
        BY <4>1, <4>2 DEF Found
      <4>3. ASSUME NEW opened \in MenusOpened PROVE Found(opened) \subseteq installed
        BY <4>1 DEF Found
      <4>4. pc' = "regionMenu" \/ (pc' = "wait" /\ proceed' = "main")
        BY <3>2 DEF SearchMenu
      <4>5. told' \in {told, "correct", "error"}
        BY <3>2 DEF SearchMenu
      <4>6. told' = "correct" /\ told # "correct" => productArea_id \in installed \cap gameRegion
        BY <3>2, <4>2 DEF SearchMenu
      <4>7. pc' = "regionMenu" => menu' \in installed
        BY <3>2, <4>3 DEF SearchMenu
      <4>8. pc = "regionSearch" /\ UNCHANGED <<product_area, game_region, installed>>
        BY <3>2 DEF SearchMenu
      <4> QED
        BY <4>4, <4>5, <4>6, <4>7, <4>8 DEF TalkInv, Talking, Endings, RegionPlaces
    <3>3. CASE FixRegion
      BY <3>3 DEF FixRegion, TalkInv, Talking, Endings, RegionPlaces
    <3> QED
      BY <2>8, <3>1, <3>2, <3>3 DEF option_DebugSystemRegion
  <2>9. CASE option_PairDRC /\ UNCHANGED regionVars
    BY <2>9, PairFrame DEF Frame, PairPlaces
  <2>10. CASE option_SubmitSystemData /\ UNCHANGED regionVars
    BY <2>10, SubmitFrame DEF Frame, SubmitPlaces
  <2>11. CASE UNCHANGED vars
    BY <2>11 DEF vars, inputVars
  <2> QED
    BY <2>1, <2>2, <2>3, <2>4, <2>5, <2>6, <2>7, <2>8, <2>9, <2>10, <2>11
       DEF Next, MenuStep, OptionStep, RegionOption
<1> QED
  BY <1>1, <1>2, PlaceSafety, TalkSafety, PTL DEF Spec

\* "System region set to ... successfully" leaves the settings of the one menu that
\* is installed, and "appears to be set correctly" is said only of such a system,
\* for any regions, bits, settings and faults.
THEOREM RegionSafety == Spec => []RegionTruthful
<1>1. RegionInv => RegionTruthful
  BY DEF RegionInv
<1> QED
  BY <1>1, RegionInvariant, PTL

\* The polls and DRH agree.
LEMMA PairInvariant == Spec => []PairInv
<1>1. Init => PairInv
  BY DEF Init, InputInit, PairInit, PairInv, PairingIsOver, Here, Unpaired, SubmitPlaces
<1>2. PairInv /\ TalkInv /\ EntryInv /\ [Next]_vars => PairInv'
  <2> SUFFICES ASSUME PairInv, TalkInv, EntryInv, [Next]_vars PROVE PairInv'
    OBVIOUS
  <2> USE DEF PairInv, PairingIsOver, pairVars, Here
  <2>1. CASE UserStep
    <3>1. UNCHANGED pairVars
      BY <2>1 DEF UserStep, ChooseOption
    <3> QED
      BY <2>1, <3>1, UserFrame, EntriesAre DEF Entries, EntryInv
  <2>2. CASE OthersStep
    BY <2>2 DEF OthersStep, DrhStep, ServerStep, inputVars, Unpaired
  <2>3. CASE Boot \/ Elsewhere \/ option_Shutdown
    BY <2>3, MenuFrame DEF Frame, Boot, Elsewhere, option_Shutdown
  <2>4. CASE DrawMain
    BY <2>4 DEF DrawMain, drawMenu
  <2>5. CASE DumpNext /\ UNCHANGED pairVars
    BY <2>5, DumpFrame DEF Frame, DumpPlaces
  <2>6. CASE NetworkNext /\ UNCHANGED pairVars
    BY <2>6, NetworkFrame DEF Frame, NetworkPlaces
  <2>7. CASE /\ option_SetColdbootTitle \/ option_EditParental \/ option_SystemInformation
             /\ UNCHANGED pairVars
    BY <2>7, SettingsFrame DEF Frame, SettingsPlaces
  <2>8. CASE option_DebugSystemRegion /\ UNCHANGED pairVars
    BY <2>8, RegionFrame DEF Frame, RegionPlaces
  <2>9. CASE option_PairDRC
    <3> USE PairingConstants
        DEF Step, Wait, print_error, TalkInv, Talking, Endings, PairPlaces, Unpaired, CCRCDCWpsStop
    <3>1. CASE CCRCDCSetup \/ GetPincode
      BY <3>1 DEF CCRCDCSetup, GetPincode
    <3>2. CASE StartPairing
      BY <3>2 DEF StartPairing
    <3>3. CASE PollPairing
      BY <3>3 DEF PollPairing
    <3>4. CASE EndPairing
      BY <3>4 DEF EndPairing
    <3> QED
      BY <2>9, <3>1, <3>2, <3>3, <3>4 DEF option_PairDRC
  <2>10. CASE option_SubmitSystemData /\ UNCHANGED pairVars
    BY <2>10, SubmitFrame DEF Frame, SubmitPlaces
  <2>11. CASE UNCHANGED vars
    BY <2>11 DEF vars, inputVars
  <2> QED
    BY <2>1, <2>2, <2>3, <2>4, <2>5, <2>6, <2>7, <2>8, <2>9, <2>10, <2>11
       DEF Next, MenuStep, OptionStep, RegionOption
<1> QED
  BY <1>1, <1>2, PlaceSafety, TalkSafety, PTL DEF Spec

\* "Paired GamePad" is shown only for a GamePad that is paired, DRH is not left
\* searching when the option is over, and only the last poll can see a success that
\* is reported as a failure, for any timeout and faults.
THEOREM PairSafety == Spec => []PairingIsOver
<1>1. PairInv => PairingIsOver
  BY DEF PairInv
<1> QED
  BY <1>1, PairInvariant, PTL

\* What was sent, and what the server made of it, agree.
LEMMA SubmitInvariant == Spec => []SubmitInv
<1>1. Init => SubmitInv
  BY DEF Init, InputInit, SubmitInit, SubmitInv, SubmitTruthful, Here, SubmitPlaces
<1>2. SubmitInv /\ TalkInv /\ EntryInv /\ [Next]_vars => SubmitInv'
  <2> SUFFICES ASSUME SubmitInv, TalkInv, EntryInv, [Next]_vars PROVE SubmitInv'
    OBVIOUS
  <2> USE DEF SubmitInv, SubmitTruthful, submitVars, Here, SubmitPlaces, Parts
  <2>1. CASE UserStep
    <3>1. UNCHANGED submitVars
      BY <2>1 DEF UserStep, ChooseOption, ChooseSubmit
    <3> QED
      BY <2>1, <3>1, UserFrame, EntriesAre DEF Entries, EntryInv
  <2>2. CASE OthersStep
    BY <2>2 DEF OthersStep, DrhStep, ServerStep, inputVars
  <2>3. CASE Boot \/ Elsewhere \/ option_Shutdown
    BY <2>3, MenuFrame DEF Frame, Boot, Elsewhere, option_Shutdown
  <2>4. CASE DrawMain
    BY <2>4 DEF DrawMain, drawMenu
  <2>5. CASE DumpNext /\ UNCHANGED submitVars
    BY <2>5, DumpFrame DEF Frame, DumpPlaces
  <2>6. CASE NetworkNext /\ UNCHANGED submitVars
    BY <2>6, NetworkFrame DEF Frame, NetworkPlaces
  <2>7. CASE /\ option_SetColdbootTitle \/ option_EditParental \/ option_SystemInformation
             /\ UNCHANGED submitVars
    BY <2>7, SettingsFrame DEF Frame, SettingsPlaces
  <2>8. CASE option_DebugSystemRegion /\ UNCHANGED submitVars
    BY <2>8, RegionFrame DEF Frame, RegionPlaces
  <2>9. CASE option_PairDRC /\ UNCHANGED submitVars
    BY <2>9, PairFrame DEF Frame, PairPlaces
  <2>10. CASE option_SubmitSystemData
    <3> USE DEF Step, Wait, print_error, Return, Check, TalkInv, Talking, Endings
    <3>1. CASE AskSubmit \/ Prepare \/ ReadOtpSeeprom \/ GetCertificate \/ Collect \/ Encrypt \/ FreeSubmit
      BY <3>1 DEF AskSubmit, Prepare, ReadOtpSeeprom, read_otp_seeprom, GetCertificate, Collect, Encrypt,
                  FreeSubmit, drawMenu
    <3>2. CASE NetworkFailed \/ CreateSocket \/ Connect \/ LookUpHost
      BY <3>2 DEF NetworkFailed, CreateSocket, Connect, LoseSocket, LookUpHost
    <3>3. CASE SendPart
      BY <3>3 DEF SendPart, LoseSocket
    <3>4. CASE ReceiveAnswer
      BY <3>4 DEF ReceiveAnswer, Answers
    <3>5. CASE initNetconf("submitNet", "submitSocket", "submitNoNet") /\ UNCHANGED submitVars
      BY <3>5 DEF initNetconf
    <3> QED
      BY <2>10, <3>1, <3>2, <3>3, <3>4, <3>5 DEF option_SubmitSystemData
  <2>11. CASE UNCHANGED vars
    BY <2>11 DEF vars, inputVars
  <2> QED
    BY <2>1, <2>2, <2>3, <2>4, <2>5, <2>6, <2>7, <2>8, <2>9, <2>10, <2>11
       DEF Next, MenuStep, OptionStep, RegionOption
<1> QED
  BY <1>1, <1>2, PlaceSafety, TalkSafety, PTL DEF Spec

\* "System data submitted successfully." is shown only for a request that was sent as
\* a whole and accepted, for any faults and numbers of sockets.
THEOREM SubmitSafety == Spec => []SubmitTruthful
<1>1. SubmitInv => SubmitTruthful
  BY DEF SubmitInv
<1> QED
  BY <1>1, SubmitInvariant, PTL

-----------------------------------------------------------------------------
(* The dumps, which implement CopyJob.                                     *)

CopyPlaces == {"copyOpen", "copyCreate", "copyAlloc", "copy"}
LogPlaces == {"logsOpen", "logsRead", "logsClose"} \cup CopyPlaces
OtpPlaces ==
    {"otpRead", "otpWrite", "seepromRead", "seepromWrite", "dumpDone", "dumpFree"}

\* Which dump runs where, and what it has said there.
JobInv ==
    /\ job \in {"none", "logs", "otp"}
    /\ Here \in LogPlaces => job = "logs"
    /\ Here \in OtpPlaces => job = "otp"
    /\ Here = "dumped" => job # "none"
    /\ job # "none" => Here \in LogPlaces \cup OtpPlaces \cup {"dumped"}
    /\ job = "none" => wrote = {} /\ unnoticed = {}
    /\ job # "none" => told \in {"nothing", "error", "done"}
    /\ Here \in {"mainMenu", "logs", "otp"} => told = "nothing"
    /\ Here \in {"logsClose", "dumpFree", "dumped"} => told # "nothing"

\* What is not lost without notice is written or still to come.
TodoInv ==
    /\ short => unnoticed # {}
    /\ Here \in CopyPlaces => file \in Logs
    /\ unnoticed = {} =>
         /\ Here = "logsRead" => Logs \subseteq wrote \cup entries
         /\ Here \in CopyPlaces => Logs \subseteq wrote \cup entries \cup {file}
         /\ Here \in {"seepromRead", "seepromWrite", "dumpDone"} => "otp.bin" \in wrote
         /\ Here = "dumpDone" => "seeprom.bin" \in wrote

CopyInv == JobInv /\ TodoInv

Simulated == [Copies!Next]_(Copies!copyVars)

\* The steps of the other options, of the user and of DRH and the server.
LEMMA OtherStepsKeep ==
    ASSUME CopyInv, TalkInv, EntryInv, [Next]_vars, ~DumpNext
    PROVE  UNCHANGED dumpVars /\ (told' = told \/ job = "none") /\ CopyInv'
<1> USE DEF CopyInv, JobInv, TodoInv, CopyPlaces, LogPlaces, OtpPlaces, Here, dumpVars
<1>1. CASE UserStep
  <2>1. UNCHANGED dumpVars
    BY <1>1 DEF UserStep, ChooseOption
  <2> QED
    BY <1>1, <2>1, UserFrame, EntriesAre DEF Entries, EntryInv
<1>2. CASE OthersStep
  BY <1>2 DEF OthersStep, DrhStep, ServerStep, inputVars
<1>3. CASE Boot \/ Elsewhere \/ option_Shutdown
  BY <1>3, MenuFrame DEF Frame, Boot, Elsewhere, option_Shutdown
<1>4. CASE DrawMain
  BY <1>4 DEF DrawMain, drawMenu
<1>5. CASE NetworkNext /\ UNCHANGED dumpVars
  BY <1>5, NetworkFrame DEF Frame, NetworkPlaces
<1>6. CASE /\ option_SetColdbootTitle \/ option_EditParental \/ option_SystemInformation
           /\ UNCHANGED dumpVars
  BY <1>6, SettingsFrame DEF Frame, SettingsPlaces
<1>7. CASE option_DebugSystemRegion /\ UNCHANGED dumpVars
  BY <1>7, RegionFrame DEF Frame, RegionPlaces
<1>8. CASE option_PairDRC /\ UNCHANGED dumpVars
  BY <1>8, PairFrame DEF Frame, PairPlaces
<1>9. CASE option_SubmitSystemData /\ UNCHANGED dumpVars
  BY <1>9, SubmitFrame DEF Frame, SubmitPlaces
<1>10. CASE UNCHANGED vars
  BY <1>10 DEF vars, inputVars
<1> QED
  BY <1>1, <1>2, <1>3, <1>4, <1>5, <1>6, <1>7, <1>8, <1>9, <1>10
     DEF Next, MenuStep, OptionStep, RegionOption

\* The dump of the logs, without the copying of a log.
LEMMA LogStepsKeep ==
    ASSUME CopyInv, MakeLogs \/ OpenLogs \/ ReadLogs \/ CloseLogs \/ DumpReturns
    PROVE  CopyInv'
<1> USE DEF CopyInv, JobInv, TodoInv, CopyPlaces, LogPlaces, OtpPlaces, Here, Step, Wait, print_error
<1>1. CASE MakeLogs
  BY <1>1 DEF MakeLogs
<1>2. CASE OpenLogs
  BY <1>2 DEF OpenLogs
<1>3. CASE ReadLogs
  BY <1>3, DumpConstants DEF ReadLogs
<1>4. CASE CloseLogs
  BY <1>4 DEF CloseLogs, dumpVars
<1>5. CASE DumpReturns
  BY <1>5 DEF DumpReturns, Return, NoDump
<1> QED
  BY <1>1, <1>2, <1>3, <1>4, <1>5

\* The copying of a log.
LEMMA CopyStepsKeep ==
    ASSUME CopyInv, CopyLog PROVE CopyInv'
<1> USE DEF CopyInv, JobInv, TodoInv, CopyPlaces, LogPlaces, OtpPlaces, Here, Step, Wait, print_error, CopyFails
<1>1. CASE OpenLog \/ CreateCopy \/ AllocateCopy
  <2>1. CASE OpenLog
    BY <2>1 DEF OpenLog, dumpVars
  <2>2. CASE CreateCopy
    BY <2>2 DEF CreateCopy
  <2>3. CASE AllocateCopy
    BY <2>3 DEF AllocateCopy
  <2> QED
    BY <1>1, <2>1, <2>2, <2>3
<1>2. CASE BreakCopy /\ UNCHANGED <<job, entries, file>>
  BY <1>2 DEF BreakCopy
<1>3. CASE EndCopy /\ UNCHANGED <<job, entries, file>>
  BY <1>3 DEF EndCopy
<1>4. ASSUME NEW n, NEW written, WroteBlock(n, written), UNCHANGED <<job, entries, file>>
      PROVE  CopyInv'
  BY <1>4 DEF WroteBlock
<1>5. CASE CopyBlock
  BY <1>2, <1>3, <1>4, <1>5 DEF CopyBlock
<1> QED
  BY <1>1, <1>5 DEF CopyLog

\* The dump of OTP and SEEPROM.
LEMMA OtpStepsKeep ==
    ASSUME CopyInv, option_DumpOtpAndSeeprom PROVE CopyInv'
<1> USE DEF CopyInv, JobInv, TodoInv, CopyPlaces, LogPlaces, OtpPlaces, Here, Step, Wait, print_error
<1>1. CASE AllocateDump
  BY <1>1 DEF AllocateDump
<1>2. CASE \/ ReadMemory("otpRead", "otpWrite", IOS_ReadOTP)
           \/ ReadMemory("seepromRead", "seepromWrite", EEPROM_Read(0, 256))
  BY <1>2 DEF ReadMemory, dumpVars
<1>3. CASE write_file_to_sd("otpWrite", "otp.bin", "seepromRead")
  BY <1>3 DEF write_file_to_sd, Wrote
<1>4. CASE write_file_to_sd("seepromWrite", "seeprom.bin", "dumpDone")
  BY <1>4 DEF write_file_to_sd, Wrote
<1>5. CASE DumpDone \/ FreeDump
  BY <1>5 DEF DumpDone, FreeDump, dumpVars
<1> QED
  BY <1>1, <1>2, <1>3, <1>4, <1>5 DEF option_DumpOtpAndSeeprom

\* The invariant of the dumps.
LEMMA CopySafety == Spec => []CopyInv
<1>1. Init => CopyInv
  BY DEF Init, InputInit, DumpInit, CopyInv, JobInv, TodoInv, CopyPlaces, LogPlaces, OtpPlaces, Here
<1>2. CopyInv /\ TalkInv /\ EntryInv /\ [Next]_vars => CopyInv'
  BY OtherStepsKeep, LogStepsKeep, CopyStepsKeep, OtpStepsKeep DEF DumpNext, option_DumpSyslogs
<1> QED
  BY <1>1, <1>2, PlaceSafety, TalkSafety, PTL DEF Spec

\* The steps of the dump of the logs are steps of the abstract job.
LEMMA LogStepsSimulated ==
    ASSUME CopyInv, MakeLogs \/ OpenLogs \/ ReadLogs \/ CloseLogs \/ DumpReturns
    PROVE  Simulated
<1> USE DEF CopyInv, JobInv, TodoInv, CopyPlaces, LogPlaces, OtpPlaces, Here, Step, Wait, print_error, FilesOfJob,
            Simulated, Copies!Next, Copies!copyVars
<1>1. CASE MakeLogs
  <2>1. Copies!Begin
    BY <1>1 DEF MakeLogs, Copies!Begin
  <2> QED
    BY <2>1
<1>2. CASE OpenLogs
  <2>1. Copies!Fail \/ UNCHANGED <<sd, job, wrote, unnoticed, told>>
    BY <1>2 DEF OpenLogs, Copies!Fail
  <2> QED
    BY <2>1
<1>3. CASE ReadLogs
  <2>1. Copies!Lose \/ Copies!Succeed \/ UNCHANGED <<sd, job, wrote, unnoticed, told>>
    BY <1>3 DEF ReadLogs, Copies!Lose, Copies!Succeed
  <2> QED
    BY <2>1
<1>4. CASE CloseLogs
  BY <1>4 DEF CloseLogs, dumpVars
<1>5. CASE DumpReturns
  <2>1. Copies!End
    BY <1>5 DEF DumpReturns, Return, NoDump, Copies!End
  <2> QED
    BY <2>1
<1> QED
  BY <1>1, <1>2, <1>3, <1>4, <1>5

\* So are those of the copying of a log.
LEMMA CopyStepsSimulated ==
    ASSUME CopyInv, CopyLog PROVE Simulated
<1> USE DEF CopyInv, JobInv, TodoInv, CopyPlaces, LogPlaces, OtpPlaces, Here, Step, Wait, print_error, FilesOfJob,
            Simulated, Copies!Next, Copies!copyVars
<1>1. CASE OpenLog \/ CreateCopy \/ AllocateCopy
  <2>1. Copies!Fail \/ Copies!Write \/ UNCHANGED <<sd, job, wrote, unnoticed, told>>
    BY <1>1 DEF OpenLog, CreateCopy, AllocateCopy, CopyFails, dumpVars, Copies!Fail, Copies!Write,
                Copies!Truncated
  <2> QED
    BY <2>1
<1>2. CASE BreakCopy /\ UNCHANGED <<job, entries, file>>
  <2>1. Copies!Fail
    BY <1>2 DEF BreakCopy, CopyFails, Copies!Fail
  <2> QED
    BY <2>1
<1>3. CASE EndCopy /\ UNCHANGED <<job, entries, file>>
  <2>1. Copies!Write
    BY <1>3 DEF EndCopy, Copies!Write, Copies!Truncated
  <2> QED
    BY <2>1
<1>4. ASSUME NEW n, NEW written, WroteBlock(n, written), UNCHANGED <<job, entries, file>>
      PROVE  Simulated
  <2>1. Copies!Lose \/ UNCHANGED <<sd, job, wrote, unnoticed, told>>
    BY <1>4 DEF WroteBlock, Copies!Lose
  <2> QED
    BY <2>1
<1>5. CASE CopyBlock
  BY <1>2, <1>3, <1>4, <1>5 DEF CopyBlock
<1> QED
  BY <1>1, <1>5 DEF CopyLog

\* Whatever write_file_to_sd meets is a write, a failure or a loss of the job.
LEMMA WriteFileSimulated ==
    ASSUME CopyInv, NEW here \in OtpPlaces, NEW name \in {"otp.bin", "seeprom.bin"}, NEW there,
           write_file_to_sd(here, name, there)
    PROVE  Simulated
<1> USE DEF CopyInv, JobInv, TodoInv, CopyPlaces, LogPlaces, OtpPlaces, Here, Step, Wait, print_error, FilesOfJob,
            Simulated, Copies!Next, Copies!copyVars
<1>1. job = "otp" /\ job' = "otp" /\ told \in {"nothing", "error", "done"}
  BY DEF write_file_to_sd
<1>2. CASE UNCHANGED <<sd, wrote, unnoticed>> /\ told' = "error"
  <2>1. Copies!Fail
    BY <1>1, <1>2 DEF Copies!Fail
  <2> QED
    BY <2>1
<1>3. ASSUME NEW written, Wrote(name, written) PROVE
      \/ written = 2 /\ sd' = [sd EXCEPT ![name] = "whole"] /\ wrote' = wrote \cup {name}
      \/ written # 2 /\ sd' \in Copies!Truncated /\ wrote' = wrote
  BY <1>1, <1>3 DEF Wrote, Copies!Truncated
<1>4. ASSUME NEW written, Wrote(name, written), written = 2, UNCHANGED <<told, unnoticed>> PROVE Simulated
  <2>1. Copies!Write
    BY <1>1, <1>3, <1>4 DEF Copies!Write
  <2> QED
    BY <2>1
<1>5. ASSUME NEW written, Wrote(name, written), written # 2, told' = "error",
             unnoticed' = unnoticed \/ unnoticed' = unnoticed \cup {"zeroWrite"}
      PROVE  Simulated
  <2>1. Copies!Fail \/ Copies!Lose
    BY <1>1, <1>3, <1>5 DEF Copies!Fail, Copies!Lose
  <2> QED
    BY <2>1
<1> HIDE DEF CopyInv, Simulated
<1>6. CASE print_error(here, "dumpFree", "error") /\ UNCHANGED <<sd, wrote, unnoticed>>
  BY <1>2, <1>6
<1>7. ASSUME NEW written \in FSA_WriteFile("writeDump", 2), Wrote(name, written), written = 2,
             UNCHANGED <<told, unnoticed>>
      PROVE  Simulated
  BY <1>4, <1>7
<1>8. ASSUME NEW written \in FSA_WriteFile("writeDump", 2), Wrote(name, written), written = 0,
             print_error(here, there, "error"), unnoticed' = unnoticed \cup {"zeroWrite"}
      PROVE  Simulated
  BY <1>5, <1>8
<1>9. ASSUME NEW written \in FSA_WriteFile("writeDump", 2), Wrote(name, written), written \notin {0, 2},
             print_error(here, "dumpFree", "error"), UNCHANGED unnoticed
      PROVE  Simulated
  BY <1>5, <1>9
<1> HIDE DEF print_error, Wait, Step
<1> QED
  BY <1>6, <1>7, <1>8, <1>9 DEF write_file_to_sd

\* So are the steps of the dump of OTP and SEEPROM.
LEMMA OtpStepsSimulated ==
    ASSUME CopyInv, option_DumpOtpAndSeeprom PROVE Simulated
<1> USE DEF CopyInv, JobInv, TodoInv, CopyPlaces, LogPlaces, OtpPlaces, Here, Step, Wait, print_error, FilesOfJob,
            Simulated, Copies!Next, Copies!copyVars
<1>1. CASE AllocateDump
  <2>1. Copies!Begin
    BY <1>1 DEF AllocateDump, Copies!Begin
  <2> QED
    BY <2>1
<1>2. CASE \/ ReadMemory("otpRead", "otpWrite", IOS_ReadOTP)
           \/ ReadMemory("seepromRead", "seepromWrite", EEPROM_Read(0, 256))
  <2>1. Copies!Fail \/ UNCHANGED <<sd, job, wrote, unnoticed, told>>
    BY <1>2 DEF ReadMemory, dumpVars, Copies!Fail
  <2> QED
    BY <2>1
<1>3. CASE DumpDone
  <2>1. Copies!Succeed
    BY <1>3 DEF DumpDone, dumpVars, Copies!Succeed
  <2> QED
    BY <2>1
<1>4. CASE FreeDump
  BY <1>4 DEF FreeDump, dumpVars
<1> QED
  BY <1>1, <1>2, <1>3, <1>4, WriteFileSimulated DEF option_DumpOtpAndSeeprom

\* The dumps implement the abstract copy job, for any logs, directories, sizes and
\* faults: they write no file but their own, and "Done!" is said only when every
\* file was written as a whole, except after a loss the code does not notice.
THEOREM CopyRefinement == Spec => CopySpec
<1>1. Init => Copies!Init
  BY DEF Init, InputInit, DumpInit, Copies!Init
<1>2. CopyInv /\ TalkInv /\ EntryInv /\ [Next]_vars => Simulated
  <2> SUFFICES ASSUME CopyInv, TalkInv, EntryInv, [Next]_vars PROVE Simulated
    OBVIOUS
  <2>1. CASE DumpNext
    BY <2>1, LogStepsSimulated, CopyStepsSimulated, OtpStepsSimulated DEF DumpNext, option_DumpSyslogs
  <2>2. CASE ~DumpNext
    BY <2>2, OtherStepsKeep DEF Simulated, Copies!copyVars, dumpVars
  <2> QED
    BY <2>1, <2>2
<1> QED
  BY <1>1, <1>2, PlaceSafety, TalkSafety, CopySafety, PTL DEF Spec, CopySpec, Copies!Spec, Simulated

-----------------------------------------------------------------------------
(* The types of the menu's variables.                                      *)

\* Beside the types: a socket was free where there is one, and what the option
\* polls is a pairing.
ValuesInv ==
    /\ cur_flag \in Flags /\ fsaHandle \in {"open", "none"}
    /\ DumpTypeOK /\ RegionTypeOK /\ SubmitTypeOK /\ SettingsTypeOK /\ PairTypeOK
    /\ Here \in {"submitLookup", "submitConnect", "submitSend", "submitRecv"} => lost < MaxSockets
    /\ Here = "pairPoll" => drh # "idle"

\* The dumps.
LEMMA DumpTypes == ASSUME DumpTypeOK, TodoInv, [Next]_vars PROVE DumpTypeOK'
<1>1. CASE UNCHANGED dumpVars
  BY <1>1 DEF dumpVars, DumpTypeOK
<1>2. CASE DumpNext
  <2> USE DEF DumpTypeOK, Dumped
  <2>0. 0 \in 0 .. MaxBlocks
    BY DumpConstants
  <2>1. CASE MakeLogs \/ OpenLogs \/ ReadLogs \/ CloseLogs
    BY <2>1 DEF MakeLogs, OpenLogs, ReadLogs, CloseLogs, dumpVars
  <2>2. CASE OpenLog \/ CreateCopy \/ AllocateCopy
    BY <2>2, DumpConstants DEF OpenLog, CreateCopy, AllocateCopy, dumpVars
  <2>3. CASE (BreakCopy \/ EndCopy) /\ UNCHANGED <<job, entries, file>>
    <3>1. CASE BreakCopy
      BY <2>0, <2>3, <3>1 DEF BreakCopy
    <3>2. CASE EndCopy
      <4>1. file \in Dumped
        BY <3>2 DEF EndCopy, TodoInv, CopyPlaces, Here, Step
      <4>2. sd' \in [Dumped -> {"none", "part", "whole"}] /\ wrote' \subseteq Dumped
        BY <3>2, <4>1 DEF EndCopy
      <4>3. blocks' = 0 /\ short' = FALSE /\ unnoticed' = unnoticed
        BY <3>2 DEF EndCopy
      <4> QED
        BY <2>0, <2>3, <4>2, <4>3
    <3> QED
      BY <2>3, <3>1, <3>2
  <2>4. ASSUME NEW n \in FSA_ReadFile("readLog", IF blocks > 0 THEN 1 ELSE 0), n > 0, NEW written,
               WroteBlock(n, written), UNCHANGED <<job, entries, file>>
        PROVE  DumpTypeOK'
    <3>1. n \in {-1, 0, 1} /\ (n = 1 => blocks > 0)
      BY <2>4, DumpConstants DEF FSA_ReadFile, _FSA_ReadWriteFile
    <3> QED
      BY <2>4, <3>1, DumpConstants DEF WroteBlock
  <2>5. CASE CopyBlock
    BY <2>3, <2>4, <2>5 DEF CopyBlock
  <2>6. CASE \/ write_file_to_sd("otpWrite", "otp.bin", "seepromRead")
             \/ write_file_to_sd("seepromWrite", "seeprom.bin", "dumpDone")
    <3>1. sd' \in [Dumped -> {"none", "part", "whole"}] /\ wrote' \subseteq Dumped
      <4>1. ASSUME NEW name \in {"otp.bin", "seeprom.bin"}, NEW written, Wrote(name, written)
            PROVE  sd' \in [Dumped -> {"none", "part", "whole"}] /\ wrote' \subseteq Dumped
        BY <4>1 DEF Wrote
      <4>2. ASSUME UNCHANGED <<sd, wrote>>
            PROVE  sd' \in [Dumped -> {"none", "part", "whole"}] /\ wrote' \subseteq Dumped
        BY <4>2
      <4> QED
        BY <2>6, <4>1, <4>2 DEF write_file_to_sd
    <3>2. unnoticed' \subseteq {"readDir", "shortWrite", "zeroWrite"}
      BY <2>6 DEF write_file_to_sd
    <3>3. UNCHANGED <<job, entries, file, blocks, short>>
      BY <2>6 DEF write_file_to_sd
    <3> QED
      BY <3>1, <3>2, <3>3
  <2>7. CASE option_DumpOtpAndSeeprom
    BY <2>6, <2>7 DEF option_DumpOtpAndSeeprom, AllocateDump, ReadMemory, DumpDone, FreeDump, dumpVars
  <2>8. CASE DumpReturns
    <3>1. /\ job' = "none" /\ entries' = {} /\ file' = "end" /\ blocks' = 0 /\ short' = FALSE
          /\ wrote' = {} /\ unnoticed' = {} /\ sd' = sd
      BY <2>8 DEF DumpReturns, NoDump
    <3> QED
      BY <2>0, <3>1
  <2> QED
    BY <1>2, <2>1, <2>2, <2>5, <2>7, <2>8 DEF DumpNext, option_DumpSyslogs, CopyLog
<1> QED
  BY <1>1, <1>2 DEF Next, UserStep, ChooseOption, OthersStep, MenuStep, Boot, Elsewhere, DrawMain,
                    option_Shutdown, OptionStep, vars

\* A product area has a lowest bit.
LEMMA LowestBitIs == ASSUME NEW bits \in SUBSET AreaBits, bits # {} PROVE LowestBit(bits) \in bits
<1> DEFINE less == OpToRel(<, Nat)
<1>1. bits \subseteq Nat
  BY RegionConstants
<1>2. PICK b \in bits : \A c \in bits : <<c, b>> \notin less
  BY <1>1, WFMin, NatLessThanWellFounded
<1>3. ASSUME NEW c \in bits PROVE b <= c
  <2>1. b \in Nat /\ c \in Nat
    BY <1>1
  <2>2. c < b => <<c, b>> \in less
    BY <2>1 DEF OpToRel
  <2> HIDE DEF less
  <2> QED
    BY <1>2, <2>1, <2>2
<1> QED
  BY <1>3 DEF LowestBit

\* The system region.
LEMMA RegionTypes == ASSUME RegionTypeOK, [Next]_vars PROVE RegionTypeOK'
<1> USE RegionConstants DEF RegionTypeOK
<1>1. CASE UNCHANGED regionVars
  BY <1>1 DEF regionVars
<1>2. CASE DrawMain
  BY <1>2 DEF DrawMain
<1>3. CASE ReadRegion
  BY <1>3, LowestBitIs DEF ReadRegion, getRegionInfo, Settings
<1>4. CASE SearchMenu
  <2>1. ASSUME NEW opened \in MenusOpened PROVE Found(opened) \subseteq Regions
    BY <2>1 DEF MenusOpened, Found
  <2> QED
    BY <1>4, <2>1 DEF SearchMenu, Settings
<1>5. CASE FixRegion
  BY <1>5 DEF FixRegion, Settings
<1> QED
  BY <1>1, <1>2, <1>3, <1>4, <1>5
     DEF Next, UserStep, RegionUserStep, ChooseFix, ChooseOption, OthersStep, MenuStep, Boot, Elsewhere,
         option_Shutdown, OptionStep, RegionOption, option_DebugSystemRegion, regionVars, vars

\* The settings.
LEMMA SettingsTypes == ASSUME SettingsTypeOK, EntryInv, [Next]_vars PROVE SettingsTypeOK'
<1> USE SettingsConstants DEF SettingsTypeOK
<1>1. CASE UNCHANGED settingsVars
  BY <1>1 DEF settingsVars
<1>2. CASE DrawMain
  BY <1>2 DEF DrawMain
<1>3. CASE option_SetColdbootTitle
  BY <1>3 DEF option_SetColdbootTitle, DrawColdboot, SetColdboot, drawMenu, EntryInv
<1>4. CASE option_EditParental
  BY <1>4 DEF option_EditParental, DrawParental, DisableParental, ShowParental
<1> QED
  BY <1>1, <1>2, <1>3, <1>4
     DEF Next, UserStep, SettingsUserStep, ChooseColdboot, ChooseParental, ChooseOption, OthersStep, MenuStep,
         Boot, Elsewhere, option_Shutdown, OptionStep, option_SystemInformation, vars

\* The submission, whose sockets are counted.
LEMMA SubmitTypes ==
    ASSUME ValuesInv, SubmitInv, EntryInv, [Next]_vars
    PROVE  /\ SubmitTypeOK'
           /\ (Here \in {"submitLookup", "submitConnect", "submitSend", "submitRecv"} => lost < MaxSockets)'
<1> DEFINE places == {"submitLookup", "submitConnect", "submitSend", "submitRecv"}
<1> USE SubmitConstants DEF SubmitTypeOK, Parts
<1>1. SubmitTypeOK /\ (Here \in places => lost < MaxSockets)
  BY DEF ValuesInv
<1>2. CASE UNCHANGED submitVars /\ (Here' = Here \/ Here' \notin places)
  BY <1>1, <1>2 DEF submitVars
<1>3. CASE DrawMain
  BY <1>1, <1>3 DEF DrawMain, drawMenu, Here
<1>4. CASE ServerStep
  BY <1>1, <1>4 DEF ServerStep, inputVars, Here
<1>5. CASE option_SubmitSystemData
  <2> USE DEF Step, Wait, print_error, Return, Check, Here
  <2>1. CASE AskSubmit \/ Prepare \/ ReadOtpSeeprom \/ Collect \/ Encrypt \/ FreeSubmit \/ NetworkFailed
    BY <1>1, <2>1 DEF AskSubmit, Prepare, ReadOtpSeeprom, read_otp_seeprom, Collect, Encrypt, FreeSubmit,
                      NetworkFailed, drawMenu, submitVars
  <2>2. CASE GetCertificate
    BY <1>1, <2>2 DEF GetCertificate
  <2>3. CASE CreateSocket
    BY <1>1, <2>3 DEF CreateSocket, submitVars
  <2>4. CASE LookUpHost
    BY <1>1, <2>4 DEF LookUpHost, LoseSocket
  <2>5. CASE Connect \/ ReceiveAnswer
    BY <1>1, <2>5 DEF Connect, ReceiveAnswer, submitVars
  <2>6. CASE SendPart
    BY <1>1, <2>6 DEF SendPart, LoseSocket, SubmitInv
  <2>7. CASE initNetconf("submitNet", "submitSocket", "submitNoNet") /\ UNCHANGED submitVars
    BY <1>1, <2>7 DEF initNetconf, submitVars
  <2> QED
    BY <1>5, <2>1, <2>2, <2>3, <2>4, <2>5, <2>6, <2>7 DEF option_SubmitSystemData
<1>6. CASE UserStep
  <2>1. UNCHANGED submitVars
    BY <1>6 DEF UserStep, ChooseOption, ChooseSubmit
  <2> QED
    BY <1>2, <1>6, <2>1, UserFrame, EntriesAre DEF Here, EntryInv
<1>7. CASE DrhStep /\ UNCHANGED submitVars
  BY <1>2, <1>7 DEF DrhStep, inputVars, Here
<1>8. ASSUME NEW elsewhere, elsewhere \cap places = {}, NEW messages, Frame(elsewhere, messages),
             UNCHANGED submitVars
      PROVE  Here' \notin places
  BY <1>8 DEF Frame, Here
<1>9. CASE (Boot \/ Elsewhere \/ option_Shutdown) /\ UNCHANGED submitVars
  BY <1>2, <1>8, <1>9, MenuFrame
<1>10. CASE DumpNext /\ UNCHANGED submitVars
  BY <1>2, <1>8, <1>10, DumpFrame DEF DumpPlaces
<1>11. CASE NetworkNext /\ UNCHANGED submitVars
  BY <1>2, <1>8, <1>11, NetworkFrame DEF NetworkPlaces
<1>12. CASE /\ option_SetColdbootTitle \/ option_EditParental \/ option_SystemInformation
            /\ UNCHANGED submitVars
  BY <1>2, <1>8, <1>12, SettingsFrame DEF SettingsPlaces
<1>13. CASE option_DebugSystemRegion /\ UNCHANGED submitVars
  BY <1>2, <1>8, <1>13, RegionFrame DEF RegionPlaces
<1>14. CASE option_PairDRC /\ UNCHANGED submitVars
  BY <1>2, <1>8, <1>14, PairFrame DEF PairPlaces
<1>15. CASE UNCHANGED vars
  BY <1>2, <1>15 DEF vars, inputVars, Here
<1> QED
  BY <1>3, <1>4, <1>5, <1>6, <1>7, <1>9, <1>10, <1>11, <1>12, <1>13, <1>14, <1>15
     DEF Next, OthersStep, MenuStep, OptionStep, RegionOption, Boot, Elsewhere, option_Shutdown

\* The pairing, which is polled only while DRH is at it or done.
LEMMA PairTypes ==
    ASSUME ValuesInv, PairInv, EntryInv, [Next]_vars
    PROVE  PairTypeOK' /\ (Here = "pairPoll" => drh # "idle")'
<1>0. ASSUME stopRefused \in BOOLEAN, option_PairDRC PROVE stopRefused' \in BOOLEAN
  BY <1>0, Zenon DEF option_PairDRC, CCRCDCSetup, GetPincode, StartPairing, PollPairing, EndPairing,
                     CCRCDCWpsStop, pairVars
<1> USE PairingConstants DEF PairTypeOK, Statuses, Unpaired
<1>1. PairTypeOK /\ (Here = "pairPoll" => drh # "idle")
  BY DEF ValuesInv
<1>2. CASE UNCHANGED pairVars /\ (Here' = Here \/ Here' # "pairPoll")
  BY <1>1, <1>2 DEF pairVars
<1>3. CASE DrawMain
  BY <1>1, <1>3 DEF DrawMain, drawMenu, Here
<1>4. CASE DrhStep
  BY <1>1, <1>4 DEF DrhStep, inputVars, Here
<1>5. CASE option_PairDRC
  <2> USE DEF Step, Wait, print_error, Here, CCRCDCWpsStop
  <2>1. CASE CCRCDCSetup \/ GetPincode
    BY <1>1, <2>1 DEF CCRCDCSetup, GetPincode, pairVars
  <2>2. CASE StartPairing
    BY <1>0, <1>1, <1>5, <2>2 DEF StartPairing
  <2>3. CASE PollPairing
    BY <1>0, <1>1, <1>5, <2>3 DEF PollPairing
  <2>4. CASE EndPairing
    BY <1>1, <2>4 DEF EndPairing
  <2> QED
    BY <1>5, <2>1, <2>2, <2>3, <2>4 DEF option_PairDRC
<1>6. CASE UserStep
  <2>1. UNCHANGED pairVars
    BY <1>6 DEF UserStep, ChooseOption
  <2> QED
    BY <1>2, <1>6, <2>1, UserFrame, EntriesAre DEF Here, EntryInv
<1>7. CASE ServerStep /\ UNCHANGED pairVars
  BY <1>2, <1>7 DEF ServerStep, inputVars, Here
<1>8. ASSUME NEW elsewhere, "pairPoll" \notin elsewhere, NEW messages, Frame(elsewhere, messages),
             UNCHANGED pairVars
      PROVE  Here' # "pairPoll"
  BY <1>8 DEF Frame, Here
<1>9. CASE (Boot \/ Elsewhere \/ option_Shutdown) /\ UNCHANGED pairVars
  BY <1>2, <1>8, <1>9, MenuFrame
<1>10. CASE DumpNext /\ UNCHANGED pairVars
  BY <1>2, <1>8, <1>10, DumpFrame DEF DumpPlaces
<1>11. CASE NetworkNext /\ UNCHANGED pairVars
  BY <1>2, <1>8, <1>11, NetworkFrame DEF NetworkPlaces
<1>12. CASE /\ option_SetColdbootTitle \/ option_EditParental \/ option_SystemInformation
            /\ UNCHANGED pairVars
  BY <1>2, <1>8, <1>12, SettingsFrame DEF SettingsPlaces
<1>13. CASE option_DebugSystemRegion /\ UNCHANGED pairVars
  BY <1>2, <1>8, <1>13, RegionFrame DEF RegionPlaces
<1>14. CASE option_SubmitSystemData /\ UNCHANGED pairVars
  BY <1>2, <1>8, <1>14, SubmitFrame DEF SubmitPlaces
<1>15. CASE UNCHANGED vars
  BY <1>2, <1>15 DEF vars, inputVars, Here
<1> QED
  BY <1>3, <1>4, <1>5, <1>6, <1>7, <1>9, <1>10, <1>11, <1>12, <1>13, <1>14, <1>15
     DEF Next, OthersStep, MenuStep, OptionStep, RegionOption, Boot, Elsewhere, option_Shutdown

\* The flag that is remembered is one of the SMC's, and there is one file system.
LEMMA InputTypes ==
    ASSUME cur_flag \in Flags, fsaHandle \in {"open", "none"}, [Next]_vars
    PROVE  cur_flag' \in Flags /\ fsaHandle' \in {"open", "none"}
<1>1. fsaHandle' \in {"open", "none"}
  BY DEF Next, UserStep, ChooseOption, OthersStep, MenuStep, Boot, Elsewhere, DrawMain, option_Shutdown,
         OptionStep, DumpNext, RegionOption, NetworkNext, vars
<1>2. CASE cur_flag' \in {cur_flag, {}}
  <2>1. {} \in Flags
    BY DEF Flags
  <2> QED
    BY <1>1, <1>2, <2>1
<1>3. CASE UserStep
  BY <1>2, <1>3 DEF UserStep, ChooseOption, Input, waitButtonInput, Navigate, NewFlag, ChooseSubmit,
                    RegionUserStep, ChooseFix, SettingsUserStep, ChooseColdboot, ChooseParental, Chooses
<1>4. CASE OthersStep \/ DrawMain \/ UNCHANGED vars
  BY <1>2, <1>4 DEF OthersStep, DrhStep, ServerStep, inputVars, DrawMain, drawMenu, vars
<1>5. CASE Boot \/ Elsewhere \/ option_Shutdown \/ OptionStep
  BY <1>2, <1>5, MenuFrame, DumpFrame, NetworkFrame, SettingsFrame, RegionFrame, PairFrame, SubmitFrame
     DEF Frame, OptionStep, RegionOption
<1> QED
  BY <1>1, <1>3, <1>4, <1>5 DEF Next, MenuStep

\* The values of the menu's variables, but for the network's.
LEMMA ValuesSafety == Spec => []ValuesInv
<1>1. Init => ValuesInv
  <2> SUFFICES ASSUME Init PROVE ValuesInv
    OBVIOUS
  <2> USE DEF Init
  <2>1. DumpTypeOK
    <3>1. 0 \in 0 .. MaxBlocks
      BY DumpConstants
    <3>2. sd \in [Dumped -> {"none", "part", "whole"}]
      BY DEF DumpInit
    <3> QED
      BY <3>1, <3>2 DEF DumpInit, DumpTypeOK
  <2>2. RegionTypeOK
    BY RegionConstants DEF RegionInit, RegionTypeOK
  <2>3. SubmitTypeOK
    BY SubmitConstants DEF SubmitInit, SubmitTypeOK, Parts
  <2>4. SettingsTypeOK
    BY SettingsConstants DEF SettingsInit, SettingsTypeOK
  <2>5. PairTypeOK
    <3>1. 0 \in -1 .. DRC_PAIRING_TIMEOUT
      BY PairingConstants
    <3> QED
      BY <3>1, Zenon DEF PairInit, PairTypeOK, Statuses
  <2> QED
    BY <2>1, <2>2, <2>3, <2>4, <2>5 DEF InputInit, ValuesInv, Flags, Here
<1>2. ValuesInv /\ TodoInv /\ SubmitInv /\ PairInv /\ EntryInv /\ [Next]_vars => ValuesInv'
  BY DumpTypes, RegionTypes, SettingsTypes, SubmitTypes, PairTypes, InputTypes DEF ValuesInv
<1> QED
  BY <1>1, <1>2, PlaceSafety, CopySafety, SubmitInvariant, PairInvariant, PTL DEF Spec, CopyInv
=============================================================================
