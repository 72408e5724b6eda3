---------------------------- MODULE Boot1Payload ----------------------------
(***************************************************************************)
(* ios_mcp/source/options/LoadBoot1Payload.c: handleBoot1Autoboot counts   *)
(* down and loads boot1now.img unless a button is pressed;                 *)
(* option_LoadBoot1Payload loads boot1.img from the main menu.  Both end   *)
(* in loadBoot1Payload, which checks the version of boot1 and the image,   *)
(* copies the image to MEM1, prepares PRSH and reboots into it.            *)
(*                                                                         *)
(* The clock counts seconds and files are counted in blocks of 0x40 bytes. *)
(* FSA, the SMC, the SEEPROM, IOSC, encryptPrsh and the heap are external. *)
(***************************************************************************)
EXTENDS Integers

CONSTANTS
    Timeout,    \* timeoutSecs
    Images,     \* what a file on the SD card can be
    Eeproms,    \* what the SEEPROM can hold: the two Boot1Params
    Supported,  \* the versions of boot1 with a known bootInfoOffset
    Events,     \* the system event flags that may be set: "eject", "power", "other"
    Faults      \* calls that may fail: "eeprom", "decrypt", "open", "heap", "read", "prsh"

Sources == {"boot1now.img", "boot1.img"}

Headers == {"short", "magic", "encrypted", "good"}

Slots == {0, 1}

Params == [valid : BOOLEAN, version : Nat]

ASSUME Boot1Constants ==
    /\ Timeout \in Nat
    /\ Images \subseteq [kind : {"missing", "directory", "file"}, header : Headers, body : Nat, blocks : Nat]
    /\ Eeproms \subseteq [Slots -> Params]
    /\ Supported \subseteq Nat

VARIABLES
    pc,             \* where the menu thread is
    sd,             \* the two files on the SD card
    eeprom,         \* what the SEEPROM holds
    flag,           \* the system event flags of the SMC
    curFlag,        \* cur_flag
    elapsed,        \* seconds since startTime
    lastDraw,       \* the second that was last drawn
    heldSince,      \* when a button that is held was pressed
    source,         \* the file that is loaded
    boot1Params,
    version,        \* activeVersion
    file,           \* fileHandle: "closed", "open"
    dataBuffer,     \* "free", "allocated"
    copied,         \* blocks of the image in MEM1 from 0x50 on
    prsh,           \* the PRSH area: "stock", "patched", "encrypted"
    vector          \* the branch at 0: "stock", "payload"

vars == <<pc, sd, eeprom, flag, curFlag, elapsed, lastDraw, heldSince, source, boot1Params, version,
          file, dataBuffer, copied, prsh, vector>>

card  == <<sd, eeprom>>
timer == <<flag, curFlag, elapsed, lastDraw, heldSince>>
image == <<file, dataBuffer, copied>>
boot  == <<prsh, vector>>

\* Parameters that were not read, or not decrypted, do not match their CRC.
Garbage == [valid |-> FALSE, version |-> 0]

Pressed(flags) == flags \cap {"eject", "power"} # {}

Flags == SUBSET Events

\* Faulty: cur_flag is not initialized.
CountdownInit_Unset == flag \in Flags /\ curFlag = {"unset"} /\ elapsed = 0 /\ lastDraw = -1 /\ heldSince = 0

\* The variables of the countdown; the SMC may report any flags.
CountdownInit == flag \in Flags /\ curFlag = {} /\ elapsed = 0 /\ lastDraw = -1 /\ heldSince = 0

Init ==
    /\ pc = "start"
    /\ sd \in [Sources -> Images]
    /\ eeprom \in Eeproms
    /\ CountdownInit
    /\ source = "boot1now.img"
    /\ boot1Params = [slot \in Slots |-> Garbage]
    /\ version = 0
    /\ file = "closed"
    /\ dataBuffer = "free"
    /\ copied = 0
    /\ prsh = "stock"
    /\ vector = "stock"

Fails(fault) == fault \in Faults

-----------------------------------------------------------------------------
(* handleBoot1Autoboot.                                                    *)

\* Only a boot1now.img that is a file starts the countdown.
Detect ==
    /\ pc = "start"
    /\ pc' = IF sd["boot1now.img"].kind = "file" THEN "poll" ELSE "menu"
    /\ UNCHANGED <<card, timer, source, boot1Params, version, image, boot>>

\* Faulty: only EJECT cancels.
ReadFlag_EjectOnly ==
    /\ pc = "poll"
    /\ pc' = IF curFlag # flag /\ "eject" \in flag THEN "menu" ELSE "time"
    /\ curFlag' = flag
    /\ UNCHANGED <<card, flag, elapsed, lastDraw, heldSince, source, boot1Params, version, image, boot>>

\* A flag that differs from the last one and has a button in it cancels.
ReadFlag ==
    /\ pc = "poll"
    /\ pc' = IF curFlag # flag /\ Pressed(flag) THEN "menu" ELSE "time"
    /\ curFlag' = IF pc' = "menu" THEN curFlag ELSE flag
    /\ UNCHANGED <<card, flag, elapsed, lastDraw, heldSince, source, boot1Params, version, image, boot>>

\* Faulty: at its end the countdown goes back to polling.
ReadTime_Never ==
    /\ pc = "time"
    /\ pc' = "poll"
    /\ lastDraw' = IF elapsed > Timeout THEN lastDraw ELSE elapsed
    /\ UNCHANGED <<card, flag, curFlag, elapsed, heldSince, source, boot1Params, version, image, boot>>

\* Past the timeout boot1now.img is loaded; before, each second is drawn.
ReadTime ==
    /\ pc = "time"
    /\ pc' = IF elapsed > Timeout THEN "version" ELSE "poll"
    /\ lastDraw' = IF elapsed > Timeout THEN lastDraw ELSE elapsed
    /\ UNCHANGED <<card, flag, curFlag, elapsed, heldSince, source, boot1Params, version, image, boot>>

\* A second passes.  The loop never sleeps: it has seen the one before.
Tick ==
    /\ pc \in {"poll", "time"} /\ elapsed = lastDraw
    /\ elapsed' = elapsed + 1
    /\ UNCHANGED <<pc, card, flag, curFlag, lastDraw, heldSince, source, boot1Params, version, image, boot>>

\* The user presses or releases buttons.
ChangeFlag ==
    /\ pc \in {"poll", "time"}
    /\ flag' \in Flags
    /\ heldSince' = IF Pressed(flag) THEN heldSince ELSE elapsed
    /\ UNCHANGED <<pc, card, curFlag, elapsed, lastDraw, source, boot1Params, version, image, boot>>

-----------------------------------------------------------------------------
(* loadBoot1Payload.                                                       *)

\* option_LoadBoot1Payload: "Load".  "Back" changes nothing.
ChooseLoad ==
    /\ pc = "menu"
    /\ pc' = "version"
    /\ source' = "boot1.img"
    /\ UNCHANGED <<card, timer, boot1Params, version, image, boot>>

\* readBoot1Params reads one slot after the other and then decrypts both in
\* place; a slot that was not read to its end keeps what it held or is garbage.
ReadParams(params) ==
    \/ params = eeprom
    \/ /\ Fails("decrypt")
       /\ \A slot \in Slots : params[slot] \in {eeprom[slot], Garbage}
    \/ /\ Fails("eeprom")
       /\ \/ params[0] \in {boot1Params[0], Garbage} /\ params[1] = boot1Params[1]
          \/ params[0] = Garbage /\ params[1] \in {boot1Params[1], Garbage}

\* Faulty: the older version is the active one.
ActiveSlot_Older(params) ==
    LET valid == {slot \in Slots : params[slot].valid}
    IN  IF valid = Slots THEN IF params[1].version < params[0].version THEN 1 ELSE 0
        ELSE IF valid = {} THEN -1
        ELSE CHOOSE slot \in valid : TRUE

\* determineActiveBoot1Slot
ActiveSlot(params) ==
    LET valid == {slot \in Slots : params[slot].valid}
    IN  IF valid = Slots THEN IF params[1].version > params[0].version THEN 1 ELSE 0
        ELSE IF valid = {} THEN -1
        ELSE CHOOSE slot \in valid : TRUE

\* Faulty: tries again until there is an active slot.
CheckVersion_Retry ==
    /\ pc = "version"
    /\ \E params \in [Slots -> {eeprom[0], eeprom[1], boot1Params[0], boot1Params[1], Garbage}] :
          /\ ReadParams(params)
          /\ boot1Params' = params
          /\ \/ /\ ActiveSlot(params) = -1
                /\ pc' = "version" /\ UNCHANGED version
             \/ /\ ActiveSlot(params) # -1
                /\ version' = params[ActiveSlot(params)].version
                /\ pc' = IF version' \in Supported THEN "open" ELSE "failed"
    /\ UNCHANGED <<card, timer, source, image, boot>>

\* The result of readBoot1Params is never 0, so that an error goes unnoticed.
CheckVersion ==
    /\ pc = "version"
    /\ \E params \in [Slots -> {eeprom[0], eeprom[1], boot1Params[0], boot1Params[1], Garbage}] :
          /\ ReadParams(params)
          /\ boot1Params' = params
          /\ \/ /\ ActiveSlot(params) = -1
                /\ pc' = "failed" /\ UNCHANGED version
             \/ /\ ActiveSlot(params) # -1
                /\ version' = params[ActiveSlot(params)].version
                /\ pc' = IF version' \in Supported THEN "open" ELSE "failed"
    /\ UNCHANGED <<card, timer, source, image, boot>>

\* FSA_OpenFile and IOS_HeapAllocAligned
OpenImage ==
    /\ pc = "open"
    /\ \/ /\ Fails("open") \/ sd[source].kind # "file"
          /\ pc' = "failed" /\ UNCHANGED <<file, dataBuffer>>
       \/ /\ Fails("heap") /\ sd[source].kind = "file"
          /\ pc' = "failedOpen" /\ file' = "open" /\ UNCHANGED dataBuffer
       \/ /\ sd[source].kind = "file"
          /\ pc' = "header" /\ file' = "open" /\ dataBuffer' = "allocated"
    /\ UNCHANGED <<card, timer, source, boot1Params, version, copied, boot>>

\* Faulty: an encrypted image is loaded.
CheckHeader_AnyImage ==
    /\ pc = "header"
    /\ \/ /\ Fails("read") \/ sd[source].header \in {"short", "magic"}
          /\ pc' = "failedHeader" /\ UNCHANGED copied
       \/ /\ sd[source].header \notin {"short", "magic"}
          /\ pc' = "body" /\ copied' = 0
    /\ UNCHANGED <<card, timer, source, boot1Params, version, file, dataBuffer, boot>>

\* The ancast header: 0x200 bytes, its magic and the unencrypted flag.
CheckHeader ==
    /\ pc = "header"
    /\ \/ /\ Fails("read") \/ sd[source].header # "good"
          /\ pc' = "failedHeader" /\ UNCHANGED copied
       \/ /\ sd[source].header = "good"
          /\ pc' = "body" /\ copied' = 0
    /\ UNCHANGED <<card, timer, source, boot1Params, version, file, dataBuffer, boot>>

\* Each block goes to MEM1.
CopyBlock ==
    /\ pc = "body" /\ copied < sd[source].blocks
    /\ copied' = copied + 1
    /\ UNCHANGED <<pc, card, timer, source, boot1Params, version, file, dataBuffer, boot>>

\* The end of the file or an error; only then is the size compared.
EndCopy ==
    /\ pc = "body"
    /\ \/ Fails("read") /\ pc' = "failed"
       \/ /\ copied = sd[source].blocks
          /\ pc' = IF copied < sd[source].body THEN "failed" ELSE "prsh"
    /\ file' = "closed"
    /\ dataBuffer' = "free"
    /\ UNCHANGED <<card, timer, source, boot1Params, version, copied, boot>>

\* preparePrshHax patches PRSH before it allocates the IV and encrypts.
PreparePrshHax ==
    /\ pc = "prsh"
    /\ \/ /\ Fails("heap") \/ Fails("prsh")
          /\ pc' = "failed" /\ prsh' = "patched"
       \/ pc' = "reboot" /\ prsh' = "encrypted"
    /\ UNCHANGED <<card, timer, source, boot1Params, version, image, vector>>

\* The branch to 0x50, IOS_Shutdown(1) and the endless loop.
Reboot ==
    /\ pc = "reboot"
    /\ pc' = "booted"
    /\ vector' = "payload"
    /\ UNCHANGED <<card, timer, source, boot1Params, version, image, prsh>>

\* Faulty: the image stays open after an error in its header.
Dismiss_KeepOpen ==
    /\ pc \in {"failed", "failedOpen", "failedHeader"}
    /\ pc' = "menu"
    /\ dataBuffer' = IF pc = "failedHeader" THEN "free" ELSE dataBuffer
    /\ file' = IF pc = "failedOpen" THEN "closed" ELSE file
    /\ UNCHANGED <<card, timer, source, boot1Params, version, copied, boot>>

\* waitButtonInput, and then what this error has to give back.
Dismiss ==
    /\ pc \in {"failed", "failedOpen", "failedHeader"}
    /\ pc' = "menu"
    /\ dataBuffer' = IF pc = "failedHeader" THEN "free" ELSE dataBuffer
    /\ file' = IF pc \in {"failedOpen", "failedHeader"} THEN "closed" ELSE file
    /\ UNCHANGED <<card, timer, source, boot1Params, version, copied, boot>>

-----------------------------------------------------------------------------

LoadStep == CheckVersion \/ OpenImage \/ CheckHeader \/ CopyBlock \/ EndCopy \/ PreparePrshHax \/ Reboot

MenuStep == Detect \/ ReadFlag \/ ReadTime \/ LoadStep

UserStep == ChooseLoad \/ Dismiss \/ ChangeFlag

Next == MenuStep \/ UserStep \/ Tick

Spec == Init /\ [][Next]_vars

\* The menu thread runs and time passes.
FairSpec == Spec /\ WF_vars(MenuStep) /\ WF_vars(Tick)

-----------------------------------------------------------------------------

Countdown == {"poll", "time"}

Loading == {"version", "open", "header", "body", "prsh", "reboot"}

TypeOK ==
    /\ pc \in {"start", "menu", "failed", "failedOpen", "failedHeader", "booted"} \cup Countdown \cup Loading
    /\ sd \in [Sources -> Images]
    /\ eeprom \in Eeproms
    /\ flag \in Flags /\ curFlag \in Flags
    /\ elapsed \in Nat /\ heldSince \in Nat
    /\ lastDraw \in Nat \cup {-1}
    /\ source \in Sources
    /\ boot1Params \in [Slots -> Params]
    /\ version \in Nat
    /\ file \in {"closed", "open"}
    /\ dataBuffer \in {"free", "allocated"}
    /\ copied \in Nat
    /\ prsh \in {"stock", "patched", "encrypted"}
    /\ vector \in {"stock", "payload"}

\* A button that is held while boot1now.img counts down cancels the autoboot
\* within two ticks of the clock, whichever button it is and whatever other flags change: it
\* is not held longer when the payload is loaded.
HeldButtonCancels ==
    pc \in Countdown \/ (pc \in Loading /\ source = "boot1now.img") =>
        (Pressed(flag) => elapsed - heldSince <= 2)

\* The console reboots into the payload only when the whole image the user
\* chose, with a good header and at least as long as it says, is in MEM1 and
\* PRSH is patched and encrypted, after any number of failed attempts.
BootWhole ==
    vector = "payload" \/ pc = "reboot" =>
        /\ sd[source].kind = "file" /\ sd[source].header = "good"
        /\ copied = sd[source].blocks /\ copied >= sd[source].body
        /\ prsh = "encrypted"
        /\ version \in Supported

\* The version is the newest of the valid ones in the SEEPROM.
ActiveVersion ==
    \E slot \in Slots :
        /\ eeprom[slot].valid /\ version = eeprom[slot].version
        /\ \A other \in Slots : eeprom[other].valid => eeprom[other].version <= version

Offset == {"open", "header", "body", "prsh", "reboot", "booted"}

\* The version that the offset into boot1 is chosen by is that of the boot1 that
\* will run, after any attempts before, if the SEEPROM was read and decrypted.
VersionIsActive == pc \in Offset /\ boot1Params = eeprom => ActiveVersion

\* "Failed to read boot1 parameters": without the parameters nothing is loaded.
ReadFailureStops == pc \in Offset => ActiveVersion

\* Back in the main menu neither the file nor the buffer is held, whichever
\* step failed, and no step of a load holds more than its own.
NothingHeld ==
    /\ pc \in {"start", "menu", "failed", "version", "open", "prsh", "reboot"} \cup Countdown =>
          file = "closed" /\ dataBuffer = "free"
    /\ pc = "failedOpen" => file = "open" /\ dataBuffer = "free"
    /\ pc \in {"failedHeader", "header", "body"} => file = "open" /\ dataBuffer = "allocated"

\* Why BootWhole holds: what each place of loadBoot1Payload already knows.
BootInv ==
    /\ pc \in {"open", "header", "body", "prsh", "reboot", "booted"} => version \in Supported
    /\ pc \in {"header", "body", "prsh", "reboot", "booted"} => sd[source].kind = "file"
    /\ pc \in {"body", "prsh", "reboot", "booted"} => sd[source].header = "good"
    /\ pc = "body" => copied <= sd[source].blocks
    /\ pc \in {"prsh", "reboot", "booted"} =>
          copied = sd[source].blocks /\ copied >= sd[source].body
    /\ pc \in {"reboot", "booted"} => prsh = "encrypted"
    /\ vector = "payload" => pc = "booted"

\* "it gets loaded automatically ... after a 5 second timeout".
AutobootOnTime == pc \in Countdown => elapsed <= Timeout

\* The countdown ends, in the menu or with the payload.
CountdownEnds == pc \in Countdown ~> pc \notin Countdown

\* A load that began reboots or tells the user why not.
LoadEnds == pc = "version" ~> pc \in {"failed", "failedOpen", "failedHeader", "booted"}
=============================================================================
