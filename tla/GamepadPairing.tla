--------------------------- MODULE GamepadPairing ---------------------------
(***************************************************************************)
(* option_PairDRC and the requests of ccr.c (ios_mcp/source).  DRH, which  *)
(* pairs with the GamePad by itself once it was started, is external.      *)
(***************************************************************************)
EXTENDS MenuInput

CONSTANT DRC_PAIRING_TIMEOUT   \* how often the status is polled (30 in the code)

ASSUME PairingConstants == DRC_PAIRING_TIMEOUT \in Nat \ {0}

VARIABLES
    cdc_handle,  \* "open" or "none"
    timeout,     \* what is left of it
    status,      \* the status that was read last, "unset" before
    drh,         \* what DRH is doing
    stopRefused  \* history: the last CCRCDCWpsStop of this pairing has failed

pairVars == <<cdc_handle, timeout, status, drh, stopRefused>>

Statuses == {"searching", "pairing", "paired", "failed"}

Unpaired == {"searching", "pairing"}

PairInit ==
    /\ cdc_handle = "none" /\ timeout = 0 /\ status = "unset" /\ drh = "idle"
    /\ stopRefused = FALSE

\* makeRequest allocates a buffer and sends it to /dev/ccr_cdc.
makeRequest(call) == IF cdc_handle = "open" THEN Outcomes(call) ELSE {"failed"}

CCRSysGetPincode     == makeRequest("macAddress")
CCRSysStartPairing   == makeRequest("wpsStart")
CCRCDCWpsStatus      == makeRequest("wpsStatus")

\* A pairing under way is stopped; one that is over stays what it is.  The option
\* ignores the answer, and DRH goes on when the request has failed.
CCRCDCWpsStop ==
    \/ /\ "ok" \in makeRequest("wpsStop") /\ stopRefused' = FALSE
       /\ drh' = IF drh \in Unpaired THEN "idle" ELSE drh
    \/ /\ "failed" \in makeRequest("wpsStop") /\ stopRefused' = TRUE
       /\ UNCHANGED drh

\* DRH finds the GamePad, pairs with it, or gives up.
DrhStep ==
    /\ drh \in Unpaired
    /\ drh' \in {"pairing", "paired", "failed"} \ {drh}
    /\ UNCHANGED <<inputVars, cdc_handle, timeout, status, stopRefused>>

-----------------------------------------------------------------------------

\* CCRCDCSetup answers 0 even if /dev/ccr_cdc could not be opened.
CCRCDCSetup ==
    /\ Step("pair", "pairPin")
    /\ cdc_handle' \in {"open"} \cup (IF "openCdc" \in Faults THEN {cdc_handle} ELSE {})
    /\ UNCHANGED <<held, told, timeout, status, drh, stopRefused>>

\* The pincode is shown; a GamePad that is connected shows a message and is
\* muted, whatever these requests answer.
GetPincode ==
    /\ \/ "ok" \in CCRSysGetPincode /\ Step("pairPin", "pairStart") /\ UNCHANGED told
       \/ "failed" \in CCRSysGetPincode /\ print_error("pairPin", "main", "pairFailed")
    /\ UNCHANGED <<held, pairVars>>

StartPairing ==
    /\ \/ /\ "ok" \in CCRSysStartPairing /\ Step("pairStart", "pairPoll") /\ UNCHANGED told
          /\ drh' = "searching" /\ stopRefused' = FALSE /\ timeout' = DRC_PAIRING_TIMEOUT
       \/ /\ "failed" \in CCRSysStartPairing
          /\ print_error("pairStart", "main", "pairFailed") /\ UNCHANGED <<drh, stopRefused, timeout>>
    /\ status' = "unset"
    /\ UNCHANGED <<held, cdc_handle>>

\* Faulty: a pairing whose status cannot be read goes on.
PollPairing_NoStop ==
    /\ \/ /\ timeout = 0 /\ timeout' = -1
          /\ Step("pairPoll", "pairEnd") /\ UNCHANGED <<told, status, drh, stopRefused>>
       \/ /\ timeout > 0 /\ timeout' = timeout - 1
          /\ \/ /\ "ok" \in CCRCDCWpsStatus /\ status' = drh
                /\ Step("pairPoll", IF drh \in Unpaired THEN "pairPoll" ELSE "pairEnd")
                /\ UNCHANGED <<told, drh, stopRefused>>
             \/ /\ "failed" \in CCRCDCWpsStatus
                /\ print_error("pairPoll", "main", "pairFailed") /\ UNCHANGED <<status, drh, stopRefused>>
    /\ UNCHANGED <<held, cdc_handle>>

\* while (timeout--): read the status, once a second, until DRH is done.
PollPairing ==
    /\ \/ /\ timeout = 0 /\ timeout' = -1
          /\ Step("pairPoll", "pairEnd") /\ UNCHANGED <<told, status, drh, stopRefused>>
       \/ /\ timeout > 0 /\ timeout' = timeout - 1
          /\ \/ /\ "ok" \in CCRCDCWpsStatus /\ status' = drh
                /\ Step("pairPoll", IF drh \in Unpaired THEN "pairPoll" ELSE "pairEnd")
                /\ UNCHANGED <<told, drh, stopRefused>>
             \/ /\ "failed" \in CCRCDCWpsStatus
                /\ CCRCDCWpsStop
                /\ print_error("pairPoll", "main", "pairFailed") /\ UNCHANGED status
    /\ UNCHANGED <<held, cdc_handle>>

\* Faulty: a pairing that failed is started again.
EndPairing_Retry ==
    /\ \/ /\ status = "paired" /\ timeout > 0
          /\ Wait("pairEnd", "main") /\ told' = "paired" /\ UNCHANGED <<drh, stopRefused>>
       \/ /\ status # "paired" \/ timeout <= 0
          /\ CCRCDCWpsStop
          /\ Step("pairEnd", "pairStart") /\ UNCHANGED told
    /\ UNCHANGED <<held, cdc_handle, timeout, status>>

\* A success counts only if polls are left.
EndPairing ==
    /\ \/ /\ status = "paired" /\ timeout > 0
          /\ Wait("pairEnd", "main") /\ told' = "paired" /\ UNCHANGED <<drh, stopRefused>>
       \/ /\ status # "paired" \/ timeout <= 0
          /\ CCRCDCWpsStop
          /\ print_error("pairEnd", "main", "pairFailed")
    /\ UNCHANGED <<held, cdc_handle, timeout, status>>

option_PairDRC == CCRCDCSetup \/ GetPincode \/ StartPairing \/ PollPairing \/ EndPairing

-----------------------------------------------------------------------------

PairTypeOK ==
    /\ cdc_handle \in {"none", "open"}
    /\ timeout \in -1 .. DRC_PAIRING_TIMEOUT
    /\ status \in Statuses \cup {"unset"}
    /\ drh \in Statuses \cup {"idle"}
    /\ stopRefused \in BOOLEAN

\* "Paired GamePad" is shown only for a GamePad that is paired; whichever way the
\* option ends it has asked DRH to stop searching, and only a request that failed
\* leaves DRH at it; a pairing that was seen to succeed is reported as a failure
\* when the last poll has seen it, as the code has it, and by no earlier one.
PairingIsOver ==
    /\ told = "paired" => drh = "paired"
    /\ pc \in {"main", "wait"} /\ drh \in Unpaired => stopRefused
    /\ told = "pairFailed" /\ status = "paired" => timeout = 0
=============================================================================
