----------------------------- MODULE SubmitData -----------------------------
(***************************************************************************)
(* option_SubmitSystemData (ios_mcp/source/options/SubmitSystemData.c):    *)
(* the data is collected, hashed, encrypted and sent in one HTTP request,  *)
(* and the answer decides what the user is told.                           *)
(***************************************************************************)
EXTENDS Network, Dumps, SystemRegion

CONSTANT MaxSockets    \* the sockets that there are

ASSUME SubmitConstants == MaxSockets \in Nat

VARIABLES
    pdh,     \* the byte of dataBuffer at which the data is put together, -1 before
    sent,    \* the parts of the request that were sent
    server,  \* what the server did with the request: "nothing", "accepted" or "refused"
    lost     \* the sockets that earlier submissions left open

submitVars == <<pdh, sent, server, lost>>

Parts == <<"http_req", "encKey", "pdh">>

DATA_BUFFER_SIZE == 2560
SizeOfPostData   == 608    \* sizeof(struct post_data_hashed)

SubmitInit == pdh = -1 /\ sent = 0 /\ server = "nothing" /\ lost = 0

-----------------------------------------------------------------------------
(* Collecting the data.                                                    *)

\* The menu "Cancel" or "Submit Data".
AskSubmit == drawMenu("submit", "submitMenu", 0, 2) /\ UNCHANGED <<held, told, submitVars>>

ChooseSubmit ==
    /\ Chooses("submitMenu")
    /\ pc' = IF selected = 0 THEN "main" ELSE "submitAlloc"
    /\ UNCHANGED <<selected, proceed, held, told, submitVars>>

\* What read_otp_seeprom could not read is told before the buffer is freed.
ReadOtpSeeprom ==
    /\ read_otp_seeprom("submitRead", "submitCert", "submitFree")
    /\ UNCHANGED <<held, submitVars>>

FreeSubmit == Return("submitFree") /\ Hold({}, {"dataBuffer"}) /\ UNCHANGED submitVars

\* The data is put at (struct post_data_hashed*)dataBuffer + 0x700 and zeroed,
\* then the certificate is fetched.
GetCertificate ==
    /\ Check("submitCert", "submitBsp", Outcomes("certificate"), {}, {"dataBuffer"})
    /\ pdh' = 1792 * SizeOfPostData
    /\ UNCHANGED <<sent, server, lost>>

\* The rest of the data.  The region may be missing; the first MLC device that is
\* registered and answers is taken, and without one the submission ends.
\* Whether the two hashes could be made is not looked at.
Collect == Check("submitCollect", "submitRand", Outcomes("mlcCid"), {}, {"dataBuffer"}) /\ UNCHANGED submitVars

Prepare ==
    /\ \/ Check("submitAlloc", "submitRead", Outcomes("alloc"), {"dataBuffer"}, {})
       \/ Check("submitBsp", "submitCollect", Outcomes("bspVersion"), {}, {"dataBuffer"})
       \/ Check("submitRand", "submitRsa", Outcomes("rand"), {}, {"dataBuffer"})
       \/ Check("submitRsa", "submitKey", Outcomes("rsa"), {}, {"dataBuffer"})
       \/ Check("submitKey", "submitImport", Outcomes("createObject"), {"aesHandle"}, {"dataBuffer"})
       \/ Check("submitImport", "submitEncrypt", Outcomes("importKey"), {}, {"aesHandle", "dataBuffer"})
    /\ UNCHANGED submitVars

\* The key is deleted in any case.
Encrypt ==
    /\ \/ /\ "ok" \in Outcomes("encrypt") /\ Step("submitEncrypt", "submitNet") /\ UNCHANGED told
          /\ Hold({}, {"aesHandle"})
       \/ /\ "failed" \in Outcomes("encrypt") /\ print_error("submitEncrypt", "main", "error")
          /\ Hold({}, {"aesHandle", "dataBuffer"})
    /\ UNCHANGED submitVars

-----------------------------------------------------------------------------
(* Sending it.                                                             *)

\* After initNetconf's own message there is a second one.
NetworkFailed ==
    /\ print_error("submitNoNet", "main", "error") /\ Hold({}, {"dataBuffer"})
    /\ UNCHANGED submitVars

CreateSocket ==
    /\ Check("submitSocket", "submitLookup",
             IF socket_handle = "open" /\ lost < MaxSockets THEN Outcomes("socket") ELSE {"failed"},
             {"socket"}, {"dataBuffer"})
    /\ UNCHANGED submitVars

\* An option that returns without closesocket.
LoseSocket(here) ==
    /\ print_error(here, "main", "error")
    /\ Hold({}, {"dataBuffer", "socket"})
    /\ lost' = lost + 1

LookUpHost ==
    /\ gethostbyname
    /\ \/ dns_entry' /\ Step("submitLookup", "submitConnect") /\ UNCHANGED <<held, told, lost>>
       \/ ~dns_entry' /\ LoseSocket("submitLookup")
    /\ UNCHANGED <<ifmgr_handle, socket_handle, running, cfgFile, parse, pdh, sent, server>>

Connect ==
    /\ Check("submitConnect", "submitSend", Outcomes("connect"), {}, {"socket", "dataBuffer"})
    /\ UNCHANGED submitVars

\* One part after the other; a part that is not sent as a whole ends it.
SendPart ==
    /\ \/ /\ Step("submitSend", IF sent + 1 = Len(Parts) THEN "submitRecv" ELSE "submitSend")
          /\ sent' = sent + 1 /\ UNCHANGED <<held, told, lost>>
       \/ "failed" \in Outcomes("send") /\ LoseSocket("submitSend") /\ UNCHANGED sent
    /\ UNCHANGED <<pdh, server>>

\* The server gets the request as a whole and answers it.
ServerStep ==
    /\ sent = Len(Parts) /\ server = "nothing"
    /\ server' \in {"accepted", "refused"}
    /\ UNCHANGED <<inputVars, pdh, sent, lost>>

\* What one recv returns: the answer, the first bytes of it, or no answer.
Answers ==
    (IF server = "nothing" THEN {} ELSE {server, "cut"}) \cup (IF "recv" \in Faults THEN {"none"} ELSE {})

\* Faulty: ok is still TRUE from the sending when nothing is received.
ReceiveAnswer_KeepOk ==
    /\ \E answer \in Answers :
          told' = IF answer \in {"accepted", "none"} THEN "submitted" ELSE "submitFailed"
    /\ Wait("submitRecv", "main")
    /\ Hold({}, {"socket", "dataBuffer"})
    /\ UNCHANGED submitVars

\* Only an answer whose header can be parsed and whose code is 2xx is a success.
ReceiveAnswer ==
    /\ \E answer \in Answers : told' = IF answer = "accepted" THEN "submitted" ELSE "submitFailed"
    /\ Wait("submitRecv", "main")
    /\ Hold({}, {"socket", "dataBuffer"})
    /\ UNCHANGED submitVars

option_SubmitSystemData ==
    \/ /\ \/ AskSubmit \/ Prepare \/ ReadOtpSeeprom \/ GetCertificate \/ Collect \/ Encrypt \/ FreeSubmit
          \/ NetworkFailed \/ CreateSocket \/ Connect \/ SendPart \/ ReceiveAnswer
       /\ UNCHANGED networkVars
    \/ LookUpHost
    \/ initNetconf("submitNet", "submitSocket", "submitNoNet") /\ UNCHANGED submitVars

-----------------------------------------------------------------------------

SubmitTypeOK ==
    /\ pdh \in {-1, 1792 * SizeOfPostData}
    /\ sent \in 0 .. Len(Parts)
    /\ server \in {"nothing", "accepted", "refused"}
    /\ lost \in 0 .. MaxSockets

\* "System data submitted successfully." is shown only when this submission was
\* sent as a whole and the server accepted it.
SubmitTruthful == told = "submitted" => sent = Len(Parts) /\ server = "accepted"

\* The layout of dataBuffer: "0x700-0x9FF: post_data_hashed".
PostDataInside == pdh # -1 => pdh + SizeOfPostData <= DATA_BUFFER_SIZE
=============================================================================
