------------------------------ MODULE Network ------------------------------
(***************************************************************************)
(* The network as the options use it: netconf.c, initNetconf of menu.c,    *)
(* socketInit and gethostbyname (ios_mcp/source), and the options that     *)
(* load a configuration and start wupserver.  What wupserver does then is  *)
(* the subject of WupServer.                                               *)
(***************************************************************************)
EXTENDS Fsa, NetConf

CONSTANT CfgFiles    \* what network.cfg on the card may be

\* A text: the byte that ends the buffer is not in it.
ASSUME NetworkConstants == CfgFiles \subseteq Seq(STRING \ {"NUL"})

VARIABLES
    ifmgr_handle,   \* "open" or "none"
    socket_handle,  \* "open" or "none"
    dns_entry,      \* has the static entry addresses?
    running,        \* the configuration that was applied last, << >> if there is none
    cfgFile,        \* network.cfg
    parse           \* the loop that parses it

networkVars == <<ifmgr_handle, socket_handle, dns_entry, running, cfgFile, parse>>

NetworkInit ==
    /\ ifmgr_handle = "none" /\ socket_handle = "none"
    /\ dns_entry = FALSE
    /\ running = <<>> /\ cfgFile \in CfgFiles /\ parse = StartOf(<<>>)

\* IOS_Open of a device that is opened once.  0 is no success, but no error
\* either.
Open(handle, call) ==
    IF handle = "open" THEN {"ok"}
    ELSE Outcomes(call) \cup (IF "openZero" \in Faults THEN {"zero"} ELSE {})

netconf_init == Open(ifmgr_handle, "openIfmgr")
socketInit   == Open(socket_handle, "openSocket")

\* The request of netconf_get_if_linkstate may fail, and the state is read from a
\* buffer that was freed already: it may be anything, whatever the link does.
netconf_get_if_linkstate == {"up", "down"}

netconf_get_assigned_address == Outcomes("getAddress")
netconf_set_running          == Outcomes("setRunning")

Opened(handle, answer) == IF answer = "ok" THEN "open" ELSE handle

-----------------------------------------------------------------------------

\* initNetconf says itself what failed and waits for a button; an answer of 0 is a
\* success for its callers nevertheless.
initNetconf(here, there, failed) ==
    /\ \E opened \in netconf_init, links \in [{"wifi", "ethernet"} -> netconf_get_if_linkstate],
          address \in netconf_get_assigned_address, socket \in socketInit :
          LET linked == opened = "ok" /\ \E interface \in DOMAIN links : links[interface] = "up"
              ready  == linked /\ address = "ok" IN
          /\ ifmgr_handle' = Opened(ifmgr_handle, opened)
          /\ socket_handle' = IF ready THEN Opened(socket_handle, socket) ELSE socket_handle
          /\ \/ ready /\ socket = "ok" /\ Step(here, there) /\ UNCHANGED told
             \/ (opened = "zero" \/ (ready /\ socket = "zero")) /\ print_error(here, there, "error")
             \/ ~ready /\ opened # "zero" /\ print_error(here, failed, "error")
             \/ ready /\ socket = "failed" /\ print_error(here, failed, "error")
    /\ UNCHANGED <<held, dns_entry, running, cfgFile, parse>>

\* wupserver runs until a button is pressed.  After an error the option waits a
\* second time.
option_StartWupserver ==
    \/ initNetconf("wup", "wupRuns", "wupFailed")
    \/ Wait("wupRuns", "main") /\ told' = "done" /\ UNCHANGED <<held, networkVars>>
    \/ Wait("wupFailed", "main") /\ UNCHANGED <<held, told, networkVars>>

\* The query is answered, or the static entry keeps what the last one left when
\* there is no memory for a query.
gethostbyname ==
    dns_entry' \in {TRUE} \cup (IF "dns" \in Faults THEN {FALSE} ELSE {})
                          \cup (IF "alloc" \in Faults THEN {dns_entry} ELSE {})

-----------------------------------------------------------------------------
(* Load Network Configuration.                                             *)

OpenIfmgr ==
    /\ \E opened \in netconf_init :
          /\ ifmgr_handle' = Opened(ifmgr_handle, opened)
          /\ Check("netconf", "netconfOpen", {IF opened = "ok" THEN "ok" ELSE "failed"}, {}, {})
    /\ UNCHANGED <<socket_handle, dns_entry, running, cfgFile, parse>>

\* The file is read as a whole, and parsed.
ReadConfig ==
    /\ Check("netconfRead", "netconfApply", Request("readCfg"), {}, {"cfgBuffer"} \cup FSA_CloseFile("cfg"))
    /\ parse' = IF pc' = "netconfApply" THEN StartOf(cfgFile) ELSE parse
    /\ UNCHANGED <<ifmgr_handle, socket_handle, dns_entry, running, cfgFile>>

ParseConfig ==
    /\ ~AtEnd(parse)
    /\ Step("netconfApply", "netconfApply")
    /\ parse' = Turn(parse)
    /\ UNCHANGED <<held, told, ifmgr_handle, socket_handle, dns_entry, running, cfgFile>>

\* The parsed file is applied as a whole, or not at all.
ApplyConfig ==
    /\ AtEnd(parse)
    /\ Check("netconfApply", "netconfDone", netconf_set_running, {}, {"cfgBuffer"} \cup FSA_CloseFile("cfg"))
    /\ running' = IF pc' = "netconfDone" THEN <<Parsed(parse)>> ELSE running
    /\ parse' = StartOf(<<>>)
    /\ UNCHANGED <<ifmgr_handle, socket_handle, dns_entry, cfgFile>>

\* Every error path closes the file and frees the buffer before the message; a
\* success does so after the last wait.
option_LoadNetConf ==
    \/ OpenIfmgr \/ ReadConfig \/ ParseConfig \/ ApplyConfig
    \/ /\ \/ Check("netconfOpen", "netconfStat", FSA_OpenFile("openCfg", TRUE), {"cfg"}, {})
          \/ Check("netconfStat", "netconfAlloc", FSA_StatFile, {}, FSA_CloseFile("cfg"))
          \/ Check("netconfAlloc", "netconfRead", Outcomes("alloc"), {"cfgBuffer"}, FSA_CloseFile("cfg"))
          \/ Wait("netconfDone", "netconfFree") /\ told' = "done" /\ UNCHANGED held
          \/ Return("netconfFree") /\ Hold({}, {"cfgBuffer"} \cup FSA_CloseFile("cfg"))
       /\ UNCHANGED networkVars

NetworkNext == (option_LoadNetConf \/ option_StartWupserver) /\ UNCHANGED fsaHandle

NetworkTypeOK ==
    /\ ifmgr_handle \in {"open", "none"} /\ socket_handle \in {"open", "none"}
    /\ dns_entry \in BOOLEAN
    /\ cfgFile \in CfgFiles
    /\ parse.i \in 1 .. Len(parse.buf) + 1 /\ parse.keyPtr \in 1 .. parse.i /\ parse.valuePtr \in 0 .. parse.i
    /\ \A cfg \in {parse.cfg} \cup {running[j] : j \in DOMAIN running} :
          cfg.wifi \in BOOLEAN /\ cfg.eth \in BOOLEAN /\ cfg.mode \in Modes

\* When the option says "Done!", what was applied is what the file says, whatever
\* the order of its lines, their ends, and keys that are unknown, repeated or have
\* no value.  A value with a "=" in it is cut, which Plain leaves out.
ConfigIsFile ==
    pc = "wait" /\ proceed = "netconfFree" /\ Plain(cfgFile) => running = <<Meaning(cfgFile)>>
=============================================================================
