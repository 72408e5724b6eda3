----------------------------- MODULE InstallWup -----------------------------
(***************************************************************************)
(* option_InstallWUP of ios_mcp/source/options/InstallWUP.c and            *)
(* MCP_InstallTitleAsync of mcp_install.c.  The menu thread asks MCP to    *)
(* install a title and polls asyncPending; MCP's reply comes as a message  *)
(* to a queue whose buffer is on the menu thread's stack, and a callback   *)
(* thread takes it from there, stores the result and frees the request.    *)
(* asyncPending and asyncResult are plain ints shared without a lock.      *)
(*                                                                         *)
(* MCP, the kernel's threads, queues and heap are external.                *)
(***************************************************************************)
EXTENDS Naturals, Sequences

CONSTANTS
    Results,    \* results of an installation
    Unset,      \* asyncResult = -1
    Null,       \* the NULL message
    Reply,      \* the message that carries the MCPAsyncReply
    Faults,     \* calls that may fail: "open", "info", "target", "queue", "create",
                \* "start", "async", "receive"
    Reorder     \* may the build store asyncPending before asyncResult?

ASSUME InstallConstants ==
    /\ "ok" \in Results /\ Unset \notin Results
    /\ Null # Reply
    /\ Reorder \in BOOLEAN

VARIABLES
    pc,             \* where the menu thread is in option_InstallWUP
    mcpHandle,      \* /dev/mcp: "open", "closed"
    queue,          \* callbackQueue: "exists", "none"
    messages,       \* what it holds
    callback,       \* where the callback thread is
    asyncPending,
    asyncResult,
    ioBuf,          \* the request: "none", "used", "freed"
    mcp,            \* what MCP is doing: "idle", "installing", "replied"
    result,         \* what MCP's last installation resulted in
    order           \* of the two stores for the last reply: "kept", "swapped"

vars == <<pc, mcpHandle, queue, messages, callback, asyncPending, asyncResult, ioBuf, mcp, result,
          order>>

shared == <<asyncPending, asyncResult, ioBuf, mcp, result, order>>

Init ==
    /\ pc = "idle"
    /\ mcpHandle = "closed"
    /\ queue = "none"
    /\ messages = <<>>
    /\ callback = "none"
    /\ asyncPending = 0
    /\ asyncResult = Unset
    /\ ioBuf = "none"
    /\ mcp = "idle"
    /\ result = Unset
    /\ order = "kept"

\* The menu thread moves on, or the call at this place fails.
At(here, there) == pc = here /\ pc' = there

Fails(fault, here) == fault \in Faults /\ At(here, "error")

-----------------------------------------------------------------------------
(* Preparing the installation.                                             *)

OpenMcp ==
    /\ \/ At("idle", "info") /\ mcpHandle' = "open"
       \/ Fails("open", "idle") /\ UNCHANGED mcpHandle
    /\ UNCHANGED <<queue, messages, callback, shared>>

GetInfo ==
    /\ \/ At("info", "choose") /\ UNCHANGED mcpHandle
       \/ Fails("info", "info") /\ mcpHandle' = "closed"
    /\ UNCHANGED <<queue, messages, callback, shared>>

\* drawMenu: "Cancel" or "Install".
Choose ==
    /\ \/ At("choose", "idle") /\ mcpHandle' = "closed"
       \/ At("choose", "target") /\ UNCHANGED mcpHandle
    /\ UNCHANGED <<queue, messages, callback, shared>>

\* MCP_InstallSetTargetDevice and MCP_InstallSetTargetUsb
SetTarget ==
    /\ \/ At("target", "queue") /\ UNCHANGED mcpHandle
       \/ Fails("target", "target") /\ mcpHandle' = "closed"
    /\ UNCHANGED <<queue, messages, callback, shared>>

CreateQueue ==
    /\ \/ At("queue", "create") /\ queue' = "exists" /\ UNCHANGED mcpHandle
       \/ Fails("queue", "queue") /\ mcpHandle' = "closed" /\ UNCHANGED queue
    /\ UNCHANGED <<messages, callback, shared>>

CreateThread ==
    /\ \/ At("create", "start") /\ callback' = "created" /\ UNCHANGED <<queue, mcpHandle>>
       \/ /\ Fails("create", "create")
          /\ queue' = "none" /\ mcpHandle' = "closed" /\ UNCHANGED callback
    /\ UNCHANGED <<messages, shared>>

\* A thread that IOS_StartThread refuses is never joined.
StartThread ==
    /\ \/ At("start", "flags") /\ callback' = "receive" /\ UNCHANGED <<queue, mcpHandle>>
       \/ /\ Fails("start", "start")
          /\ queue' = "none" /\ mcpHandle' = "closed" /\ UNCHANGED callback
    /\ UNCHANGED <<messages, shared>>

\* Faulty: the flags keep what the last installation left.
SetFlags_Keep ==
    /\ At("flags", "async")
    /\ asyncPending' = 1
    /\ UNCHANGED <<mcpHandle, queue, messages, callback, asyncResult, ioBuf, mcp, result, order>>

\* asyncResult = -1; asyncPending = 1;
SetFlags ==
    /\ At("flags", "async")
    /\ asyncResult' = Unset
    /\ asyncPending' = 1
    /\ UNCHANGED <<mcpHandle, queue, messages, callback, ioBuf, mcp, result, order>>

\* Faulty: the request of a refused installation is not freed.
InstallTitleAsync_Leak ==
    /\ \/ At("async", "poll") /\ mcp' = "installing" /\ ioBuf' = "used"
       \/ "async" \in Faults /\ At("async", "sendNull") /\ ioBuf' = "used" /\ UNCHANGED mcp
    /\ UNCHANGED <<mcpHandle, queue, messages, callback, asyncPending, asyncResult, result, order>>

\* MCP_InstallTitleAsync allocates the request and frees it when MCP refuses.
InstallTitleAsync ==
    /\ \/ At("async", "poll") /\ mcp' = "installing" /\ ioBuf' = "used"
       \/ "async" \in Faults /\ At("async", "sendNull") /\ ioBuf' = "freed" /\ UNCHANGED mcp
    /\ UNCHANGED <<mcpHandle, queue, messages, callback, asyncPending, asyncResult, result, order>>

\* Faulty: the message carries the error instead.
SendNull_Result ==
    /\ At("sendNull", "joinRefused")
    /\ messages' = Append(messages, "error")
    /\ UNCHANGED <<mcpHandle, queue, callback, shared>>

\* After a refusal the callback thread gets a NULL message.
SendNull ==
    /\ At("sendNull", "joinRefused")
    /\ messages' = Append(messages, Null)
    /\ UNCHANGED <<mcpHandle, queue, callback, shared>>

-----------------------------------------------------------------------------
(* Waiting for the installation, and cleaning up.                          *)

\* Faulty: gives up polling while the installation is under way.
Poll_GiveUp ==
    /\ At("poll", "report")
    /\ UNCHANGED <<mcpHandle, queue, messages, callback, shared>>

\* while (asyncPending) { progress; usleep }
Poll ==
    /\ At("poll", "report")
    /\ asyncPending = 0
    /\ UNCHANGED <<mcpHandle, queue, messages, callback, shared>>

\* asyncResult < 0 is shown as a failure; then the user presses a button.
Report ==
    /\ \/ asyncResult = "ok" /\ At("report", "done")
       \/ asyncResult # "ok" /\ At("report", "failed")
    /\ UNCHANGED <<mcpHandle, queue, messages, callback, shared>>

Dismiss ==
    /\ At("done", "join") \/ At("failed", "join") \/ At("error", "idle")
    /\ UNCHANGED <<mcpHandle, queue, messages, callback, shared>>

\* Faulty: does not wait for the callback thread.
JoinThread_NoWait ==
    /\ At("join", "destroy") \/ At("joinRefused", "destroyRefused")
    /\ callback' = IF callback = "ended" THEN "none" ELSE callback
    /\ UNCHANGED <<mcpHandle, queue, messages, shared>>

\* IOS_JoinThread waits for the callback thread and reaps it.
JoinThread ==
    /\ At("join", "destroy") \/ At("joinRefused", "destroyRefused")
    /\ callback = "ended"
    /\ callback' = "none"
    /\ UNCHANGED <<mcpHandle, queue, messages, shared>>

DestroyQueue ==
    /\ At("destroy", "close") \/ At("destroyRefused", "closeRefused")
    /\ queue' = "none"
    /\ messages' = <<>>
    /\ UNCHANGED <<mcpHandle, callback, shared>>

CloseMcp ==
    /\ At("close", "idle") \/ At("closeRefused", "error")
    /\ mcpHandle' = "closed"
    /\ UNCHANGED <<queue, messages, callback, shared>>

-----------------------------------------------------------------------------
(* MCP and the callback thread.                                            *)

\* MCP is done: it fills in the reply and sends its address.
McpReplies ==
    /\ mcp = "installing"
    /\ mcp' = "replied"
    /\ result' \in Results
    /\ messages' = IF queue = "exists" THEN Append(messages, Reply) ELSE messages
    /\ UNCHANGED <<pc, mcpHandle, queue, callback, asyncPending, asyncResult, ioBuf, order>>

Callback(here, there) == callback = here /\ callback' = there

\* IOS_ReceiveMessage: a reply, NULL, or an error.
Receive ==
    /\ \/ /\ queue = "exists" /\ messages # <<>>
          /\ Callback("receive", IF Head(messages) = Reply THEN "store" ELSE "ended")
          /\ messages' = Tail(messages)
       \/ /\ queue = "none" \/ "receive" \in Faults
          /\ Callback("receive", "ended")
          /\ UNCHANGED messages
    /\ UNCHANGED <<pc, mcpHandle, queue, shared>>

\* Faulty: frees the request before reading the reply in it.
StoreFirst_Freed ==
    /\ Callback("store", "storePending")
    /\ asyncResult' = result
    /\ ioBuf' = "freed"
    /\ order' = "kept"
    /\ UNCHANGED <<pc, mcpHandle, queue, messages, asyncPending, mcp, result>>

\* The first of the two stores: asyncResult, unless the build reorders them.
StoreFirst ==
    /\ \/ /\ Callback("store", "storePending") /\ order' = "kept"
          /\ asyncResult' = result /\ UNCHANGED asyncPending
       \/ /\ Reorder /\ Callback("store", "storeResult") /\ order' = "swapped"
          /\ asyncPending' = 0 /\ UNCHANGED asyncResult
    /\ UNCHANGED <<pc, mcpHandle, queue, messages, ioBuf, mcp, result>>

\* Faulty: asyncPending is cleared only for a success.
StoreSecond_OnlyOk ==
    /\ \/ /\ Callback("storePending", "free")
          /\ asyncPending' = IF result = "ok" THEN 0 ELSE asyncPending
          /\ UNCHANGED asyncResult
       \/ Callback("storeResult", "free") /\ asyncResult' = result /\ UNCHANGED asyncPending
    /\ UNCHANGED <<pc, mcpHandle, queue, messages, ioBuf, mcp, result, order>>

\* The second store.
StoreSecond ==
    /\ \/ Callback("storePending", "free") /\ asyncPending' = 0 /\ UNCHANGED asyncResult
       \/ Callback("storeResult", "free") /\ asyncResult' = result /\ UNCHANGED asyncPending
    /\ UNCHANGED <<pc, mcpHandle, queue, messages, ioBuf, mcp, result, order>>

\* IOS_HeapFree(reply->ioBuf)
FreeRequest ==
    /\ Callback("free", "ended")
    /\ ioBuf' = "freed"
    /\ UNCHANGED <<pc, mcpHandle, queue, messages, asyncPending, asyncResult, mcp, result, order>>

-----------------------------------------------------------------------------

UserStep == OpenMcp \/ Choose \/ Dismiss

MenuStep == GetInfo \/ SetTarget \/ CreateQueue \/ CreateThread \/ StartThread \/ SetFlags
               \/ InstallTitleAsync \/ SendNull \/ Poll \/ Report
               \/ JoinThread \/ DestroyQueue \/ CloseMcp

CallbackStep == Receive \/ StoreFirst \/ StoreSecond \/ FreeRequest

Next == UserStep \/ MenuStep \/ McpReplies \/ CallbackStep

Spec == Init /\ [][Next]_vars

\* MCP answers every request it took, and both threads run.
FairSpec == Spec /\ WF_vars(MenuStep) /\ WF_vars(McpReplies) /\ WF_vars(CallbackStep)

-----------------------------------------------------------------------------

TypeOK ==
    /\ pc \in {"idle", "info", "choose", "target", "queue", "create", "start", "flags", "async",
               "sendNull", "poll", "report", "done", "failed", "join", "destroy", "close",
               "joinRefused", "destroyRefused", "closeRefused", "error"}
    /\ mcpHandle \in {"open", "closed"}
    /\ queue \in {"exists", "none"}
    /\ messages \in Seq({Null, Reply})
    /\ callback \in {"none", "created", "receive", "store", "storePending", "storeResult",
                     "free", "ended"}
    /\ asyncPending \in {0, 1}
    /\ asyncResult \in Results \cup {Unset}
    /\ ioBuf \in {"none", "used", "freed"}
    /\ mcp \in {"idle", "installing", "replied"}
    /\ result \in Results \cup {Unset}
    /\ order \in {"kept", "swapped"}

\* What the screen says is what MCP said: "Done!" only for an installation that
\* succeeded and, unless the stores of the callback thread were reordered,
\* "Failed to install" only for one that failed, also when an earlier
\* installation left other values in asyncResult and asyncPending.
ReportTruthful ==
    /\ pc = "done" => mcp = "replied" /\ result = "ok"
    /\ pc = "failed" => mcp = "replied" /\ (result = "ok" => order = "swapped")

\* The callback thread reads and frees the request only while it is allocated,
\* and the queue, whose buffer is on the menu thread's stack, exists as long as
\* MCP or the callback thread will use it.
RequestOutlivesUsers ==
    /\ callback \in {"store", "storePending", "storeResult", "free"} => ioBuf = "used"
    /\ mcp = "installing" \/ callback = "receive" => queue = "exists"

\* Why these hold: where the request is, and who still has to touch it, at
\* every place of the menu thread.
Before  == {"idle", "info", "choose", "target", "queue", "error", "create", "start"}
Waiting == {"poll", "report", "done", "failed", "join"}
Storing == {"store", "storePending", "storeResult", "free"}

NobodyElse == messages = <<>> /\ mcp # "installing"

InFlight ==
    \/ mcp = "installing" /\ messages = <<>> /\ callback \in {"receive", "ended"} /\ asyncPending = 1
    \/ mcp = "replied" /\ messages = <<Reply>> /\ callback \in {"receive", "ended"} /\ asyncPending = 1
    \/ /\ mcp = "replied" /\ messages = <<>> /\ callback \in Storing
       /\ asyncPending = 0 <=> callback \in {"storeResult", "free"}

RequestInv ==
    /\ pc \in Before => NobodyElse /\ callback \in {"none", "created"}
    /\ pc \in {"flags", "async", "sendNull"} => NobodyElse /\ callback \in {"receive", "ended"}
    /\ pc = "async" => asyncPending = 1
    /\ pc = "joinRefused" =>
          mcp # "installing" /\ messages \in {<<>>, <<Null>>} /\ callback \in {"receive", "ended"}
    /\ pc \in {"destroyRefused", "destroy"} =>
          mcp # "installing" /\ callback = "none"
    /\ pc \in {"closeRefused", "close"} => NobodyElse /\ callback = "none"
    /\ pc \in {"create", "start", "flags", "async", "sendNull", "joinRefused"} \cup Waiting => queue = "exists"
    /\ pc \in Waiting => (InFlight /\ ioBuf = "used")
                            \/ (mcp = "replied" /\ messages = <<>> /\ callback = "ended" /\ asyncPending = 0)
    /\ pc \in Waiting \ {"poll"} => asyncPending = 0

\* Why the report is truthful: once asyncPending is cleared asyncResult is the
\* result or, if the stores were reordered, not yet set.
ResultInv ==
    /\ callback = "storeResult" => order = "swapped"
    /\ pc \in Waiting /\ (callback = "storePending" \/ asyncPending = 0) =>
          asyncResult = result \/ (order = "swapped" /\ asyncResult = Unset)
    /\ pc = "done" => asyncResult = "ok"
    /\ pc = "failed" /\ asyncResult = "ok" => order = "swapped"
    /\ pc \in Waiting \cup {"async"} /\ asyncPending = 1 /\ callback # "storePending" =>
          asyncResult = Unset

\* A callback thread that IOS_StartThread refused is never joined.
Unstarted == {"none"} \cup (IF "start" \in Faults THEN {"created"} ELSE {})

\* Back in the main menu nothing of the installation is left: the thread is
\* reaped, unless IOS_StartThread had refused it, the request freed, the queue
\* destroyed and the handle closed.
NothingLeft ==
    pc = "idle" =>
        /\ callback \in Unstarted
        /\ ioBuf # "used" /\ queue = "none" /\ messages = <<>> /\ mcpHandle = "closed"

\* Why nothing is left: what each place has given back, or not taken yet.
Outside == {"idle", "error"}
Ready   == {"info", "choose", "target", "queue"}

LeftInv ==
    /\ pc \in Outside => mcpHandle = "closed"
    /\ pc \in Outside \cup Ready \cup {"close", "closeRefused"} => queue = "none"
    /\ pc \in Outside \cup Ready \cup {"create"} => callback \in Unstarted
    /\ pc \notin Waiting \/ (callback = "ended" /\ asyncPending = 0) => ioBuf # "used"

\* An installation that MCP took is reported at last, unless IOS_ReceiveMessage
\* failed and the request, still allocated, has nobody left to answer it.
InstallReported ==
    pc = "poll" ~> pc \in {"done", "failed"} \/ (callback = "ended" /\ ioBuf = "used")
=============================================================================
