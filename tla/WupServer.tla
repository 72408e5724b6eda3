----------------------------- MODULE WupServer -----------------------------
(***************************************************************************)
(* The debug server of ios_mcp/source/wupserver.c and the menu option that *)
(* starts and stops it.  Two kinds of process share serverRunning,         *)
(* serverSocket and threadId without a lock: the menu thread, which runs   *)
(* wupserver_init and wupserver_deinit, and the server threads that        *)
(* wupserver_init creates, every one of them on the same threadStack.      *)
(* The "kill" command runs wupserver_deinit in a server thread.            *)
(*                                                                         *)
(* A step is the code between two accesses to shared state or two system   *)
(* calls.  The kernel's threads and the socket library are external:       *)
(* thread identifiers and descriptors come from the finite sets Threads    *)
(* and Fds and return there when they are joined or closed.                *)
(***************************************************************************)
EXTENDS Naturals

CONSTANTS
    Threads,     \* identifiers IOS_CreateThread can return
    Menu,        \* the menu thread
    Fds,         \* descriptors socket() and accept() can return
    Nil,         \* a negative handle: no descriptor, no thread
    Commands,    \* "serve": commands 0, 1, 2, 4, 5 and unknown ones; "kill": 3
    Faults,      \* calls that may fail: "netconf", "create", "start", "bind", "listen", "accept"
    Preemptive,  \* may a new thread run before IOS_StartThread's caller blocks?
    Patient      \* does the user start the server again only when its old threads have ended?

ASSUME WupConstants ==
    /\ Menu \notin Threads \cup Fds
    /\ Nil \notin Threads \cup Fds \cup {Menu}
    /\ Threads \cap Fds = {}
    /\ Commands \subseteq {"serve", "kill"}
    /\ Preemptive \in BOOLEAN
    /\ Patient \in BOOLEAN

VARIABLES
    pc,             \* where each process is
    serverRunning,  \* the static flags and handles of wupserver.c
    serverSocket,
    threadId,
    arg,            \* the handle a process passes to the system call it is in
    sockets,        \* what each descriptor is
    csock,          \* the client descriptor of each server thread
    late            \* history: commands handled since serverRunning was cleared (0, 1, 2 = more)

vars == <<pc, serverRunning, serverSocket, threadId, arg, sockets, csock, late>>

Procs == Threads \cup {Menu}

DeinitPCs == {"deinit", "clear", "load", "shutdown", "join", "joining"}
MenuPCs   == {"idle", "error", "init", "create", "start", "run", "wait"}
ThreadPCs == {"free", "created", "check", "socket", "bind", "listen", "loop", "accept",
              "hloop", "recv", "respond", "hclose", "close", "sleep", "exited"}

SocketStates == {"closed", "fresh", "bound", "listening", "shut", "client"}

\* p moves from one place of its code to the next.
Jump(p, here, there) == pc[p] = here /\ pc' = [pc EXCEPT ![p] = there]

\* A closed handle is left alone: closesocket(-1) only fails.
Closed(f) == [g \in Fds |-> IF g = f THEN "closed" ELSE sockets[g]]

FreeFds == {f \in Fds : sockets[f] = "closed"}

\* A thread is on the shared stack from its creation until it has ended.
OnStack(t) == pc[t] \notin {"free", "exited"}

Init ==
    /\ pc = [p \in Procs |-> IF p = Menu THEN "idle" ELSE "free"]
    /\ serverRunning = FALSE
    /\ serverSocket = Nil
    /\ threadId = Nil
    /\ arg = [p \in Procs |-> Nil]
    /\ sockets = [f \in Fds |-> "closed"]
    /\ csock = [t \in Threads |-> Nil]
    /\ late = 0

-----------------------------------------------------------------------------
(* The menu thread: option_StartWupserver and wupserver_init.              *)

\* The option is selected; initNetconf succeeds or shows its error.
OpenOption ==
    /\ Patient => \A t \in Threads : ~OnStack(t)
    /\ \/ Jump(Menu, "idle", "init")
       \/ "netconf" \in Faults /\ Jump(Menu, "idle", "error")
    /\ UNCHANGED <<serverRunning, serverSocket, threadId, arg, sockets, csock, late>>

\* waitButtonInput returns after a netconf error.
DismissError ==
    /\ Jump(Menu, "error", "idle")
    /\ UNCHANGED <<serverRunning, serverSocket, threadId, arg, sockets, csock, late>>

\* Faulty: resets the socket from the wrong variable.
InitServer_WrongReset ==
    /\ Jump(Menu, "init", IF serverRunning THEN "wait" ELSE "create")
    /\ serverSocket' = IF serverRunning THEN serverSocket ELSE threadId
    /\ UNCHANGED <<serverRunning, threadId, arg, sockets, csock, late>>

\* wupserver_init tests the flag and forgets the old socket.
InitServer ==
    /\ Jump(Menu, "init", IF serverRunning THEN "wait" ELSE "create")
    /\ serverSocket' = IF serverRunning THEN serverSocket ELSE Nil
    /\ UNCHANGED <<serverRunning, threadId, arg, sockets, csock, late>>

\* IOS_CreateThread(wupserver_thread, ..., threadStack, ...)
CreateThread ==
    /\ pc[Menu] = "create"
    /\ \/ \E t \in Threads :
            /\ pc[t] = "free"
            /\ threadId' = t
            /\ pc' = [pc EXCEPT ![t] = "created", ![Menu] = "start"]
       \/ /\ "create" \in Faults \/ \A t \in Threads : pc[t] # "free"
          /\ threadId' = Nil
          /\ pc' = [pc EXCEPT ![Menu] = "wait"]
    /\ UNCHANGED <<serverRunning, serverSocket, arg, sockets, csock, late>>

\* IOS_StartThread(threadId); its result is ignored.
StartThread ==
    /\ pc[Menu] = "start"
    /\ \/ pc' = [pc EXCEPT ![threadId] = "check", ![Menu] = "run"]
       \/ "start" \in Faults /\ pc' = [pc EXCEPT ![Menu] = "run"]
    /\ UNCHANGED <<serverRunning, serverSocket, threadId, arg, sockets, csock, late>>

\* serverRunning = 1, after the thread was started.
SetRunning ==
    /\ Jump(Menu, "run", "wait")
    /\ serverRunning' = TRUE
    /\ late' = 0
    /\ UNCHANGED <<serverSocket, threadId, arg, sockets, csock>>

\* EJECT or POWER ends waitButtonInput; the option calls wupserver_deinit.
PressStop ==
    /\ Jump(Menu, "wait", "deinit")
    /\ UNCHANGED <<serverRunning, serverSocket, threadId, arg, sockets, csock, late>>

-----------------------------------------------------------------------------
(* wupserver_deinit, run by the menu thread or, for "kill", by a server    *)
(* thread.                                                                 *)

\* Faulty: "kill" returns to the menu's code.
Return_ToMenu(p) == "idle"

Return(p) == IF p = Menu THEN "idle" ELSE "respond"

\* Faulty: serverRunning is not cleared.
DeinitTest_KeepFlag(p) ==
    /\ Jump(p, "deinit", IF serverRunning THEN "load" ELSE Return(p))
    /\ UNCHANGED <<serverRunning, serverSocket, threadId, arg, sockets, csock, late>>

DeinitTest(p) ==
    /\ Jump(p, "deinit", IF serverRunning THEN "clear" ELSE Return(p))
    /\ UNCHANGED <<serverRunning, serverSocket, threadId, arg, sockets, csock, late>>

DeinitClear(p) ==
    /\ Jump(p, "clear", "load")
    /\ serverRunning' = FALSE
    /\ UNCHANGED <<serverSocket, threadId, arg, sockets, csock, late>>

DeinitLoad(p) ==
    /\ Jump(p, "load", IF serverSocket # Nil THEN "shutdown" ELSE "join")
    /\ arg' = [arg EXCEPT ![p] = serverSocket]
    /\ UNCHANGED <<serverRunning, serverSocket, threadId, sockets, csock, late>>

\* Faulty: the listener is not shut down.
DeinitShutdown_Skip(p) ==
    /\ Jump(p, "shutdown", "join")
    /\ UNCHANGED <<serverRunning, serverSocket, threadId, arg, sockets, csock, late>>

\* shutdown wakes whoever waits on a listening or connected socket.
DeinitShutdown(p) ==
    /\ Jump(p, "shutdown", "join")
    /\ sockets' = [f \in Fds |->
            IF f = arg[p] /\ sockets[f] \in {"listening", "client"} THEN "shut" ELSE sockets[f]]
    /\ UNCHANGED <<serverRunning, serverSocket, threadId, arg, csock, late>>

DeinitJoin(p) ==
    /\ Jump(p, "join", "joining")
    /\ arg' = [arg EXCEPT ![p] = threadId]
    /\ UNCHANGED <<serverRunning, serverSocket, threadId, sockets, csock, late>>

\* Faulty: does not wait for the thread.
JoinReturns_NoWait(p) ==
    /\ Jump(p, "joining", Return(p))
    /\ UNCHANGED <<serverRunning, serverSocket, threadId, arg, sockets, csock, late>>

\* IOS_JoinThread returns when the thread has ended, which it then reaps, or
\* fails at once when the thread is the caller or was reaped before.
JoinReturns(p) ==
    /\ pc[p] = "joining"
    /\ arg[p] \in Threads \ {p} => pc[arg[p]] \in {"exited", "free"}
    /\ pc' = [q \in Procs |-> CASE q = p -> Return(p)
                               [] q = arg[p] /\ q # p -> "free"
                               [] OTHER -> pc[q]]
    /\ UNCHANGED <<serverRunning, serverSocket, threadId, arg, sockets, csock, late>>

Deinit(p) == DeinitTest(p) \/ DeinitClear(p) \/ DeinitLoad(p) \/ DeinitShutdown(p)
                \/ DeinitJoin(p) \/ JoinReturns(p)

-----------------------------------------------------------------------------
(* A server thread: wupserver_thread and serverListenClients.              *)

\* Faulty: loops without testing the flag.
Check_NoTest(t) ==
    /\ Jump(t, "check", "socket")
    /\ UNCHANGED <<serverRunning, serverSocket, threadId, arg, sockets, csock, late>>

\* The test at the head of wupserver_thread's loop.
Check(t) ==
    /\ Jump(t, "check", IF serverRunning THEN "socket" ELSE "exited")
    /\ UNCHANGED <<serverRunning, serverSocket, threadId, arg, sockets, csock, late>>

\* serverSocket = socket(...); without a descriptor it is negative.
Socket(t) ==
    /\ Jump(t, "socket", "bind")
    /\ \/ \E f \in FreeFds :
            /\ serverSocket' = f
            /\ sockets' = [sockets EXCEPT ![f] = "fresh"]
       \/ FreeFds = {} /\ serverSocket' = Nil /\ UNCHANGED sockets
    /\ UNCHANGED <<serverRunning, threadId, arg, csock, late>>

\* The cleanup of every way out of serverListenClients.
Abandon(t, here) ==
    /\ Jump(t, here, "sleep")
    /\ sockets' = Closed(serverSocket)
    /\ serverSocket' = Nil

\* One socket at a time can have port 1337.
PortFree == \A f \in Fds : sockets[f] \notin {"bound", "listening", "shut"}

CanBind == serverSocket # Nil /\ sockets[serverSocket] = "fresh" /\ PortFree

Bind(t) ==
    /\ \/ /\ Jump(t, "bind", "listen")
          /\ CanBind
          /\ sockets' = [sockets EXCEPT ![serverSocket] = "bound"]
          /\ UNCHANGED serverSocket
       \/ ("bind" \in Faults \/ ~CanBind) /\ Abandon(t, "bind")
    /\ UNCHANGED <<serverRunning, threadId, arg, csock, late>>

CanListen == serverSocket # Nil /\ sockets[serverSocket] = "bound"

Listen(t) ==
    /\ \/ /\ Jump(t, "listen", "loop")
          /\ CanListen
          /\ sockets' = [sockets EXCEPT ![serverSocket] = "listening"]
          /\ UNCHANGED serverSocket
       \/ ("listen" \in Faults \/ ~CanListen) /\ Abandon(t, "listen")
    /\ UNCHANGED <<serverRunning, threadId, arg, csock, late>>

\* while (serverRunning) accept(serverSocket, ...): the test and the call.
AcceptLoop(t) ==
    /\ Jump(t, "loop", IF serverRunning THEN "accept" ELSE "close")
    /\ arg' = [arg EXCEPT ![t] = IF serverRunning THEN serverSocket ELSE @]
    /\ UNCHANGED <<serverRunning, serverSocket, threadId, sockets, csock, late>>

Accepting(t) == pc[t] = "accept" /\ arg[t] # Nil /\ sockets[arg[t]] = "listening"

\* A client connects.
Accept(t) ==
    /\ Jump(t, "accept", "hloop")
    /\ Accepting(t)
    /\ \E f \in FreeFds :
         /\ csock' = [csock EXCEPT ![t] = f]
         /\ sockets' = [sockets EXCEPT ![f] = "client"]
    /\ UNCHANGED <<serverRunning, serverSocket, threadId, arg, late>>

AcceptFails(t) ==
    /\ Jump(t, "accept", "close")
    /\ ~Accepting(t) \/ "accept" \in Faults \/ FreeFds = {}
    /\ UNCHANGED <<serverRunning, serverSocket, threadId, arg, sockets, csock, late>>

CloseListener(t) ==
    /\ Abandon(t, "close")
    /\ UNCHANGED <<serverRunning, threadId, arg, csock, late>>

\* usleep(1000 * 1000) between two rounds.
Sleep(t) ==
    /\ Jump(t, "sleep", "check")
    /\ UNCHANGED <<serverRunning, serverSocket, threadId, arg, sockets, csock, late>>

-----------------------------------------------------------------------------
(* A server thread: serverClientHandler and serverCommandHandler.          *)

\* Faulty: serves the client without testing the flag.
HandlerLoop_NoTest(t) ==
    /\ Jump(t, "hloop", "recv")
    /\ UNCHANGED <<serverRunning, serverSocket, threadId, arg, sockets, csock, late>>

HandlerLoop(t) ==
    /\ Jump(t, "hloop", IF serverRunning THEN "recv" ELSE "hclose")
    /\ UNCHANGED <<serverRunning, serverSocket, threadId, arg, sockets, csock, late>>

\* recv returns a command and serverCommandHandler dispatches it.
Recv(t) ==
    /\ pc[t] = "recv"
    /\ sockets[csock[t]] = "client"
    /\ \E c \in Commands : Jump(t, "recv", IF c = "kill" THEN "deinit" ELSE "respond")
    /\ late' = IF serverRunning \/ late = 2 THEN late ELSE late + 1
    /\ UNCHANGED <<serverRunning, serverSocket, threadId, arg, sockets, csock>>

\* Faulty: goes on receiving from a client that is gone.
RecvEnds_Continue(t) ==
    /\ Jump(t, "recv", "hloop")
    /\ UNCHANGED <<serverRunning, serverSocket, threadId, arg, sockets, csock, late>>

\* recv returns 0 or an error: the client is gone.
RecvEnds(t) ==
    /\ Jump(t, "recv", "hclose")
    /\ UNCHANGED <<serverRunning, serverSocket, threadId, arg, sockets, csock, late>>

\* send returns once the client has taken the response.
Respond(t) ==
    /\ Jump(t, "respond", "hloop")
    /\ UNCHANGED <<serverRunning, serverSocket, threadId, arg, sockets, csock, late>>

\* Faulty: the client's descriptor is not closed.
CloseClient_Leak(t) ==
    /\ Jump(t, "hclose", "loop")
    /\ csock' = [csock EXCEPT ![t] = Nil]
    /\ UNCHANGED <<serverRunning, serverSocket, threadId, arg, sockets, late>>

\* Faulty: the thread ends with its first client.
CloseClient_End(t) ==
    /\ Jump(t, "hclose", "exited")
    /\ sockets' = Closed(csock[t])
    /\ csock' = [csock EXCEPT ![t] = Nil]
    /\ UNCHANGED <<serverRunning, serverSocket, threadId, arg, late>>

CloseClient(t) ==
    /\ Jump(t, "hclose", "loop")
    /\ sockets' = Closed(csock[t])
    /\ csock' = [csock EXCEPT ![t] = Nil]
    /\ UNCHANGED <<serverRunning, serverSocket, threadId, arg, late>>

-----------------------------------------------------------------------------

\* What the user decides, what the menu does by itself, what a client decides
\* and what a server thread does by itself.
UserStep == OpenOption \/ DismissError \/ PressStop

MenuStep == InitServer \/ CreateThread \/ StartThread \/ SetRunning \/ Deinit(Menu)

ClientStep(t) == Recv(t) \/ Accept(t)

ClientLeaves(t) == RecvEnds(t) \/ Respond(t)

ServerStep(t) == Check(t) \/ Socket(t) \/ Bind(t) \/ Listen(t) \/ AcceptLoop(t) \/ AcceptFails(t)
                    \/ CloseListener(t) \/ Sleep(t) \/ HandlerLoop(t) \/ CloseClient(t) \/ Deinit(t)

\* The new thread has the creator's priority: unless an interrupt lets it run,
\* it first runs when the creator blocks, after serverRunning is set.
MayRun == Preemptive \/ pc[Menu] # "run"

Next == UserStep \/ MenuStep
            \/ \E t \in Threads : MayRun /\ (ServerStep(t) \/ ClientStep(t) \/ ClientLeaves(t))

Spec == Init /\ [][Next]_vars

\* The kernel runs every ready thread.
SchedulerFairness == WF_vars(MenuStep) /\ \A t \in Threads : WF_vars(MayRun /\ ServerStep(t))

\* A client that is served reads its responses and disconnects at last.
ClientFairness == \A t \in Threads : SF_vars(MayRun /\ RecvEnds(t)) /\ WF_vars(MayRun /\ Respond(t))

ScheduledSpec == Spec /\ SchedulerFairness

FairSpec == ScheduledSpec /\ ClientFairness

-----------------------------------------------------------------------------

TypeOK ==
    /\ pc \in [Procs -> MenuPCs \cup DeinitPCs \cup ThreadPCs]
    /\ pc[Menu] \in MenuPCs \cup DeinitPCs
    /\ \A t \in Threads : pc[t] \in ThreadPCs \cup DeinitPCs
    /\ serverRunning \in BOOLEAN
    /\ serverSocket \in Fds \cup {Nil}
    /\ threadId \in Threads \cup {Nil}
    /\ arg \in [Procs -> Fds \cup Threads \cup {Nil}]
    /\ sockets \in [Fds -> SocketStates]
    /\ csock \in [Threads -> Fds \cup {Nil}]
    /\ late \in 0..2

\* threadStack is one static buffer: no two server threads are ever on it
\* together, although every start of the server hands it to a new thread.
StackExclusive == \A t, u \in Threads : OnStack(t) /\ OnStack(u) => t = u

\* Why it holds when no client sends "kill" or the user waits: the only thread
\* on the stack is the one threadId names, and wherever the menu thread is about
\* to create another, that one has ended.
NoneOnStack == \A t \in Threads : ~OnStack(t)

StackInv ==
    /\ \A t \in Threads : OnStack(t) => t = threadId
    /\ pc[Menu] \in {"init", "create"} => NoneOnStack
    /\ "kill" \notin Commands =>
          /\ \A t \in Threads : pc[t] \notin DeinitPCs
          /\ pc[Menu] \in {"idle", "error"} => NoneOnStack
          /\ pc[Menu] \in {"wait", "deinit"} /\ ~serverRunning => NoneOnStack
          /\ pc[Menu] = "joining" => arg[Menu] = threadId

\* Why there is at most one late command: it is handled with serverRunning
\* cleared, and the thread that handled it never gets back to recv.
LateInv ==
    /\ late <= 1
    /\ late = 1 => ~serverRunning /\ \A t \in Threads : pc[t] # "recv"

\* Back in the main menu the option has left nothing behind: every thread is
\* reaped, every descriptor closed and serverSocket is -1, so that the next
\* start finds port 1337 free.
SessionClean ==
    pc[Menu] = "idle" =>
        /\ \A t \in Threads : pc[t] = "free"
        /\ \A f \in Fds : sockets[f] = "closed"
        /\ serverSocket = Nil

\* Why it is clean without "kill": only the thread that threadId names exists, only
\* between its creation and the join, and it alone holds descriptors, each of them
\* where the code will close it.
Joinable == {"start", "run", "wait", "clear", "deinit", "load", "shutdown", "join", "joining"}
Serving  == {"bind", "listen", "loop", "accept", "hloop", "recv", "respond", "hclose", "close"}
Handling == {"hloop", "recv", "respond", "hclose"}

CleanInv ==
    /\ \A t \in Threads : pc[t] # "free" => t = threadId /\ pc[Menu] \in Joinable
    /\ pc[Menu] \notin {"wait", "deinit", "clear"} => ~serverRunning
    /\ pc[Menu] = "start" => \A t \in Threads : pc[t] \in {"free", "created"}
    /\ pc[Menu] \in {"wait", "deinit"} /\ ~serverRunning => \A t \in Threads : pc[t] = "free"
    /\ \A t \in Threads : pc[t] \notin Handling => csock[t] = Nil
    /\ serverSocket # Nil => \E t \in Threads : pc[t] \in Serving
    /\ \A f \in Fds : sockets[f] # "closed" =>
          f = serverSocket \/ \E t \in Threads : pc[t] \in Handling /\ csock[t] = f

\* Once wupserver_deinit has cleared serverRunning, a client gets at most one
\* more command executed: the one recv was already waiting for.
AtMostOneLateCommand == late <= 1

\* The descriptor shutdown() is called on is the listener or already closed,
\* never a connection the descriptor was reused for in between.
ShutdownHitsListener ==
    \A p \in Procs : pc[p] = "shutdown" => sockets[arg[p]] # "client"

\* Why it does: what serverSocket names is never a connection, and while somebody is
\* about to shut it down the flag is cleared, so that the one connection still to
\* come gets another descriptor.
ListenerInv ==
    /\ pc[Menu] \in {"create", "start", "run"} => ~serverRunning
    /\ pc[Menu] = "start" => \A t \in Threads : pc[t] \in {"free", "created", "exited"}
    /\ pc[Menu] = "run" => \A t \in Threads : pc[t] \in {"free", "created", "check", "exited"}
    /\ serverSocket # Nil => sockets[serverSocket] \notin {"client", "closed"}
    /\ \A t \in Threads : csock[t] # Nil =>
          pc[t] \in Handling \cup DeinitPCs /\ sockets[csock[t]] = "client"
    /\ \A p \in Procs : pc[p] \in {"load", "shutdown"} => ~serverRunning
    /\ \A p \in Procs : pc[p] = "shutdown" =>
          /\ arg[p] \in Fds /\ sockets[arg[p]] # "client"
          /\ (\E t \in Threads : pc[t] = "accept") => sockets[arg[p]] # "closed"

\* While the option waits for the stop button and serverRunning is set there
\* is a server thread that has not ended.
RunningHasThread ==
    pc[Menu] = "wait" /\ serverRunning => \E t \in Threads : OnStack(t)

\* A thread that tests the flag before wupserver_init sets it ends at once.
TestsTooEarly(t) == pc[Menu] = "run" /\ pc[t] = "check" /\ pc'[t] = "exited"

\* Why there is one until that happens: a thread that was started before the flag was
\* set ends only when it finds the flag cleared.
StartInv ==
    /\ pc[Menu] \in {"create", "start", "run"} => ~serverRunning
    /\ pc[Menu] = "start" => threadId \in Threads /\ pc[threadId] = "created"

HasThread == pc[Menu] = "run" \/ serverRunning => \E t \in Threads : OnStack(t)

\* A press of EJECT or POWER stops the server and returns to the menu.
StopReturns == pc[Menu] = "deinit" ~> pc[Menu] = "idle"

\* What may keep a stop waiting for ever: a client that neither sends nor takes what
\* it is sent nor leaves, since only the listener is shut down, and a thread that
\* IOS_StartThread did not start, which is joined all the same.
HeldByClient(t) == pc[t] \in {"recv", "respond"}
NeverStarted(t) == pc[t] = "created"

\* Nothing else does: the stop returns, whatever clients, calls and scheduler do, unless
\* one of these two lasts for ever.
StopReturnsUnlessHeld ==
    pc[Menu] = "deinit" ~>
        \/ pc[Menu] = "idle"
        \/ \E t \in Threads : []HeldByClient(t) \/ []NeverStarted(t)

\* A server thread that ran and is stopped, by the menu or by "kill", ends, unless its
\* client holds it for ever.
StoppedThreadEnds ==
    \A t \in Threads :
        (OnStack(t) /\ ~NeverStarted(t) /\ ~serverRunning /\ pc[Menu] \notin {"create", "start", "run"}) ~>
            (~OnStack(t) \/ []HeldByClient(t))

\* While the server is not stopped it keeps coming back to accept, whatever
\* its clients did.
KeepsAccepting ==
    (pc[Menu] = "wait" /\ serverRunning) ~>
        ((\E t \in Threads : Accepting(t)) \/ pc[Menu] # "wait" \/ ~serverRunning)

-----------------------------------------------------------------------------
(* What all this promises: WupSession.  The server is on from the creation *)
(* of its thread until the flag is cleared, and it stops until that thread *)
(* has ended and the menu's stop, if there is one, is over.                *)

IsOn       == serverRunning \/ pc[Menu] \in {"start", "run"}
IsStopping == pc[Menu] \in DeinitPCs \ {"deinit"} \/ \E t \in Threads : OnStack(t)

SessionMode == IF IsOn THEN "on" ELSE IF IsStopping THEN "stopping" ELSE "off"

\* How far the server has come with the client of its thread.
Answering == \E t \in Threads : pc[t] \in {"respond"} \cup DeinitPCs
Served    == \E t \in Threads : pc[t] = "recv" \/ (pc[t] = "hloop" /\ serverRunning)
Leaving   == \E t \in Threads : pc[t] \in {"hloop", "hclose"}

SessionClient ==
    IF Answering THEN "answering" ELSE IF Served THEN "served" ELSE IF Leaving THEN "leaving" ELSE "none"

Session == INSTANCE WupSession WITH mode <- SessionMode, client <- SessionClient

\* However the menu's stop, the kill command and the server thread interleave, the
\* sessions of the server are those of WupSession: they do not overlap, and nothing
\* but the command that was under way is executed for a client after the stop.
SessionSpec == Session!Spec
=============================================================================
