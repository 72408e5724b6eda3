-------------------------- MODULE WupServerProofs --------------------------
(***************************************************************************)
(* Safety of the debug server for any number of threads and descriptors.   *)
(***************************************************************************)
EXTENDS WupServer, TLAPS

\* Every variable keeps its type: the handles the code passes on are handles
\* it got from the kernel, and a process is only ever in its own code.
THEOREM TypeCorrect == Spec => []TypeOK
<1> USE WupConstants DEF TypeOK, Procs, MenuPCs, ThreadPCs, DeinitPCs, SocketStates
<1>1. Init => TypeOK
  <2> SUFFICES ASSUME Init PROVE TypeOK
    OBVIOUS
  <2>1. pc \in [Procs -> MenuPCs \cup DeinitPCs \cup ThreadPCs]
    BY DEF Init
  <2>2. pc[Menu] = "idle" /\ \A t \in Threads : pc[t] = "free"
    BY DEF Init
  <2>3. /\ sockets \in [Fds -> SocketStates]
        /\ csock \in [Threads -> Fds \cup {Nil}]
        /\ arg \in [Procs -> Fds \cup Threads \cup {Nil}]
    BY DEF Init
  <2>4. /\ serverRunning \in BOOLEAN
        /\ serverSocket \in Fds \cup {Nil}
        /\ threadId \in Threads \cup {Nil}
    BY DEF Init
  <2>5. late \in 0..2
    BY DEF Init
  <2> QED
    BY <2>1, <2>2, <2>3, <2>4, <2>5
<1>2. TypeOK /\ [Next]_vars => TypeOK'
  <2> SUFFICES ASSUME TypeOK, [Next]_vars PROVE TypeOK'
    OBVIOUS
  <2>1. CASE UserStep
    BY <2>1 DEF UserStep, OpenOption, DismissError, PressStop, Jump
  <2>2. CASE InitServer
    BY <2>2 DEF InitServer, Jump
  <2>3. CASE CreateThread
    BY <2>3 DEF CreateThread
  <2>4. CASE StartThread
    BY <2>4 DEF StartThread
  <2>5. CASE SetRunning
    BY <2>5 DEF SetRunning, Jump
  <2>6. ASSUME NEW p \in Procs, Deinit(p) PROVE TypeOK'
    <3>1. Return(p) \in (IF p = Menu THEN MenuPCs ELSE ThreadPCs)
      BY DEF Return
    <3>2. CASE DeinitTest(p)
      BY <3>1, <3>2 DEF DeinitTest, Jump
    <3>3. CASE DeinitClear(p)
      BY <3>3 DEF DeinitClear, Jump
    <3>4. CASE DeinitLoad(p)
      BY <3>4 DEF DeinitLoad, Jump
    <3>5. CASE DeinitShutdown(p)
      BY <3>5 DEF DeinitShutdown, Jump
    <3>6. CASE DeinitJoin(p)
      BY <3>6 DEF DeinitJoin, Jump
    <3>7. CASE JoinReturns(p)
      BY <3>1, <3>7 DEF JoinReturns
    <3> QED
      BY <2>6, <3>2, <3>3, <3>4, <3>5, <3>6, <3>7 DEF Deinit
  <2>7. ASSUME NEW t \in Threads, ServerStep(t) PROVE TypeOK'
    <3>1. CASE Check(t)
      BY <3>1 DEF Check, Jump
    <3>2. CASE Socket(t)
      BY <3>2 DEF Socket, Jump, FreeFds
    <3>3. CASE Bind(t)
      BY <3>3 DEF Bind, Abandon, Closed, CanBind, Jump
    <3>4. CASE Listen(t)
      BY <3>4 DEF Listen, Abandon, Closed, CanListen, Jump
    <3>5. CASE AcceptLoop(t)
      BY <3>5 DEF AcceptLoop, Jump
    <3>6. CASE AcceptFails(t)
      BY <3>6 DEF AcceptFails, Jump
    <3>7. CASE CloseListener(t)
      BY <3>7 DEF CloseListener, Abandon, Closed, Jump
    <3>8. CASE Sleep(t)
      BY <3>8 DEF Sleep, Jump
    <3>9. CASE HandlerLoop(t)
      BY <3>9 DEF HandlerLoop, Jump
    <3>10. CASE CloseClient(t)
      BY <3>10 DEF CloseClient, Closed, Jump
    <3>11. CASE Deinit(t)
      BY <2>6, <3>11
    <3> QED
      BY <2>7, <3>1, <3>2, <3>3, <3>4, <3>5, <3>6, <3>7, <3>8, <3>9, <3>10, <3>11 DEF ServerStep
  <2>8. ASSUME NEW t \in Threads, ClientStep(t) PROVE TypeOK'
    <3>1. CASE Recv(t)
      BY <3>1 DEF Recv, Jump
    <3>2. CASE Accept(t)
      BY <3>2 DEF Accept, Jump, FreeFds
    <3> QED
      BY <2>8, <3>1, <3>2 DEF ClientStep
  <2>9. ASSUME NEW t \in Threads, ClientLeaves(t) PROVE TypeOK'
    BY <2>9 DEF ClientLeaves, RecvEnds, Respond, Jump
  <2>10. CASE UNCHANGED vars
    BY <2>10 DEF vars
  <2>11. CASE MenuStep
    BY <2>2, <2>3, <2>4, <2>5, <2>6, <2>11 DEF MenuStep
  <2> QED
    BY <2>1, <2>7, <2>8, <2>9, <2>10, <2>11 DEF Next
<1> QED
  BY <1>1, <1>2, PTL DEF Spec

-----------------------------------------------------------------------------

\* A server thread outside wupserver_deinit moves only itself: it was on the
\* stack, and it changes neither serverRunning nor threadId.
LEMMA ThreadMoves ==
    ASSUME TypeOK, NEW t \in Threads,
           ServerStep(t) \/ ClientStep(t) \/ ClientLeaves(t), ~Deinit(t)
    PROVE  /\ OnStack(t)
           /\ \A p \in Procs \ {t} : pc'[p] = pc[p]
           /\ pc'[t] = "deinit" => "kill" \in Commands
           /\ pc'[t] \in ThreadPCs \cup {"deinit"}
           /\ pc'[t] = "recv" => serverRunning
           /\ arg'[Menu] = arg[Menu]
           /\ UNCHANGED <<serverRunning, threadId>>
           /\ ~Recv(t) => UNCHANGED late
<1> USE WupConstants DEF TypeOK, Procs, OnStack, Jump, ThreadPCs
<1>1. CASE Recv(t)
  BY <1>1 DEF Recv
<1>2. CASE Accept(t)
  BY <1>2 DEF Accept
<1>3. CASE Check(t) \/ Socket(t) \/ AcceptLoop(t) \/ AcceptFails(t)
  BY <1>3 DEF Check, Socket, AcceptLoop, AcceptFails
<1>4. CASE Bind(t) \/ Listen(t) \/ CloseListener(t)
  BY <1>4 DEF Bind, Listen, CloseListener, Abandon
<1>5. CASE Sleep(t) \/ HandlerLoop(t) \/ CloseClient(t)
  BY <1>5 DEF Sleep, HandlerLoop, CloseClient
<1>6. CASE RecvEnds(t) \/ Respond(t)
  BY <1>6 DEF RecvEnds, Respond
<1> QED
  BY <1>1, <1>2, <1>3, <1>4, <1>5, <1>6 DEF ServerStep, ClientStep, ClientLeaves

-----------------------------------------------------------------------------

\* No step breaks StackInv, when a start follows a kill only after the killed
\* thread has ended, or no client sends kill.
LEMMA StackInvStep ==
    ASSUME Patient \/ "kill" \notin Commands, TypeOK, TypeOK', StackInv, [Next]_vars
    PROVE  StackInv'
<1> USE WupConstants DEF StackInv, NoneOnStack, OnStack, TypeOK, Procs
<1>1. CASE UserStep
  BY <1>1 DEF UserStep, OpenOption, DismissError, PressStop, Jump
<1>2. CASE InitServer
  BY <1>2 DEF InitServer, Jump
<1>3. CASE CreateThread
  BY <1>3 DEF CreateThread, DeinitPCs
<1>4. CASE StartThread
  BY <1>4 DEF StartThread, DeinitPCs
<1>5. CASE SetRunning
  BY <1>5 DEF SetRunning, Jump
<1>6. CASE Deinit(Menu)
  <2>1. CASE DeinitTest(Menu)
    BY <2>1 DEF DeinitTest, Jump, Return
  <2>2. CASE DeinitClear(Menu)
    BY <2>2 DEF DeinitClear, Jump
  <2>3. CASE DeinitLoad(Menu)
    BY <2>3 DEF DeinitLoad, Jump
  <2>4. CASE DeinitShutdown(Menu)
    BY <2>4 DEF DeinitShutdown, Jump
  <2>5. CASE DeinitJoin(Menu)
    BY <2>5 DEF DeinitJoin, Jump
  <2>6. CASE JoinReturns(Menu)
    BY <2>6 DEF JoinReturns, Return, DeinitPCs
  <2> QED
    BY <1>6, <2>1, <2>2, <2>3, <2>4, <2>5, <2>6 DEF Deinit
<1>7. ASSUME NEW t \in Threads, Deinit(t) PROVE StackInv'
  <2>1. pc[t] \in DeinitPCs /\ "kill" \in Commands
    BY <1>7 DEF Deinit, DeinitTest, DeinitClear, DeinitLoad, DeinitShutdown, DeinitJoin,
                JoinReturns, Jump, DeinitPCs
  <2>2. CASE DeinitTest(t) \/ DeinitClear(t) \/ DeinitLoad(t)
    BY <2>1, <2>2 DEF DeinitTest, DeinitClear, DeinitLoad, Jump, DeinitPCs
  <2>3. CASE DeinitShutdown(t) \/ DeinitJoin(t)
    BY <2>1, <2>3 DEF DeinitShutdown, DeinitJoin, Jump, DeinitPCs
  <2>4. CASE JoinReturns(t)
    BY <2>1, <2>4 DEF JoinReturns, DeinitPCs
  <2> QED
    BY <1>7, <2>2, <2>3, <2>4 DEF Deinit
<1>8. ASSUME NEW t \in Threads, ServerStep(t) \/ ClientStep(t) \/ ClientLeaves(t), ~Deinit(t)
      PROVE  StackInv'
  <2>1. /\ OnStack(t)
        /\ \A p \in Procs \ {t} : pc'[p] = pc[p]
        /\ pc'[t] \in DeinitPCs => "kill" \in Commands
        /\ arg'[Menu] = arg[Menu]
        /\ UNCHANGED <<serverRunning, threadId>>
    BY <1>8, ThreadMoves DEF ThreadPCs, DeinitPCs
  <2>2. \A u \in Threads : OnStack(u)' => OnStack(u)
    BY <2>1
  <2> QED
    BY <2>1, <2>2
<1>9. CASE UNCHANGED vars
  BY <1>9 DEF vars
<1> QED
  BY <1>1, <1>2, <1>3, <1>4, <1>5, <1>6, <1>7, <1>8, <1>9 DEF Next, MenuStep

\* Two server threads are never on threadStack together: whenever the server
\* is started, the thread of its last session has ended.
THEOREM StackSafety ==
    ASSUME Patient \/ "kill" \notin Commands
    PROVE  Spec => []StackExclusive
<1>1. Init => StackInv
  BY WupConstants DEF Init, StackInv, NoneOnStack, OnStack, Procs, DeinitPCs
<1>2. TypeOK /\ TypeOK' /\ StackInv /\ [Next]_vars => StackInv'
  BY StackInvStep
<1>3. StackInv => StackExclusive
  BY DEF StackInv, StackExclusive
<1> QED
  BY <1>1, <1>2, <1>3, TypeCorrect, PTL DEF Spec

-----------------------------------------------------------------------------

\* No step breaks LateInv while one thread at a time is on the stack.
LEMMA LateInvStep ==
    ASSUME TypeOK, TypeOK', StackInv, LateInv, [Next]_vars
    PROVE  LateInv'
<1> USE WupConstants DEF LateInv, TypeOK, Procs
<1>1. CASE UserStep
  BY <1>1 DEF UserStep, OpenOption, DismissError, PressStop, Jump
<1>2. CASE InitServer
  BY <1>2 DEF InitServer, Jump
<1>3. CASE CreateThread
  BY <1>3 DEF CreateThread
<1>4. CASE StartThread
  BY <1>4 DEF StartThread
<1>5. CASE SetRunning
  BY <1>5 DEF SetRunning, Jump
<1>6. ASSUME NEW p \in Procs, Deinit(p) PROVE LateInv'
  <2>1. CASE DeinitTest(p)
    BY <2>1 DEF DeinitTest, Jump, Return
  <2>2. CASE DeinitClear(p)
    BY <2>2 DEF DeinitClear, Jump
  <2>3. CASE DeinitLoad(p)
    BY <2>3 DEF DeinitLoad, Jump
  <2>4. CASE DeinitShutdown(p) \/ DeinitJoin(p)
    BY <2>4 DEF DeinitShutdown, DeinitJoin, Jump
  <2>5. CASE JoinReturns(p)
    BY <2>5 DEF JoinReturns, Return
  <2> QED
    BY <1>6, <2>1, <2>2, <2>3, <2>4, <2>5 DEF Deinit
<1>7. ASSUME NEW t \in Threads, ServerStep(t) \/ ClientStep(t) \/ ClientLeaves(t), ~Deinit(t)
      PROVE  LateInv'
  <2>1. /\ OnStack(t)
        /\ \A p \in Procs \ {t} : pc'[p] = pc[p]
        /\ pc'[t] = "recv" => serverRunning
        /\ UNCHANGED serverRunning
        /\ ~Recv(t) => UNCHANGED late
    BY <1>7, ThreadMoves
  <2>2. CASE Recv(t)
    <3>1. pc[t] = "recv" /\ pc'[t] # "recv" /\ late # 1
      BY <2>2 DEF Recv, Jump
    <3>2. \A u \in Threads \ {t} : pc[u] # "recv"
      BY <2>1 DEF StackInv, OnStack
    <3> QED
      BY <2>1, <2>2, <3>1, <3>2 DEF Recv
  <2>3. CASE ~Recv(t)
    BY <2>1, <2>3
  <2> QED
    BY <2>2, <2>3
<1>8. CASE UNCHANGED vars
  BY <1>8 DEF vars
<1> QED
  BY <1>1, <1>2, <1>3, <1>4, <1>5, <1>6, <1>7, <1>8 DEF Next, MenuStep

\* After wupserver_deinit has cleared serverRunning a client gets at most one
\* more command executed, however many threads, descriptors and sessions.
THEOREM LateCommandSafety ==
    ASSUME Patient \/ "kill" \notin Commands
    PROVE  Spec => []AtMostOneLateCommand
<1>1. Init => StackInv /\ LateInv
  BY WupConstants DEF Init, StackInv, LateInv, NoneOnStack, OnStack, Procs, DeinitPCs
<1>2. /\ TypeOK /\ TypeOK' /\ StackInv /\ [Next]_vars => StackInv'
      /\ TypeOK /\ TypeOK' /\ StackInv /\ LateInv /\ [Next]_vars => LateInv'
  BY StackInvStep, LateInvStep
<1>3. LateInv => AtMostOneLateCommand
  BY DEF LateInv, AtMostOneLateCommand
<1> QED
  BY <1>1, <1>2, <1>3, TypeCorrect, PTL DEF Spec
-----------------------------------------------------------------------------

\* What the menu thread does breaks CleanInv nowhere.
LEMMA CleanInvMenuStep ==
    ASSUME "kill" \notin Commands, TypeOK, TypeOK', StackInv, CleanInv,
           UserStep \/ MenuStep \/ UNCHANGED vars
    PROVE  CleanInv'
<1> USE WupConstants DEF CleanInv, Joinable, Serving, Handling, TypeOK, Procs
<1>1. CASE UserStep
  BY <1>1 DEF UserStep, OpenOption, DismissError, PressStop, Jump
<1>2. CASE InitServer
  BY <1>2 DEF InitServer, Jump
<1>3. CASE CreateThread
  BY <1>3 DEF CreateThread
<1>4. CASE StartThread
  BY <1>4 DEF StartThread
<1>5. CASE SetRunning
  BY <1>5 DEF SetRunning, Jump
<1>6. CASE DeinitTest(Menu)
  BY <1>6 DEF DeinitTest, Jump, Return
<1>7. CASE DeinitClear(Menu)
  BY <1>7 DEF DeinitClear, Jump
<1>8. CASE DeinitLoad(Menu)
  BY <1>8 DEF DeinitLoad, Jump
<1>9. CASE DeinitShutdown(Menu)
  BY <1>9 DEF DeinitShutdown, Jump
<1>10. CASE DeinitJoin(Menu)
  BY <1>10 DEF DeinitJoin, Jump
<1>11. CASE JoinReturns(Menu)
  <2>1. /\ pc[Menu] = "joining" /\ pc'[Menu] = "idle" /\ arg[Menu] = threadId
        /\ UNCHANGED <<serverRunning, serverSocket, threadId, sockets, csock>>
    BY <1>11 DEF JoinReturns, Return, StackInv
  <2>2. \A t \in Threads : pc[t] \in {"free", "exited"} /\ pc'[t] = "free"
    BY <1>11, <2>1 DEF JoinReturns
  <2> QED
    BY <2>1, <2>2
<1>12. CASE UNCHANGED vars
  BY <1>12 DEF vars
<1> QED
  BY <1>1, <1>2, <1>3, <1>4, <1>5, <1>6, <1>7, <1>8, <1>9, <1>10, <1>11, <1>12 DEF MenuStep, Deinit

\* Nor does what a server thread does: each of its ways out closes what it opened.
LEMMA CleanInvThreadStep ==
    ASSUME "kill" \notin Commands, TypeOK, TypeOK', StackInv, CleanInv, NEW t \in Threads,
           ServerStep(t) \/ ClientStep(t) \/ ClientLeaves(t)
    PROVE  CleanInv'
<1> USE WupConstants DEF CleanInv, Joinable, Serving, Handling, TypeOK, Procs
<1>1. ~Deinit(t)
  BY DEF StackInv, Deinit, DeinitTest, DeinitClear, DeinitLoad, DeinitShutdown, DeinitJoin,
         JoinReturns, Jump, DeinitPCs
<1>2. /\ OnStack(t)
      /\ \A p \in Procs \ {t} : pc'[p] = pc[p]
      /\ UNCHANGED <<serverRunning, threadId>>
  BY <1>1, ThreadMoves
<1>3. t = threadId /\ (\A u \in Threads \ {t} : pc[u] = "free") /\ pc'[Menu] = pc[Menu]
  BY <1>2 DEF OnStack
<1>4. CASE Check(t)
  BY <1>2, <1>3, <1>4 DEF Check, Jump
<1>5. CASE Socket(t)
  BY <1>2, <1>3, <1>5 DEF Socket, Jump, FreeFds
<1>6. CASE Bind(t)
  BY <1>2, <1>3, <1>6 DEF Bind, Abandon, Closed, Jump
<1>7. CASE Listen(t)
  BY <1>2, <1>3, <1>7 DEF Listen, Abandon, Closed, Jump
<1>8. CASE AcceptLoop(t)
  BY <1>2, <1>3, <1>8 DEF AcceptLoop, Jump
<1>9. CASE AcceptFails(t)
  BY <1>2, <1>3, <1>9 DEF AcceptFails, Jump
<1>10. CASE CloseListener(t)
  BY <1>2, <1>3, <1>10 DEF CloseListener, Abandon, Closed, Jump
<1>11. CASE Sleep(t)
  BY <1>2, <1>3, <1>11 DEF Sleep, Jump
<1>12. CASE HandlerLoop(t)
  BY <1>2, <1>3, <1>12 DEF HandlerLoop, Jump
<1>13. CASE CloseClient(t)
  BY <1>2, <1>3, <1>13 DEF CloseClient, Closed, Jump
<1>14. CASE Recv(t)
  BY <1>2, <1>3, <1>14 DEF Recv, Jump
<1>15. CASE Accept(t)
  BY <1>2, <1>3, <1>15 DEF Accept, Jump, FreeFds
<1>16. CASE RecvEnds(t)
  BY <1>2, <1>3, <1>16 DEF RecvEnds, Jump
<1>17. CASE Respond(t)
  BY <1>2, <1>3, <1>17 DEF Respond, Jump
<1> QED
  BY <1>1, <1>4, <1>5, <1>6, <1>7, <1>8, <1>9, <1>10, <1>11, <1>12, <1>13, <1>14, <1>15, <1>16, <1>17
  DEF ServerStep, ClientStep, ClientLeaves

\* Without "kill" a session leaves nothing behind when the option returns: no
\* thread, no descriptor and no socket, whatever failed and whoever ran first.
THEOREM CleanSafety ==
    ASSUME "kill" \notin Commands
    PROVE  Spec => []SessionClean
<1>1. Init => StackInv /\ CleanInv
  BY WupConstants DEF Init, StackInv, CleanInv, NoneOnStack, OnStack, Procs, DeinitPCs, Joinable, Serving, Handling
<1>2. TypeOK /\ TypeOK' /\ StackInv /\ [Next]_vars => StackInv'
  BY StackInvStep
<1>3. TypeOK /\ TypeOK' /\ StackInv /\ CleanInv /\ [Next]_vars => CleanInv'
  BY CleanInvMenuStep, CleanInvThreadStep DEF Next
<1>4. TypeOK /\ CleanInv => SessionClean
  BY WupConstants DEF CleanInv, SessionClean, Joinable, Serving, Handling, TypeOK
<1> QED
  BY <1>1, <1>2, <1>3, <1>4, TypeCorrect, PTL DEF Spec

-----------------------------------------------------------------------------

\* The menu thread keeps ListenerInv, and so does wupserver_deinit in any process.
LEMMA ListenerInvMenuStep ==
    ASSUME TypeOK, TypeOK', StackInv, ListenerInv, UserStep \/ MenuStep \/ UNCHANGED vars,
           \A p \in Procs : ~Deinit(p)
    PROVE  ListenerInv'
<1> USE WupConstants DEF ListenerInv, Handling, DeinitPCs, TypeOK, Procs
<1>1. CASE UserStep
  BY <1>1 DEF UserStep, OpenOption, DismissError, PressStop, Jump
<1>2. CASE InitServer
  BY <1>2 DEF InitServer, Jump
<1>3. CASE CreateThread
  BY <1>3 DEF CreateThread, StackInv, NoneOnStack, OnStack
<1>4. CASE StartThread
  BY <1>4 DEF StartThread
<1>5. CASE SetRunning
  BY <1>5 DEF SetRunning, Jump
<1>6. CASE UNCHANGED vars
  BY <1>6 DEF vars
<1> QED
  BY <1>1, <1>2, <1>3, <1>4, <1>5, <1>6 DEF MenuStep

LEMMA ListenerInvDeinitStep ==
    ASSUME TypeOK, TypeOK', ListenerInv, NEW p \in Procs, Deinit(p)
    PROVE  ListenerInv'
<1> USE WupConstants DEF ListenerInv, Handling, DeinitPCs, TypeOK, Procs
<1>1. CASE DeinitTest(p)
  BY <1>1 DEF DeinitTest, Jump, Return
<1>2. CASE DeinitClear(p)
  BY <1>2 DEF DeinitClear, Jump
<1>3. CASE DeinitLoad(p)
  BY <1>3 DEF DeinitLoad, Jump
<1>4. CASE DeinitShutdown(p)
  BY <1>4 DEF DeinitShutdown, Jump
<1>5. CASE DeinitJoin(p)
  BY <1>5 DEF DeinitJoin, Jump
<1>6. CASE JoinReturns(p)
  BY <1>6 DEF JoinReturns, Return
<1> QED
  BY <1>1, <1>2, <1>3, <1>4, <1>5, <1>6 DEF Deinit

\* A server thread keeps it because it is alone: whoever closes the listener or
\* connects is the thread that would have been in accept.
LEMMA ListenerInvThreadStep ==
    ASSUME TypeOK, TypeOK', StackInv, ListenerInv, NEW t \in Threads,
           ServerStep(t) \/ ClientStep(t) \/ ClientLeaves(t), ~Deinit(t)
    PROVE  ListenerInv'
<1> USE WupConstants DEF ListenerInv, Handling, DeinitPCs, TypeOK, Procs
<1>1. /\ OnStack(t)
      /\ \A p \in Procs \ {t} : pc'[p] = pc[p]
      /\ UNCHANGED <<serverRunning, threadId>>
  BY ThreadMoves
<1>2. /\ \A u \in Threads \ {t} : pc[u] \in {"free", "exited"}
      /\ pc'[Menu] = pc[Menu]
  BY <1>1 DEF OnStack, StackInv
<1>3. CASE Check(t)
  BY <1>1, <1>2, <1>3 DEF Check, Jump
<1>4. CASE Socket(t)
  BY <1>1, <1>2, <1>4 DEF Socket, Jump, FreeFds
<1>5. CASE Bind(t)
  BY <1>1, <1>2, <1>5 DEF Bind, Abandon, Closed, CanBind, Jump
<1>6. CASE Listen(t)
  BY <1>1, <1>2, <1>6 DEF Listen, Abandon, Closed, CanListen, Jump
<1>7. CASE AcceptLoop(t)
  BY <1>1, <1>2, <1>7 DEF AcceptLoop, Jump
<1>8. CASE AcceptFails(t)
  BY <1>1, <1>2, <1>8 DEF AcceptFails, Jump
<1>9. CASE CloseListener(t)
  BY <1>1, <1>2, <1>9 DEF CloseListener, Abandon, Closed, Jump
<1>10. CASE Sleep(t)
  BY <1>1, <1>2, <1>10 DEF Sleep, Jump
<1>11. CASE HandlerLoop(t)
  BY <1>1, <1>2, <1>11 DEF HandlerLoop, Jump
<1>12. CASE CloseClient(t)
  BY <1>1, <1>2, <1>12 DEF CloseClient, Closed, Jump
<1>13. CASE Recv(t)
  BY <1>1, <1>2, <1>13 DEF Recv, Jump
<1>14. CASE Accept(t)
  BY <1>1, <1>2, <1>14 DEF Accept, Jump, FreeFds, Accepting
<1>15. CASE RecvEnds(t)
  BY <1>1, <1>2, <1>15 DEF RecvEnds, Jump
<1>16. CASE Respond(t)
  BY <1>1, <1>2, <1>16 DEF Respond, Jump
<1> QED
  BY <1>3, <1>4, <1>5, <1>6, <1>7, <1>8, <1>9, <1>10, <1>11, <1>12, <1>13, <1>14, <1>15, <1>16
  DEF ServerStep, ClientStep, ClientLeaves

LEMMA ListenerInvStep ==
    ASSUME TypeOK, TypeOK', StackInv, ListenerInv, [Next]_vars
    PROVE  ListenerInv'
<1>1. CASE \E p \in Procs : Deinit(p)
  BY <1>1, ListenerInvDeinitStep
<1>2. CASE \A p \in Procs : ~Deinit(p)
  BY <1>2, ListenerInvMenuStep, ListenerInvThreadStep DEF Next, Procs
<1> QED
  BY <1>1, <1>2

\* A stop never shuts down a connection in place of the listener, although it reads
\* serverSocket while the server thread may replace it.
THEOREM ListenerSafety ==
    ASSUME Patient \/ "kill" \notin Commands
    PROVE  Spec => []ShutdownHitsListener
<1>1. Init => StackInv /\ ListenerInv
  BY WupConstants DEF Init, StackInv, ListenerInv, NoneOnStack, OnStack, Procs, DeinitPCs
<1>2. TypeOK /\ TypeOK' /\ StackInv /\ [Next]_vars => StackInv'
  BY StackInvStep
<1>3. TypeOK /\ TypeOK' /\ StackInv /\ ListenerInv /\ [Next]_vars => ListenerInv'
  BY ListenerInvStep
<1>4. ListenerInv => ShutdownHitsListener
  BY DEF ListenerInv, ShutdownHitsListener
<1> QED
  BY <1>1, <1>2, <1>3, <1>4, TypeCorrect, PTL DEF Spec

-----------------------------------------------------------------------------

\* A thread is created and started only while the flag is cleared, and nobody but
\* StartThread lets it run.
LEMMA StartInvStep ==
    ASSUME TypeOK, StartInv, [Next]_vars
    PROVE  StartInv'
<1> USE WupConstants DEF StartInv, TypeOK, Procs
<1>1. CASE UserStep
  BY <1>1 DEF UserStep, OpenOption, DismissError, PressStop, Jump
<1>2. CASE InitServer
  BY <1>2 DEF InitServer, Jump
<1>3. CASE CreateThread
  BY <1>3 DEF CreateThread
<1>4. CASE StartThread \/ SetRunning
  BY <1>4 DEF StartThread, SetRunning, Jump
<1>5. ASSUME NEW p \in Procs, Deinit(p) PROVE StartInv'
  <2>1. CASE DeinitTest(p) \/ DeinitClear(p)
    BY <2>1 DEF DeinitTest, DeinitClear, Jump, Return
  <2>2. CASE DeinitLoad(p) \/ DeinitShutdown(p) \/ DeinitJoin(p)
    BY <2>2 DEF DeinitLoad, DeinitShutdown, DeinitJoin, Jump
  <2>3. CASE JoinReturns(p)
    BY <2>3 DEF JoinReturns, Return
  <2> QED
    BY <1>5, <2>1, <2>2, <2>3 DEF Deinit
<1>6. ASSUME NEW t \in Threads, ~Deinit(t), ServerStep(t) \/ ClientStep(t) \/ ClientLeaves(t)
      PROVE  StartInv'
  <2>1. /\ \A p \in Procs \ {t} : pc'[p] = pc[p]
        /\ UNCHANGED <<serverRunning, threadId>>
    BY <1>6, ThreadMoves
  <2>2. pc[t] # "created"
    BY <1>6 DEF ServerStep, ClientStep, ClientLeaves, Check, Socket, Bind, Listen, Abandon, AcceptLoop,
                AcceptFails, CloseListener, Sleep, HandlerLoop, CloseClient, Recv, Accept, RecvEnds,
                Respond, Jump
  <2> QED
    BY <2>1, <2>2
<1>7. CASE UNCHANGED vars
  BY <1>7 DEF vars
<1> QED
  BY <1>1, <1>2, <1>3, <1>4, <1>5, <1>6, <1>7 DEF Next, MenuStep

\* Whoever moves, whatever fails and whoever runs first, a thread stays on the stack while
\* the flag is set, but for one that tests it before it is set.
LEMMA HasThreadStep ==
    ASSUME TypeOK, TypeOK', StartInv, HasThread, [Next]_vars, \A t \in Threads : ~TestsTooEarly(t)
    PROVE  HasThread'
<1> USE WupConstants DEF StartInv, HasThread, OnStack, TypeOK, Procs
<1>1. CASE UserStep
  BY <1>1 DEF UserStep, OpenOption, DismissError, PressStop, Jump
<1>2. CASE InitServer
  BY <1>2 DEF InitServer, Jump
<1>3. CASE CreateThread
  BY <1>3 DEF CreateThread
<1>4. CASE StartThread
  BY <1>4 DEF StartThread
<1>5. CASE SetRunning
  BY <1>5 DEF SetRunning, Jump
<1>6. ASSUME NEW p \in Procs, Deinit(p) PROVE HasThread'
  <2>1. CASE DeinitTest(p)
    BY <2>1 DEF DeinitTest, Jump, Return
  <2>2. CASE DeinitClear(p)
    BY <2>2 DEF DeinitClear, Jump
  <2>3. CASE DeinitLoad(p)
    BY <2>3 DEF DeinitLoad, Jump
  <2>4. CASE DeinitShutdown(p) \/ DeinitJoin(p)
    BY <2>4 DEF DeinitShutdown, DeinitJoin, Jump
  <2>5. CASE JoinReturns(p)
    BY <2>5 DEF JoinReturns, Return
  <2> QED
    BY <1>6, <2>1, <2>2, <2>3, <2>4, <2>5 DEF Deinit
<1>7. ASSUME NEW t \in Threads, ~Deinit(t), ServerStep(t) \/ ClientStep(t) \/ ClientLeaves(t)
      PROVE  HasThread'
  <2>1. /\ OnStack(t)
        /\ \A p \in Procs \ {t} : pc'[p] = pc[p]
        /\ UNCHANGED <<serverRunning, threadId>>
    BY <1>7, ThreadMoves
  <2>2. pc[Menu] = "run" \/ serverRunning => OnStack(t)'
    BY <1>7 DEF TestsTooEarly, ServerStep, ClientStep, ClientLeaves, Check, Socket, Bind, Listen, Abandon,
                AcceptLoop, AcceptFails, CloseListener, Sleep, HandlerLoop, CloseClient, Recv, Accept,
                RecvEnds, Respond, Jump
  <2> QED
    BY <2>1, <2>2
<1>8. CASE UNCHANGED vars
  BY <1>8 DEF vars
<1> QED
  BY <1>1, <1>2, <1>3, <1>4, <1>5, <1>6, <1>7, <1>8 DEF Next, MenuStep

-----------------------------------------------------------------------------
(* The server implements WupSession: each of its steps starts, advances or *)
(* ends a session, or is invisible to whoever uses the server.             *)

\* While thread t is alone, the session is where t is, before its step and after it.
LEMMA SessionOfThread ==
    ASSUME TypeOK, TypeOK', NEW t \in Threads, OnStack(t), pc'[Menu] = pc[Menu],
           \A u \in Threads \ {t} : pc[u] \in {"free", "exited"} /\ pc'[u] \in {"free", "exited"}
    PROVE  /\ Answering <=> pc[t] \in {"respond"} \cup DeinitPCs
           /\ Served <=> pc[t] = "recv" \/ (pc[t] = "hloop" /\ serverRunning)
           /\ Leaving <=> pc[t] \in {"hloop", "hclose"}
           /\ IsStopping
           /\ Answering' <=> pc'[t] \in {"respond"} \cup DeinitPCs
           /\ Served' <=> pc'[t] = "recv" \/ (pc'[t] = "hloop" /\ serverRunning')
           /\ Leaving' <=> pc'[t] \in {"hloop", "hclose"}
           /\ IsStopping' <=> pc[Menu] \in DeinitPCs \ {"deinit"} \/ pc'[t] \notin {"free", "exited"}
<1> USE DEF OnStack, DeinitPCs
<1>1. /\ Answering <=> pc[t] \in {"respond"} \cup DeinitPCs
      /\ Answering' <=> pc'[t] \in {"respond"} \cup DeinitPCs
  BY DEF Answering
<1>2. /\ Served <=> pc[t] = "recv" \/ (pc[t] = "hloop" /\ serverRunning)
      /\ Served' <=> pc'[t] = "recv" \/ (pc'[t] = "hloop" /\ serverRunning')
  BY DEF Served
<1>3. /\ Leaving <=> pc[t] \in {"hloop", "hclose"}
      /\ Leaving' <=> pc'[t] \in {"hloop", "hclose"}
  BY DEF Leaving
<1>4. /\ IsStopping
      /\ IsStopping' <=> pc[Menu] \in DeinitPCs \ {"deinit"} \/ pc'[t] \notin {"free", "exited"}
  BY DEF IsStopping
<1> QED
  BY <1>1, <1>2, <1>3, <1>4

\* Without a thread on the stack there is no client, whatever the threads' states.
LEMMA NoThreadNoClient == NoneOnStack => SessionClient = "none"
BY DEF NoneOnStack, OnStack, SessionClient, Answering, Served, Leaving, DeinitPCs

\* What the menu thread does outside wupserver_deinit starts a session or none.
LEMMA SessionMenuStep ==
    ASSUME TypeOK, TypeOK', StackInv, ListenerInv,
           UserStep \/ InitServer \/ CreateThread \/ StartThread \/ SetRunning \/ UNCHANGED vars
    PROVE  [Session!Next]_(Session!sessionVars)
<1> USE WupConstants DEF TypeOK, Procs, Session!sessionVars, SessionMode, IsOn, IsStopping, OnStack
<1>1. ASSUME UNCHANGED serverRunning, \A t \in Threads : pc'[t] = pc[t] PROVE UNCHANGED SessionClient
  BY <1>1 DEF SessionClient, Answering, Served, Leaving
<1>2. CASE UserStep
  BY <1>1, <1>2 DEF UserStep, OpenOption, DismissError, PressStop, Jump, DeinitPCs
<1>3. CASE InitServer
  BY <1>1, <1>3 DEF InitServer, Jump, DeinitPCs
<1>4. CASE CreateThread
  <2>1. NoneOnStack /\ ~serverRunning /\ pc[Menu] = "create"
    BY <1>4 DEF CreateThread, StackInv, ListenerInv
  <2>2. SessionMode = "off" /\ SessionClient = "none"
    BY <2>1, NoThreadNoClient DEF NoneOnStack, DeinitPCs
  <2>3. CASE pc'[Menu] = "start"
    <3>1. SessionMode' = "on"
      BY <2>3
    <3>2. \A t \in Threads : pc'[t] \in {"free", "exited", "created"}
      BY <1>4, <2>1 DEF CreateThread, NoneOnStack
    <3>3. SessionClient' = "none"
      BY <3>2 DEF SessionClient, Answering, Served, Leaving, DeinitPCs
    <3> QED
      BY <2>2, <3>1, <3>3 DEF Session!Next, Session!Start
  <2>4. CASE pc'[Menu] # "start"
    <3>1. pc' = [pc EXCEPT ![Menu] = "wait"] /\ UNCHANGED serverRunning
      BY <1>4, <2>4 DEF CreateThread
    <3> QED
      BY <1>1, <2>1, <3>1 DEF DeinitPCs
  <2> QED
    BY <2>3, <2>4
<1>5. CASE StartThread
  <2>1. /\ pc[Menu] = "start" /\ pc'[Menu] = "run" /\ UNCHANGED serverRunning /\ ~serverRunning
        /\ \A t \in Threads : /\ pc[t] \in {"free", "created", "exited"}
                              /\ pc'[t] \in {"free", "created", "exited", "check"}
    BY <1>5 DEF StartThread, ListenerInv
  <2>2. SessionClient = "none" /\ SessionClient' = "none"
    BY <2>1 DEF SessionClient, Answering, Served, Leaving, DeinitPCs
  <2> QED
    BY <2>1, <2>2
<1>6. CASE SetRunning
  <2>1. /\ pc[Menu] = "run" /\ serverRunning'
        /\ \A t \in Threads : /\ pc[t] \in {"free", "created", "check", "exited"}
                              /\ pc'[t] \in {"free", "created", "check", "exited"}
    BY <1>6 DEF SetRunning, ListenerInv, Jump
  <2>2. SessionClient = "none" /\ SessionClient' = "none"
    BY <2>1 DEF SessionClient, Answering, Served, Leaving, DeinitPCs
  <2> QED
    BY <2>1, <2>2
<1>7. CASE UNCHANGED vars
  BY <1>1, <1>7 DEF vars
<1> QED
  BY <1>2, <1>3, <1>4, <1>5, <1>6, <1>7

\* The menu's wupserver_deinit stops the session, and ends it when the thread is gone.
LEMMA SessionStopStep ==
    ASSUME TypeOK, TypeOK', StackInv, ListenerInv, Deinit(Menu)
    PROVE  [Session!Next]_(Session!sessionVars)
<1> USE WupConstants DEF TypeOK, Procs, Session!sessionVars, SessionMode, IsOn, IsStopping, OnStack, DeinitPCs
<1>1. ASSUME UNCHANGED serverRunning, \A t \in Threads : pc'[t] = pc[t] PROVE UNCHANGED SessionClient
  BY <1>1 DEF SessionClient, Answering, Served, Leaving
<1>2. CASE DeinitTest(Menu)
  BY <1>1, <1>2 DEF DeinitTest, Jump, Return
<1>3. CASE DeinitClear(Menu)
  <2>1. /\ pc[Menu] = "clear" /\ pc'[Menu] = "load" /\ ~serverRunning'
        /\ \A t \in Threads : pc'[t] = pc[t]
    BY <1>3 DEF DeinitClear, Jump
  <2>2. SessionMode \in {"on", "stopping"} /\ SessionMode' = "stopping"
    BY <2>1
  <2>3. CASE serverRunning
    <3>1. SessionMode = "on"
      BY <2>3
    <3>2. SessionClient' = SessionClient \/ (SessionClient = "served" /\ SessionClient' = "leaving")
      BY <2>1 DEF SessionClient, Answering, Served, Leaving
    <3> QED
      BY <2>2, <3>1, <3>2 DEF Session!Next, Session!Stop
  <2>4. CASE ~serverRunning
    BY <1>1, <2>1, <2>2, <2>4
  <2> QED
    BY <2>3, <2>4
<1>4. CASE DeinitLoad(Menu) \/ DeinitShutdown(Menu) \/ DeinitJoin(Menu)
  BY <1>1, <1>4 DEF DeinitLoad, DeinitShutdown, DeinitJoin, Jump
<1>5. CASE JoinReturns(Menu)
  <2>1. /\ pc[Menu] = "joining" /\ pc'[Menu] = "idle" /\ UNCHANGED serverRunning
        /\ \A t \in Threads : pc'[t] = pc[t] \/ (pc[t] \in {"exited", "free"} /\ pc'[t] = "free")
    BY <1>5 DEF JoinReturns, Return
  <2>2. UNCHANGED SessionClient
    BY <2>1 DEF SessionClient, Answering, Served, Leaving
  <2>3. CASE serverRunning \/ ~NoneOnStack
    BY <2>1, <2>2, <2>3 DEF NoneOnStack
  <2>4. CASE ~serverRunning /\ NoneOnStack
    <3>1. SessionMode = "stopping" /\ SessionMode' = "off"
      BY <2>1, <2>4 DEF NoneOnStack
    <3> QED
      BY <2>2, <2>4, <3>1, NoThreadNoClient DEF Session!Next, Session!Stopped
  <2> QED
    BY <2>3, <2>4
<1> QED
  BY <1>2, <1>3, <1>4, <1>5 DEF Deinit

\* A server thread advances the session of its client, and ends a stopped one
\* with itself.
LEMMA SessionThreadStep ==
    ASSUME TypeOK, TypeOK', StackInv, ListenerInv, NEW t \in Threads,
           ServerStep(t) \/ ClientStep(t) \/ ClientLeaves(t)
    PROVE  [Session!Next]_(Session!sessionVars)
<1> USE WupConstants DEF TypeOK, Procs
<1>1. /\ OnStack(t) /\ pc'[Menu] = pc[Menu]
      /\ \A u \in Threads \ {t} : pc[u] \in {"free", "exited"} /\ pc'[u] \in {"free", "exited"}
  <2>1. OnStack(t)
    BY ThreadMoves DEF OnStack, Deinit, DeinitTest, DeinitClear, DeinitLoad, DeinitShutdown, DeinitJoin,
                       JoinReturns, Jump
  <2>2. \A u \in Threads \ {t} : pc[u] \in {"free", "exited"}
    BY <2>1 DEF StackInv, OnStack
  <2>3. CASE ~Deinit(t)
    BY <2>1, <2>2, <2>3, ThreadMoves
  <2>4. CASE Deinit(t)
    BY <2>1, <2>2, <2>4 DEF Deinit, DeinitTest, DeinitClear, DeinitLoad, DeinitShutdown, DeinitJoin,
                            JoinReturns, Jump
  <2> QED
    BY <2>1, <2>2, <2>3, <2>4
<1>2. /\ Answering <=> pc[t] \in {"respond"} \cup DeinitPCs
      /\ Served <=> pc[t] = "recv" \/ (pc[t] = "hloop" /\ serverRunning)
      /\ Leaving <=> pc[t] \in {"hloop", "hclose"}
      /\ IsStopping
      /\ Answering' <=> pc'[t] \in {"respond"} \cup DeinitPCs
      /\ Served' <=> pc'[t] = "recv" \/ (pc'[t] = "hloop" /\ serverRunning')
      /\ Leaving' <=> pc'[t] \in {"hloop", "hclose"}
      /\ IsStopping' <=> pc[Menu] \in DeinitPCs \ {"deinit"} \/ pc'[t] \notin {"free", "exited"}
  BY <1>1, SessionOfThread
<1>3. pc[t] \notin {"free", "exited", "created", "check"} => pc[Menu] \notin {"start", "run"}
  BY DEF ListenerInv
<1> USE <1>1, <1>2, <1>3 DEF Session!sessionVars, SessionMode, IsOn, SessionClient, DeinitPCs, Jump
<1>4. CASE Check(t)
  <2>1. CASE serverRunning
    BY <1>4, <2>1 DEF Check
  <2>2. CASE ~serverRunning
    <3>1. pc[t] = "check" /\ pc'[t] = "exited" /\ ~serverRunning'
      BY <1>4, <2>2 DEF Check
    <3>2. SessionClient = "none" /\ SessionClient' = "none"
      BY <3>1
    <3>3. SessionMode' = SessionMode \/ (SessionMode = "stopping" /\ SessionMode' = "off")
      BY <2>2, <3>1
    <3> QED
      BY <3>2, <3>3 DEF Session!Next, Session!Stopped
  <2> QED
    BY <2>1, <2>2
<1>5. CASE Socket(t) \/ AcceptLoop(t) \/ AcceptFails(t) \/ Sleep(t)
  BY <1>5 DEF Socket, AcceptLoop, AcceptFails, Sleep
<1>6. CASE Bind(t) \/ Listen(t) \/ CloseListener(t)
  BY <1>6 DEF Bind, Listen, CloseListener, Abandon
<1>7. CASE HandlerLoop(t)
  BY <1>7 DEF HandlerLoop
<1>8. CASE CloseClient(t)
  BY <1>8 DEF CloseClient, Session!Next, Session!Gone
<1>9. CASE Accept(t)
  BY <1>9 DEF Accept, Session!Next, Session!Connect
<1>10. CASE Recv(t)
  BY <1>10 DEF Recv, Session!Next, Session!Execute
<1>11. CASE RecvEnds(t)
  BY <1>11 DEF RecvEnds, Session!Next, Session!Leave
<1>12. CASE Respond(t)
  BY <1>12 DEF Respond, Session!Next, Session!Answer
<1>13. CASE DeinitClear(t)
  BY <1>13 DEF DeinitClear, Session!Next, Session!Stop
<1>14. CASE DeinitTest(t) \/ DeinitLoad(t) \/ DeinitShutdown(t) \/ DeinitJoin(t) \/ JoinReturns(t)
  BY <1>14 DEF DeinitTest, DeinitLoad, DeinitShutdown, DeinitJoin, JoinReturns, Return
<1> QED
  BY <1>4, <1>5, <1>6, <1>7, <1>8, <1>9, <1>10, <1>11, <1>12, <1>13, <1>14
  DEF ServerStep, ClientStep, ClientLeaves, Deinit

\* The debug server implements WupSession: a session begins when the last one is
\* over, a stop leaves the client no more than the command it was waiting with, and
\* whoever connects after the stop is not served.
THEOREM SessionRefinement ==
    ASSUME Patient \/ "kill" \notin Commands
    PROVE  Spec => SessionSpec
<1>1. Init => StackInv /\ ListenerInv
  BY WupConstants DEF Init, StackInv, ListenerInv, NoneOnStack, OnStack, Procs, DeinitPCs
<1>2. TypeOK /\ TypeOK' /\ StackInv /\ [Next]_vars => StackInv'
  BY StackInvStep
<1>3. TypeOK /\ TypeOK' /\ StackInv /\ ListenerInv /\ [Next]_vars => ListenerInv'
  BY ListenerInvStep
<1>4. Init => Session!Init
  BY WupConstants, NoThreadNoClient
  DEF Init, Session!Init, SessionMode, IsOn, IsStopping, NoneOnStack, OnStack, Procs, DeinitPCs
<1>5. TypeOK /\ TypeOK' /\ StackInv /\ ListenerInv /\ [Next]_vars => [Session!Next]_(Session!sessionVars)
  BY SessionMenuStep, SessionStopStep, SessionThreadStep DEF Next, MenuStep
<1> QED
  BY <1>1, <1>2, <1>3, <1>4, <1>5, TypeCorrect, PTL DEF Spec, SessionSpec, Session!Spec
=============================================================================
