-------------------------- MODULE MCWupServerProofs --------------------------
(***************************************************************************)
(* What the run of the server checks on two kinds of console, for any      *)
(* number of threads and descriptors: each kind is the server with         *)
(* constants of its own, so that the theorems of WupServerProofs hold for  *)
(* both.                                                                   *)
(***************************************************************************)
EXTENDS MCWupServer, WupServerProofs

\* The theorems for a rough console.
R == INSTANCE WupServerProofs WITH
    Commands <- {"serve"}, Preemptive <- TRUE, Patient <- FALSE,
    Faults <- {"netconf", "create", "start", "bind", "listen", "accept"}

-----------------------------------------------------------------------------

\* On a calm console the server is started as WupServer says.
LEMMA CalmIsServer == MCSpec /\ calm => Spec /\ []calm
<1>1. MCInit => Init
  BY DEF MCInit
<1>2. calm /\ [MCNext]_mcVars => [Next]_vars /\ calm'
  BY DEF MCNext, mcVars
<1> QED
  BY <1>1, <1>2, PTL DEF MCSpec, Spec

\* Both instances of WupServer name the same steps ...
LEMMA RoughSteps == Rough!Next => R!Next
BY DEF Rough!Next, Rough!UserStep, Rough!MenuStep, Rough!MayRun, Rough!ServerStep, Rough!ClientStep,
       Rough!ClientLeaves, Rough!OpenOption, Rough!DismissError, Rough!PressStop, Rough!InitServer,
       Rough!CreateThread, Rough!StartThread, Rough!SetRunning, Rough!Deinit, Rough!DeinitTest,
       Rough!DeinitClear, Rough!DeinitLoad, Rough!DeinitShutdown, Rough!DeinitJoin,
       Rough!JoinReturns, Rough!Check, Rough!Socket, Rough!Bind, Rough!Listen, Rough!AcceptLoop,
       Rough!AcceptFails, Rough!CloseListener, Rough!Sleep, Rough!HandlerLoop, Rough!CloseClient,
       Rough!Recv, Rough!Accept, Rough!RecvEnds, Rough!Respond, Rough!Jump, Rough!Procs,
       Rough!Return, Rough!Abandon, Rough!Closed, Rough!FreeFds, Rough!OnStack, Rough!PortFree,
       Rough!CanBind, Rough!CanListen, Rough!Accepting,
       R!Next, R!UserStep, R!MenuStep, R!MayRun, R!ServerStep, R!ClientStep, R!ClientLeaves,
       R!OpenOption, R!DismissError, R!PressStop, R!InitServer, R!CreateThread, R!StartThread,
       R!SetRunning, R!Deinit, R!DeinitTest, R!DeinitClear, R!DeinitLoad, R!DeinitShutdown,
       R!DeinitJoin, R!JoinReturns, R!Check, R!Socket, R!Bind, R!Listen, R!AcceptLoop,
       R!AcceptFails, R!CloseListener, R!Sleep, R!HandlerLoop, R!CloseClient, R!Recv, R!Accept,
       R!RecvEnds, R!Respond, R!Jump, R!Procs, R!Return, R!Abandon, R!Closed, R!FreeFds,
       R!OnStack, R!PortFree, R!CanBind, R!CanListen, R!Accepting

\* ... so that a rough console is the server with calls that fail, a scheduler
\* that may run the new thread first, and no "kill".
LEMMA RoughIsServer == MCSpec /\ ~calm => R!Spec /\ []~calm
<1>1. MCInit => R!Init
  BY DEF MCInit, Init, R!Init, Procs, R!Procs
<1>2. ~calm /\ [MCNext]_mcVars => [R!Next]_R!vars /\ ~calm'
  BY RoughSteps DEF MCNext, mcVars, vars, R!vars
<1> QED
  BY <1>1, <1>2, PTL DEF MCSpec, R!Spec

\* The constants of a rough console are constants WupServer allows.
LEMMA RoughConstants == R!WupConstants
BY WupConstants DEF R!WupConstants

-----------------------------------------------------------------------------

\* On either kind of console, and as long as the user waits or no client sends
\* "kill", two server threads never share threadStack, at most one command is
\* executed after the stop, and the stop shuts down no client's connection.
THEOREM SessionSafety ==
    ASSUME Patient \/ "kill" \notin Commands
    PROVE  MCSpec => [](TypeOK /\ StackExclusive /\ AtMostOneLateCommand /\ ShutdownHitsListener)
<1> DEFINE Safe == TypeOK /\ StackExclusive /\ AtMostOneLateCommand /\ ShutdownHitsListener
           RoughSafe == R!TypeOK /\ R!StackExclusive /\ R!AtMostOneLateCommand
                           /\ R!ShutdownHitsListener
<1>1. Spec => []Safe
  BY TypeCorrect, StackSafety, LateCommandSafety, ListenerSafety, PTL
<1>2. R!Spec => []RoughSafe
  <2>1. "kill" \notin {"serve"}
    OBVIOUS
  <2>2. /\ R!Spec => []R!TypeOK
        /\ R!Spec => []R!StackExclusive
        /\ R!Spec => []R!AtMostOneLateCommand
        /\ R!Spec => []R!ShutdownHitsListener
    BY <2>1, RoughConstants, R!TypeCorrect, R!StackSafety, R!LateCommandSafety, R!ListenerSafety
  <2> QED
    BY <2>2, PTL
<1>3. RoughSafe => Safe
  BY DEF R!TypeOK, R!StackExclusive, R!AtMostOneLateCommand, R!ShutdownHitsListener,
         R!Procs, R!MenuPCs, R!DeinitPCs, R!ThreadPCs, R!SocketStates, R!OnStack,
         TypeOK, StackExclusive, AtMostOneLateCommand, ShutdownHitsListener,
         Procs, MenuPCs, DeinitPCs, ThreadPCs, SocketStates, OnStack
<1> QED
  BY <1>1, <1>2, <1>3, CalmIsServer, RoughIsServer, PTL

\* Without "kill" every session leaves the option clean, whatever fails, whoever
\* runs first and however soon the user starts the next one.
THEOREM CleanWithoutKillSafety == MCSpec => []CleanWithoutKill
<1>1. R!Spec => []R!SessionClean
  <2>1. "kill" \notin {"serve"}
    OBVIOUS
  <2> QED
    BY <2>1, RoughConstants, R!CleanSafety
<1>2. R!SessionClean => SessionClean
  BY DEF R!SessionClean, SessionClean
<1> QED
  BY <1>1, <1>2, CalmIsServer, RoughIsServer, PTL DEF CleanWithoutKill

\* Both instances mean the same by the invariants of a start.
LEMMA RoughStart ==
    /\ R!TypeOK <=> TypeOK
    /\ R!StartInv <=> StartInv
    /\ R!HasThread <=> HasThread
BY DEF R!TypeOK, R!StartInv, R!HasThread, R!Procs, R!MenuPCs, R!DeinitPCs, R!ThreadPCs, R!SocketStates,
       R!OnStack, TypeOK, StartInv, HasThread, Procs, MenuPCs, DeinitPCs, ThreadPCs, SocketStates, OnStack

\* The types, on either kind of console and for any clients and users.
LEMMA MCTypeCorrect == MCSpec => []TypeOK
<1>1. R!Spec => []R!TypeOK
  BY RoughConstants, R!TypeCorrect
<1>2. R!TypeOK => TypeOK
  BY RoughStart
<1> QED
  BY <1>1, <1>2, TypeCorrect, CalmIsServer, RoughIsServer, PTL

\* A step of either kind of console.
LEMMA StartStep ==
    ASSUME TypeOK, TypeOK', StartInv, HasThread \/ early, [MCNext]_mcVars
    PROVE  StartInv' /\ (HasThread \/ early)'
<1>1. CASE UNCHANGED mcVars
  BY <1>1 DEF mcVars, vars, StartInv, HasThread, OnStack
<1>2. CASE MCNext
  <2>1. StartInv' /\ (HasThread /\ (\A t \in Threads : ~TestsTooEarly(t)) => HasThread')
    <3>1. CASE Next
      BY <3>1, StartInvStep, HasThreadStep
    <3>2. CASE R!Next
      <4>1. R!TypeOK /\ R!TypeOK' /\ R!StartInv
        BY RoughStart DEF R!TypeOK, R!Procs, R!MenuPCs, R!DeinitPCs, R!ThreadPCs, R!SocketStates,
                          TypeOK, Procs, MenuPCs, DeinitPCs, ThreadPCs, SocketStates
      <4>2. R!StartInv'
        BY <3>2, <4>1, RoughConstants, R!StartInvStep
      <4>3. HasThread /\ (\A t \in Threads : ~TestsTooEarly(t)) => R!HasThread'
        BY <3>2, <4>1, RoughStart, RoughConstants, R!HasThreadStep DEF TestsTooEarly, R!TestsTooEarly
      <4> QED
        BY <4>2, <4>3 DEF R!StartInv, StartInv, R!HasThread, HasThread, R!OnStack, OnStack
    <3> QED
      BY <1>2, <3>1, <3>2, RoughSteps DEF MCNext
  <2>2. pc[Menu] = "create" => HasThread'
    <3>1. pc[Menu] = "create" => HasThread /\ \A t \in Threads : ~TestsTooEarly(t)
      BY DEF StartInv, HasThread, TestsTooEarly
    <3> QED
      BY <2>1, <3>1
  <2>3. (early /\ pc[Menu] # "create") \/ (\E t \in Threads : TestsTooEarly(t)) => HasThread' \/ early'
    BY <1>2 DEF MCNext, TestsTooEarly
  <2> QED
    BY <1>2, <2>1, <2>2, <2>3
<1> QED
  BY <1>1, <1>2

\* Whatever fails, whoever runs first and whoever sends "kill", a server that is said to
\* run has a thread, unless its thread tested the flag before wupserver_init set it.
THEOREM HasThreadSafety == MCSpec => []HasThreadUnlessEarly
<1>1. MCInit => StartInv /\ (HasThread \/ early)
  BY WupConstants DEF MCInit, Init, StartInv, HasThread, Procs
<1>2. TypeOK /\ TypeOK' /\ StartInv /\ (HasThread \/ early) /\ [MCNext]_mcVars
        => StartInv' /\ (HasThread \/ early)'
  BY StartStep
<1>3. HasThread \/ early => HasThreadUnlessEarly
  BY DEF HasThread, HasThreadUnlessEarly, RunningHasThread
<1> QED
  BY <1>1, <1>2, <1>3, MCTypeCorrect, PTL DEF MCSpec

\* On either kind of console the sessions of the server are those of WupSession.
THEOREM MCSessionRefinement ==
    ASSUME Patient \/ "kill" \notin Commands
    PROVE  MCSpec => SessionSpec
<1>1. R!Spec => R!SessionSpec
  <2>1. "kill" \notin {"serve"}
    OBVIOUS
  <2> QED
    BY <2>1, RoughConstants, R!SessionRefinement
<1>2. R!SessionMode = SessionMode /\ R!SessionClient = SessionClient
  BY DEF R!SessionMode, R!IsOn, R!IsStopping, R!SessionClient, R!Answering, R!Served, R!Leaving,
         R!DeinitPCs, R!OnStack, SessionMode, IsOn, IsStopping, SessionClient, Answering, Served,
         Leaving, DeinitPCs, OnStack
<1>3. R!SessionMode' = SessionMode' /\ R!SessionClient' = SessionClient'
  BY DEF R!SessionMode, R!IsOn, R!IsStopping, R!SessionClient, R!Answering, R!Served, R!Leaving,
         R!DeinitPCs, R!OnStack, SessionMode, IsOn, IsStopping, SessionClient, Answering, Served,
         Leaving, DeinitPCs, OnStack
<1>4. R!Session!Init => Session!Init
  BY <1>2 DEF R!Session!Init, Session!Init
<1>5. [R!Session!Next]_(R!Session!sessionVars) => [Session!Next]_(Session!sessionVars)
  BY <1>2, <1>3
  DEF R!Session!Next, R!Session!Start, R!Session!Connect, R!Session!Execute, R!Session!Answer,
      R!Session!Leave, R!Session!Gone, R!Session!Stop, R!Session!Stopped, R!Session!sessionVars,
      Session!Next, Session!Start, Session!Connect, Session!Execute, Session!Answer, Session!Leave,
      Session!Gone, Session!Stop, Session!Stopped, Session!sessionVars
<1>6. R!SessionSpec => SessionSpec
  BY <1>4, <1>5, PTL DEF R!SessionSpec, R!Session!Spec, SessionSpec, Session!Spec
<1> QED
  BY <1>1, <1>6, SessionRefinement, CalmIsServer, RoughIsServer, PTL
=============================================================================
