---------------------------- MODULE MCWupServer ----------------------------
(***************************************************************************)
(* WupServer as TLC checks it: two thread identifiers, so that one session *)
(* can overlap the next, and three descriptors, a listener, a client and   *)
(* one that an earlier session leaked.                                     *)
(*                                                                         *)
(* Two kinds of console are checked in one run.  On a calm one no call of  *)
(* the server fails, the creator of a thread is not preempted and the user *)
(* waits for the old threads before the next start, but clients may send   *)
(* the kill command.  On a rough one calls fail, the scheduler may run the *)
(* new thread first and nobody waits, but no client sends kill.            *)
(***************************************************************************)
EXTENDS WupServer

VARIABLES
    calm,   \* is this a calm console?
    early   \* history: has a thread tested serverRunning before the start that it belongs to set it?

mcVars == <<vars, calm, early>>

Rough == INSTANCE WupServer WITH
    Commands <- {"serve"}, Preemptive <- TRUE, Patient <- FALSE,
    Faults <- {"netconf", "create", "start", "bind", "listen", "accept"}

MCInit == Init /\ calm \in BOOLEAN /\ early = FALSE

MCNext ==
    /\ IF calm THEN Next ELSE Rough!Next
    /\ early' = (pc[Menu] # "create" /\ (early \/ \E t \in Threads : TestsTooEarly(t)))
    /\ UNCHANGED calm

\* The kernel runs every ready thread, on either kind of console.
MCMenuStep      == IF calm THEN MenuStep ELSE Rough!MenuStep
MCServerStep(t) == IF calm THEN MayRun /\ ServerStep(t) ELSE Rough!MayRun /\ Rough!ServerStep(t)

MCFairness == WF_vars(MCMenuStep) /\ \A t \in Threads : WF_vars(MCServerStep(t))

MCSpec == MCInit /\ [][MCNext]_mcVars /\ MCFairness

-----------------------------------------------------------------------------

\* Without the kill command every session leaves the option clean.
CleanWithoutKill == ~calm => SessionClean

\* While the option waits and serverRunning is set there is a server thread, whatever
\* failed and whoever sent "kill": the one way to a server without a thread is that the
\* new thread runs before wupserver_init has set the flag.
HasThreadUnlessEarly == RunningHasThread \/ early

\* On a calm console the server goes on accepting, as long as its clients leave at last.
CalmAccepts == calm => (ClientFairness => KeepsAccepting)
=============================================================================
