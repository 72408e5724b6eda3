\* Calm consoles, as set here, and rough ones.  When IOS_StartThread fails the menu
\* waits for ever for a thread that never ran: the system really stops there.
SPECIFICATION MCSpec
CONSTANTS
    Threads = {t1, t2}
    Menu = menu
    Fds = {f1, f2, f3}
    Nil = Nil
    Commands = {"serve", "kill"}
    Faults = {"netconf"}
    Preemptive = FALSE
    Patient = TRUE
INVARIANTS TypeOK StackExclusive CleanWithoutKill HasThreadUnlessEarly ShutdownHitsListener
PROPERTIES CalmAccepts StopReturnsUnlessHeld StoppedThreadEnds SessionSpec
CHECK_DEADLOCK FALSE
