\* A start may follow a kill while the killed thread still sleeps.
SPECIFICATION FairSpec
CONSTANTS
    Threads = {t1, t2}
    Menu = menu
    Fds = {f1, f2}
    Nil = Nil
    Commands = {"serve", "kill"}
    Faults = {}
    Preemptive = FALSE
    Patient = FALSE
PROPERTIES StopReturns
