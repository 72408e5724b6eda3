\* One installation after another; every call may fail, and the build may reorder
\* the two stores.  When IOS_ReceiveMessage fails the menu polls for ever.
SPECIFICATION FairSpec
CONSTANTS
    Results = {"ok", "error"}
    Unset = Unset
    Null = Null
    Reply = Reply
    Faults = {"open", "info", "target", "queue", "create", "start", "async", "receive"}
    Reorder = TRUE
INVARIANTS TypeOK ReportTruthful RequestOutlivesUsers NothingLeft
PROPERTIES InstallReported
CHECK_DEADLOCK FALSE
