\* Restores may meet calls, and installations may be cancelled.
SPECIFICATION MCSpec
CONSTANTS
    Masks = {"off", "red", "redBlinking", "purple", "boot"}
    Purple = "purple"
    QueueSize = 1
    InitFails = TRUE
    Prompt = FALSE
    Cancels = TRUE
INVARIANTS MenuTypeOK FlashRestored ReadyIsPurpleUnspoilt LedMatchesMaskUnspoilt
PROPERTIES LedSpec FlashEnds
