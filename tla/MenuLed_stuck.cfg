\* An installation may be cancelled, and chosen again.
SPECIFICATION MenuSpec
CONSTANTS
    Masks = {"off", "red", "redBlinking", "purple", "boot"}
    Purple = "purple"
    QueueSize = 1
    InitFails = FALSE
    Prompt = TRUE
    Cancels = TRUE
INVARIANTS LedMatchesMask
