\* The countdown as README.md describes it.
SPECIFICATION Spec
CONSTANTS
    Timeout = 5
    Images <- FewImages
    Eeproms <- AllEeproms
    Supported = {2}
    Events = {"power"}
    Faults = {}
INVARIANTS AutobootOnTime
CHECK_DEADLOCK FALSE
