\* Reading the SEEPROM may fail.
SPECIFICATION Spec
CONSTANTS
    Timeout = 0
    Images <- FewImages
    Eeproms <- AllEeproms
    Supported = {2}
    Events = {"power"}
    Faults = {"eeprom", "heap"}
INVARIANTS ReadFailureStops
CHECK_DEADLOCK FALSE
