\* Any two files on the SD card, any presses, and every call may fail.  The system
\* stops once it has rebooted.
SPECIFICATION FairSpec
CONSTANTS
    Timeout = 2
    Images <- AllImages
    Eeproms <- AllEeproms
    Supported = {2}
    Events = {"power"}
    Faults = {"eeprom", "decrypt", "open", "heap", "read", "prsh"}
INVARIANTS TypeOK NothingHeld BootWhole VersionIsActive HeldButtonCancels
PROPERTIES CountdownEnds LoadEnds
CHECK_DEADLOCK FALSE
