\* One user who only looks at the region.
CONSTANTS
    Faults = {}
    Sessions = {{"region"}}
    Logs = {"cafe.log", "wiiu.log"}
    Directories = {"dir"}
    MaxBlocks = 2
    Regions = {0, 1}
    AreaBits = {0, 1, 3}
    MaxSockets = 2
    CfgFiles <- MCCfgFiles
    TitleCounts = {4, 7}
    DRC_PAIRING_TIMEOUT = 4
SPECIFICATION MCSpec
CHECK_DEADLOCK FALSE
INVARIANTS InvalidAreaIsRepaired
