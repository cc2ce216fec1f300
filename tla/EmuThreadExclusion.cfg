SPECIFICATION EmuSpec
CONSTANTS
    MaxActs = 4
INVARIANTS
    UsesExclude
CHECK_DEADLOCK FALSE
