SPECIFICATION EmuSpec
CONSTANTS
    MaxActs = 5
INVARIANTS
    OneMoreFrame
    BitsFollowCounts
PROPERTIES
    CallsReturn
    GameRuns
CHECK_DEADLOCK FALSE
