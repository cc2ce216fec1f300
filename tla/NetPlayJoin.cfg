SPECIFICATION Spec
CONSTANTS
    Clients = {0, 1}
    MaxFrames = 5
    HistSize = 9
    Lag = 1
    MaxBehind = 6
    Qt = FALSE
    Timely = TRUE
    Resyncs = {}
    MayPause = {}
    MayLeave = {1}
    MayReturn = FALSE
    MaxEvents = 1
INVARIANTS
    GameInStep
    HostFirstInputs
    NoHeartbeatBehindGame
    HeartbeatFindsGame
PROPERTIES
    EveryFramePlayed
CHECK_DEADLOCK FALSE
