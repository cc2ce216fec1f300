SPECIFICATION Spec
CONSTANTS
    Clients = {0}
    MaxFrames = 7
    HistSize = 6
    Lag = 1
    MaxBehind = 3
    Qt = TRUE
    Timely = TRUE
    Resyncs = {}
    MayPause = {0}
    MayLeave = {}
    MayReturn = TRUE
    MaxEvents = 1
INVARIANTS
    InputsInStep
    PauseIsOwned
PROPERTIES
    PauseEnds
CHECK_DEADLOCK FALSE
