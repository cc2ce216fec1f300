SPECIFICATION Spec
CONSTANTS
    Clients = {0, 1}
    MaxFrames = 1
    HistSize = 2
    Lag = 1
    MaxBehind = 0
    Qt = TRUE
    Timely = TRUE
    Resyncs = {"SYNC_ALL", "SEND_ROM_IMAGE"}
    MayPause = {0}
    MayLeave = {1}
    MayReturn = TRUE
    MaxEvents = 1
VIEW Control
CONSTRAINT Unlost
INVARIANTS
    PauseIsCorrected
    ReadyIsOwned
    ClientsCounted
CHECK_DEADLOCK FALSE
