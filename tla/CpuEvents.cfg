SPECIFICATION Spec
CONSTANTS
    Dot = 2
    H_Max_Master = 14
    V_Max_Master = 5
    HDMAInit = 1
    RenderPos = 5
    WRAMRefreshPos = 7
    HBlankStart = 10
    HDMAStart = 11
    RefreshCycles = 2
    ShortLine = 3
    LongDots = {2, 3}
    SNES_HEIGHT = 1
    SNES_HEIGHT_EXTENDED = 2
    None = None
    ResetCycles = 2
    IRQTriggerCycles = 3
    NMIStart = 2
    NMIEdge = 1
    NMIDMADelay = 4
    WakeCost = 2
    InterruptCost = 4
    FetchCost = 2
    OpCosts = {2}
    HDMACosts = {0, 4}
    DMAUnit = 4
    HTimes = {0, 5}
    VTimes = {1, 3}
    Enables = {{}, {"nmi"}, {"v"}, {"h"}, {"nmi", "v", "h"}}
    Interlaces = {FALSE, TRUE}
    MaxLate = 6
    Unset = 9
INVARIANTS TimerAimed NmiImminent
PROPERTIES WaitEnds FramesReturn
