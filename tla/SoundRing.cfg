SPECIFICATION Spec
CONSTANTS
    Size = 8
    Blocks = {2}
    Requests = {2, 4}
    MaxPolls = 1
INVARIANTS
    CellsApart
    WaitedBlockFits
PROPERTIES
    ImplementsQueue
    Drains
