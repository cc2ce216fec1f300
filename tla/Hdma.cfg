SPECIFICATION Spec
CONSTANTS
    Channels = {0, 1}
    Space = 8
    Block = 4
    Mapped = {0}
    Flag = 3
    TableLength = 3
    Bytes = {0, 3, 5}
    Sizes = {1}
    Starts = {0}
    Addresses = {1}
    Words = {1}
    Counts = {5}
    ScreenHeight = 3
    MaxWrites = 2
INVARIANTS TypeOK FollowsTable PointerFollows DMAAlone
