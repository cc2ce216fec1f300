SPECIFICATION Spec
CONSTANTS
    BufSize = 4
    StateSize = 2
    Bits = {b1}
INVARIANTS
    BottomIsBoundary
    ScanEnds
PROPERTIES
    ImplementsStack
