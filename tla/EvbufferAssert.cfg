SPECIFICATION BevSpec
CONSTANTS
    MinSize = 2
    ChainSize = 1
    MaxAuto = 4
    MaxRealign = 2
    MaxCopy = 1
    NumVecs = 2
    MaxRead = 2
    MaxChunk = 2
    MaxBytes = 3
    Marks = {0, 2}
    Careful = FALSE
INVARIANTS
    AssertionsHold
CHECK_DEADLOCK FALSE
