SPECIFICATION SocketsSpec
CONSTANTS
    Addr = {a1, a2}
    Handlers = {h1, h2}
    Calls = {"close", "pendClose", "send", "sendEmpty", "stop"}
    IndexSpace = 2
    UidSpace = 4
    MaxConnects = 3
    MaxActions = 2
    MaxOut = 2
    MinSize = 2
    ChainSize = 1
    MaxAuto = 4
    MaxRealign = 2
    MaxCopy = 1
    NumVecs = 2
    MaxRead = 3
    MaxChunk = 2
    MaxBytes = 3
    Marks = {0, 2}
    Careful = TRUE
SYMMETRY CellsAndHandlers
INVARIANTS
    NoCrossTalk
    SocketsSound
    BuffersSound
    ReadingResumes
    OutputScheduled
PROPERTIES
    PendCloseDrainsFirst
CHECK_DEADLOCK FALSE
