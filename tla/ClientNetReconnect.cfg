SPECIFICATION NetSpec
CONSTANTS
    HeaderLen = 2
    InMax = 5
    SizeMod = 8
    Sizes = {3}
    MaxPackets = 2
    MaxConnects = 2
INVARIANTS
    FramesAlwaysWhole
CHECK_DEADLOCK FALSE
