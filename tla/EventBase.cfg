SPECIFICATION EbFairSpec
CONSTANTS
    io = io
    timer = timer
    ExitEv = exit
    NotifyEv = notify
    NoEvent = none
    Events = {io, timer, exit}
    Io = {io}
    Persistent = {io}
    Pri <- MCPri
    NPri = 2
    Deferred = {d1}
    MaxDeferred = 1
    Threads = {t1}
    Loop = L
    Intervals = {1}
    Flags = {"0", "once", "nonblock"}
    MaxTime = 2
    MaxLoops = 1
    MaxCalls = 3
INVARIANTS
    EbSound
    WakesInTime
PROPERTIES
    RunsOnlyWanted
    PriorityOrder
    LoopProgresses
    DelReturns
CHECK_DEADLOCK FALSE
