SPECIFICATION SysSpec
CONSTANTS
    Waiters = {t1, t2}
    AutoReset = TRUE
    MaxSets = 3
    MaxId = 6
    ResourceCells = {r1, r2}
    PtrCells = {p1, p2}
    Null = null
    MaxGen = 2
    TimerCells = {c1, c2}
    NoTimer = none
    Intervals = {1, 2}
    Counts <- MCCounts
    MaxTime = 3
    Addr = {a1}
    Handlers = {}
    Calls = {"send", "closeCall", "stop"}
    IndexSpace = 4
    UidSpace = 4
    MaxConnects = 2
    MaxActions = 2
    MaxOut = 1
INVARIANTS
    NobodySleepsWhileSignalled
    OneResumePerSet
    TrueMeansSignalled
    FreeRangesExact
    PointersSafe
    FiresAsAsked
PROPERTIES
    SignalReleasesWaiters
    TimersInOrder
    EveryActionRuns
    StopEndsLoop
CHECK_DEADLOCK FALSE
