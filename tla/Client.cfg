SPECIFICATION ClientSpec
CONSTANTS
    Ids = {t1, t2}
    MaxStarts = 2
    HeaderLen = 2
    InMax = 5
    SizeMod = 8
    Sizes = {2, 3, 5}
    MaxPackets = 3
    MaxConnects = 2
    Producers = {p1, p2}
    Consumer = c
    NoThread = none
    Null = Null
    Msg = {m1, m2}
    Forms = {"poll", "timed", "event"}
    Batches = TRUE
    MaxPushes = 4
INVARIANTS
    ClientTypeOK
    ArmedTimersExist
    SafeOnceJoined
    FramingExact
    QueueExact
PROPERTIES
    TimersStayArmed
    StopEndsThread
    EveryPacketFramed
    FetchedVectorStable
    ImplementsChannel
    MessagesDelivered
    SignalledPushDelivered
CHECK_DEADLOCK FALSE
