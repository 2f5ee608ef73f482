SPECIFICATION EvdFairSpec
CONSTANTS
    s1 = s1
    s2 = s2
    Servers = {s1, s2}
    Configured <- MCConfigured
    Handles = {h1, h2}
    Searching = {h1}
    NoServer = noserver
    MaxInflight = 2
    MaxRetransmits = 2
    MaxReissues = 1
    MaxTimeouts = 0
    MaxTroubles = 1
INVARIANTS
    ListsSound
    AnsweredOnce
    NothingForgotten
PROPERTIES
    EveryRequestAnswered
CHECK_DEADLOCK FALSE
