SPECIFICATION EvdSpec
CONSTANTS
    s1 = s1
    s2 = s2
    Servers = {s1, s2}
    Configured <- MCConfigured
    Handles = {h1}
    Searching = {h1}
    NoServer = noserver
    MaxInflight = 1
    MaxRetransmits = 2
    MaxReissues = 1
    MaxTimeouts = 0
    MaxTroubles = 0
INVARIANT WaitsForRoom
CHECK_DEADLOCK FALSE
