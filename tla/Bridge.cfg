SPECIFICATION FairSpec
CONSTANTS
    BroadcastDepth = 2
    WireDepth = 2
    OutDepth = 2
    InitialBackoff = 1
    MaxBackoff = 6
    MaxSent = 6
    MaxFaults = 2
INVARIANTS TypeOK NoSilentHole Ordered
PROPERTIES InOrder ComesBack NothingStuck
CHECK_DEADLOCK FALSE
