SPECIFICATION FairSpec
CONSTANTS
    a = a
    c = c
    P = P
    Q = Q
    None = None
    Threads <- Duo
    Process <- Shared
    Timeout = 1
    Stale = 2
    MaxDepth = 2
    MaxPause = 1
    MaxHold = 2
    MaxFaults = 2
INVARIANTS
    ExclusiveWithoutFaults
PROPERTIES
    CallReturns
    OrphanReclaimed
CHECK_DEADLOCK FALSE
