SPECIFICATION FairSpec
CONSTANTS
    p1 = p1
    p2 = p2
    None = None
    Procs <- One
    Tasks <- Pair
    Deps <- Independent
    Paths <- PathPerTask
    Files <- Disjoint
    MissionTTL = 2
    LeaseTTL = 2
    MaxRetries = 1
    MaxTime = 3
    MaxHead = 0
    MaxStep = 2
    MaxRevision = 4
    MaxLedger = 4
    MaxCrashes = 1
    TornWrites = FALSE
INVARIANTS
    OneLiveWriter
PROPERTIES
    LifecycleSpec
    ResumeSettles
    
CHECK_DEADLOCK FALSE
