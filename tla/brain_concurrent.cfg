SPECIFICATION Spec
CONSTANTS
    p1 = p1
    p2 = p2
    None = None
    Procs <- Two
    Tasks <- Pair
    Deps <- Independent
    Paths <- OnePath
    Files <- Shared
    MissionTTL = 1
    LeaseTTL = 1
    MaxRetries = 1
    MaxTime = 1
    MaxHead = 1
    MaxStep = 2
    MaxRevision = 4
    MaxLedger = 3
    MaxCrashes = 1
    TornWrites = TRUE
SYMMETRY Symmetry
PROPERTIES
    MissionsNeverForgotten
    CancelIsFinal
    LiveLeaseKept
CHECK_DEADLOCK FALSE
