\* Two rows, two files, two missions, every mix of profile, phase and freshness.
SPECIFICATION Spec
CONSTANTS
    None = None
    Tasks = {t1, t2}
    Paths = {p, q}
    LeaseTTL = 1
    MaxTime = 2
    MaxHead = 2
    MaxMissions = 2
    MaxEdits = 2
SYMMETRY Symmetric
INVARIANTS
    AdvertisedAccepted
    WorkStaysInScope
    ClaimantCanWork
CHECK_DEADLOCK FALSE
