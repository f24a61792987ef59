SPECIFICATION FairSpec
CONSTANTS
    Procs = {p1, p2}
    Grants = {g1}
    Human = Human
    None = None
    Covers <- All
    MaxUses = 2
    MaxRevision = 4
    MaxCycle = 2
    MaxCrashes = 1
INVARIANTS
    
    StaleNeverPlanned
PROPERTIES
    RevokedApprovesNothing
    ReservationSettles
CHECK_DEADLOCK FALSE
