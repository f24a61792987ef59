SPECIFICATION Spec
CONSTANTS
    t1 = t1
    t2 = t2
    Done = {t1}
    None = None
    Tasks <- Two
    Dependents <- Chain
    FirstRevision = 1
    MaxRevision = 4
    MaxFaults = 1
INVARIANTS
    RecoveryCompletes
    LeaseOfCurrentAttempt
PROPERTIES
    LedgerSpec
    RecordsKept
CHECK_DEADLOCK FALSE
