CONSTANTS
  Tasks = {t1, t2}
  TestTasks = {t1}
  Procs = {p, q}
  None = None
  MaxFails = 1
  MaxHead = 1
  MaxSessions = 2
  MaxAcks = 2
  MaxNonces = 2
  MaxEvidence = 4
  MaxAttempt = 2
  MaxClock = 1
  MaxCrashes = 1
  MaxEffort = 3
SPECIFICATION Spec
SYMMETRY Symmetric
CONSTRAINT Bounded
INVARIANTS
    
    NonceSpentOnce
    
    RatchetHolds
CHECK_DEADLOCK FALSE
