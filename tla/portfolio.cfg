\* Three slugs, two processes, two failed writes or one crash.
SPECIFICATION Spec
CONSTANTS
    None = None
    Specs = {a, b, c}
    Procs = {p, q}
    Kinds <- MCKinds
    Supersedes = "supersedes"
    Regresses = "regresses"
    MaxFaults = 2
    MaxCrashes = 1
CONSTRAINT Bounded
SYMMETRY Symmetry
INVARIANTS
    Acyclic
PROPERTIES
    HistoryKept
    
CHECK_DEADLOCK FALSE
