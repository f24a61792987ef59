\* Two processes, two commits, one artifact, three lines a ledger, one crash.
SPECIFICATION Spec
CONSTANTS
    Procs = {p, q}
    Heads = {h1, h2}
    Artifacts = {a}
    Environments = {e}
    UserKeys = {k}
    MaxRevision = 2
    MaxLines = 3
    MaxCrashes = 1
CONSTRAINT Bounded
SYMMETRY Symmetry
INVARIANTS
    BoundToRelease
    EnvelopeOnce
    
CHECK_DEADLOCK FALSE
