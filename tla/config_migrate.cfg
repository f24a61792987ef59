\* Three migrations begun by two processes, two edits by the operator.
SPECIFICATION CMSpec
CONSTANTS
    Nothing = Nothing
    Migrators = {a, b}
    MaxPolicyEdits = 2
    MaxCalls = 3
INVARIANTS
    RerunAccepted
PROPERTIES
    PolicyPreserved
CHECK_DEADLOCK FALSE
