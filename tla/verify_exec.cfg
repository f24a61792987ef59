\* Two files, a budget of two chunks, four written, two edits of the tree.
SPECIFICATION VXSpec
CONSTANTS
    Files = {f, g}
    Limit = 2
    PipeSize = 2
    MaxWritten = 4
    MaxTreeEdits = 2
INVARIANTS
    PassIsEarned
    
PROPERTIES
    SandboxReturns
CHECK_DEADLOCK FALSE
