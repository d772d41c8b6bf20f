CONSTANTS
    N = 4
    MaxSlot = 2
    MaxBlocks = 3
    MaxCrash = 0
    Scenarios <- MCLate
SPECIFICATION MCSpec
INVARIANTS WorkCommitted
CHECK_DEADLOCK FALSE
