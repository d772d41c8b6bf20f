CONSTANTS
    N = 4
    MaxSlot = 2
    MaxBlocks = 3
    MaxCrash = 1
    Scenarios <- MCFaults
SPECIFICATION MCSpec
INVARIANTS SealedHeld  NoPanic
PROPERTIES ImplementsAgreement
CHECK_DEADLOCK FALSE
