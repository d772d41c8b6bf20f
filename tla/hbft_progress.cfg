CONSTANTS
    N = 4
    MaxSlot = 2
    MaxBlocks = 3
    MaxCrash = 0
    Scenarios <- MCRecovery
SPECIFICATION MCFairSpec
PROPERTIES BusyReleased SealedConnected
CHECK_DEADLOCK FALSE
