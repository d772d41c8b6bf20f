CONSTANTS
    N = 4
    MaxSlot = 3
    MaxBlocks = 4
    MaxCrash = 0
    Scenarios <- MCRounds
SPECIFICATION MCSpec
INVARIANTS TypeOK CertifiedChain QuorumsMeet LockKept 
CHECK_DEADLOCK FALSE
