CONSTANTS
    N = 4
    Splits <- MCSplits
    MaxBlk = 10
    MaxView = 8
SPECIFICATION MCSpec
INVARIANTS  SplitEnds
CHECK_DEADLOCK FALSE
