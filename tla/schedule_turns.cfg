CONSTANTS
    N = 4
    Min = 4
    Max = 8
    Cnt = 1
    Avgs <- SomeAvgs
    Sums <- SomeSums
    Skew = 1
    Node = {1, 2}
    MaxTime = 33
    MaxBlocks = 3
    MaxRestart = 1
SPECIFICATION Spec
INVARIANTS
    SameView
    OneProposer
    ViewAfterHead
CHECK_DEADLOCK FALSE
