CONSTANTS
    Node = {n1, n2, n3, n4}
    Committee = {c1, c2}
    ElectionBlockCount = 1
    BFTSealersWorkDelay = 2
    MaxLamp = 3
    MaxBlocks = 6
SYMMETRY TermSymmetry
SPECIFICATION Spec
INVARIANTS TermBoundary LampBaseMonotone SealersKnown
CHECK_DEADLOCK FALSE
