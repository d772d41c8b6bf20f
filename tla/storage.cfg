CONSTANTS
    Farmer = {f1, f2}
    s1 = s1
    s2 = s2
    Chunks <- MCChunks
    Slow = TRUE
    Lagging = TRUE
    Faults = {"err", "nil"}
    DownFaults = {"err", "share", "nil", "disk"}
    MaxFaults = 2
    Piece = 4
    Block = 2
    Bytes = {0, 1, 2}
    Sizes <- MCSizes
SPECIFICATION MCSpec
INVARIANTS   BufferStable BytesKept  
PROPERTIES  WritesSpread
CHECK_DEADLOCK FALSE
