CONSTANTS
    o1 = o1
    o2 = o2
    o3 = o3
    n1 = n1
    n2 = n2
    h1 = h1
    h2 = h2
    Handler = {h1, h2}
    MaxStarts = 3
    MaxStops = 2
    Node = {n1, n2}
    Election <- MCElections
    Genesis <- MCGenesis
    Period = 2
    Slots = 2
    MinLen = 1
    MaxRestart = 1
    MaxRefused = 1
    Miner = {m1, m2}
    Officer = {o1, o2, o3}
    Police <- Changing
    Half = 1
    IgnoreGap = 1
    Duplicates = FALSE
    MaxTerm = 3
    MaxNum = 2
    MaxAdds = 2
    MaxCalls = 5
SPECIFICATION MCSpec
SYMMETRY Alike
INVARIANTS NewestHeld PreviousFound  JournalKeeps 
CHECK_DEADLOCK FALSE
