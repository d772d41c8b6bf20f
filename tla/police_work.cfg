CONSTANTS
    p1 = p1
    p2 = p2
    p3 = p3
    j1 = j1
    j2 = j2
    j3 = j3
    Batch <- MCBatches
    Valid <- MCValid
    Pusher = {p1, p2}
    Cap = 1
    MaxCalls = 3
    MaxStarts = 2
    MaxStops = 1
    Job = {j1, j2, j3}
    JobBatch <- MCBatch
    Peer = {p1, p2, p3}
    PeerFork <- MCFork
    PeerHead <- MCHead
    OwnHead = 5
    ForkAt = 2
    MaxFetch = 2
    Faulty = TRUE
SPECIFICATION MCSpec
INVARIANTS OneVerification AcceptedReported MatchSound
CHECK_DEADLOCK FALSE
