CONSTANTS
    Msg <- MCMsg
    Prim <- MCPrims
    HandleTicks = 3
    SendTicks = 2
    r1 = r1
    r2 = r2
    r3 = r3
    s1 = s1
    s2 = s2
    s3 = s3
    Me = me
    Replica = {r1, r2, r3}
    Answering = {r1, r2, r3}
    MaxOpen = 1
    Import = FALSE
    Stale = 0
    Delayed = FALSE
SPECIFICATION MCSpec
SYMMETRY Alike
INVARIANTS ReplyToItsPrimary ReplyHandedOver  SealedLinked 
CHECK_DEADLOCK FALSE
