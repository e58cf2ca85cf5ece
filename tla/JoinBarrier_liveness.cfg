SPECIFICATION FairSpec
CONSTANTS
    Peer = {a, b}
    Host = h
    Initial = {a}
    MayJoin = {b}
    MayLeave = {a}
    OtherContent = {}
    MaxRequest = 1
    Decodes = {TRUE}
    InputDelay = 1
    Ahead = 1
    InOrder = TRUE
    MaxFrame = 0
    MaxBarrier = 2
    MaxTransfer = 3
    MaxInFlight = 1
    Nobody = Nobody
    NoSnapshot = NoSnapshot
PROPERTY BarrierEnds
CHECK_DEADLOCK FALSE
