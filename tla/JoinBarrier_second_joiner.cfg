SPECIFICATION Spec
CONSTANTS
    Peer = {a, b, c}
    Host = h
    Initial = {c}
    MayJoin = {a, b}
    MayLeave = {}
    OtherContent = {}
    MaxRequest = 1
    Decodes = {TRUE}
    InputDelay = 1
    Ahead = 1
    InOrder = TRUE
    MaxFrame = 0
    MaxBarrier = 2
    MaxTransfer = 3
    MaxInFlight = 2
    Nobody = Nobody
    NoSnapshot = NoSnapshot
PROPERTIES ResumeWithOneTopology
CHECK_DEADLOCK FALSE
