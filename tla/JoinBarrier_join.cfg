SPECIFICATION Spec
CONSTANTS
    Peer = {a, b}
    Host = h
    Initial = {a}
    MayJoin = {b}
    MayLeave = {}
    OtherContent = {}
    MaxRequest = 2
    Decodes = {TRUE}
    InputDelay = 1
    Ahead = 1
    InOrder = TRUE
    MaxFrame = 2
    MaxBarrier = 2
    MaxTransfer = 3
    MaxInFlight = 3
    Nobody = Nobody
    NoSnapshot = NoSnapshot
INVARIANTS TypeOK JoinersFollowTheHost
PROPERTIES ResumeWhenReady ResumeWithOneTopology
CHECK_DEADLOCK FALSE
