SPECIFICATION Spec
CONSTANTS
    Peer = {a, c}
    Host = h
    Initial = {}
    MayJoin = {a, c}
    MayLeave = {}
    OtherContent = {c}
    MaxRequest = 1
    Decodes = {TRUE, FALSE}
    InputDelay = 1
    Ahead = 1
    InOrder = FALSE
    MaxFrame = 0
    MaxBarrier = 3
    MaxTransfer = 3
    MaxInFlight = 4
    Nobody = Nobody
    NoSnapshot = NoSnapshot
PROPERTIES NobodyLeavesEarly TransferIsAnswered
CHECK_DEADLOCK FALSE
