SPECIFICATION Spec
CONSTANTS
    host = host
    peer = peer
    Node <- TwoNodes
    Host <- host
    Player <- TwoPlayers
    Owner <- OwnerOfTwo
    Input = {0, 1}
    Sampled <- PeerVaries
    Neutral = 0
    NoRecord = NoRecord
    NotStepped = NotStepped
    NoSnapshot = NoSnapshot
    InputDelay = 1
    MaxRollback = 1
    InputHistory = 2
    KeepSlack = 0
    RecordsPerPacket = 2
    MaxFrame = 3
    OnlyNewestSurvive = FALSE
INVARIANTS TypeOK OneInputPerFrame CanonicalAgreement WithinWindow
CHECK_DEADLOCK FALSE
