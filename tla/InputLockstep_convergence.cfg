SPECIFICATION FairSpec
CONSTANTS
    host = host
    peer = peer
    Node <- TwoNodes
    Host <- host
    Player <- TwoPlayers
    Owner <- OwnerOfTwo
    Input = {0, 1}
    Sampled <- HostVaries
    Neutral = 0
    NoRecord = NoRecord
    NotStepped = NotStepped
    NoSnapshot = NoSnapshot
    InputDelay = 1
    MaxRollback = 2
    InputHistory = 2
    KeepSlack = 1
    RecordsPerPacket = 6
    MaxFrame = 3
    OnlyNewestSurvive = TRUE
PROPERTIES ImplementsAgreedInputs Converges
