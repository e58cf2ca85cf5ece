SPECIFICATION Spec
CONSTANTS
    host = host
    peer = peer
    Node <- TwoNodes
    Host <- host
    Player <- TwoPlayers
    Owner <- OwnerOfTwo
    Input = {0, 1}
    Sampled <- HostVaries
    Neutral = 0
    NoRecord = NoRecord
    NotStepped = NotStepped
    NoSnapshot = NoSnapshot
    InputDelay = 1
    MaxRollback = 3
    InputHistory = 3
    KeepSlack = 0
    RecordsPerPacket = 8
    MaxFrame = 4
    OnlyNewestSurvive = FALSE
INVARIANTS DroppedFramesAgree MissingInputIsResent WrongInputIsRolledBack RollbackIsExact
CHECK_DEADLOCK FALSE
