SPECIFICATION FairSpec
CONSTANTS
    Peer = {p, q}
    Host = h
    Nobody = none
    MayLeave = {}
    Retrying = {}
    ChunkCount = 2
    ResyncPerPump = 1
    BarrierPerPump = 2
    Decodes = {TRUE, FALSE}
    Lossy = {"Chunk", "Ack", "Request"}
    InOrder = TRUE
    MaxFrame = 0
    MaxAsked = 2
    MaxTransfer = 4
    MaxInFlight = 0
PROPERTIES
    RepairEnds
    QueuedRepairStarts
CHECK_DEADLOCK FALSE
