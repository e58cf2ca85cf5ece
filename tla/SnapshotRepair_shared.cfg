SPECIFICATION Spec
CONSTANTS
    Peer = {p, q}
    Host = h
    Nobody = none
    MayLeave = {q}
    Retrying = {q}
    ChunkCount = 2
    ResyncPerPump = 1
    BarrierPerPump = 2
    Decodes = {TRUE, FALSE}
    Lossy = {"Chunk"}
    InOrder = TRUE
    MaxFrame = 1
    MaxAsked = 1
    MaxTransfer = 2
    MaxInFlight = 0
INVARIANTS
    TypeOK
    InstalledSnapshotIsWhole
    HostStandsStillDuringTransfer
PROPERTIES
    RepairEndsWhenInstalled
CHECK_DEADLOCK FALSE
