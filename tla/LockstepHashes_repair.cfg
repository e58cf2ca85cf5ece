SPECIFICATION Spec
CONSTANTS
    Peer = {p}
    Host = h
    Interval = 2
    Window = 1
    InputHistory = 2
    InputDelay = 1
    KeepSlack = 0
    Windows = {2}
    SettingsFrames = 1
    KeptHashes = 4
    MaxPending = 1
    MaxFrame = 5
    MaxFaults = 1
    MaxMisses = 1
    NoFrame = none
INVARIANTS
    TypeOK
    HistoryIsCurrent
    PendingIsUnanswered
    RequestedSnapshotExists
PROPERTIES
    SettledHashesAreSent
CHECK_DEADLOCK FALSE
