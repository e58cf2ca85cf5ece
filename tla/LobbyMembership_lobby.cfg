SPECIFICATION Spec
CONSTANTS
    Endpoint = {e1, e2}
    MaxId = 3
    Item = {x}
    Counts = {1}
    Earlier = {}
    SpawnModes = {"Retained", "Fresh"}
    Lifetime = 1
    Window = 2
    AcrossChanges = FALSE
    MaxPlayed = 3
    MaxStage = 1
    MaxRequests = 3
    MaxCuts = 1
INVARIANTS TypeOK EveryPlayerHasAnEndpoint ItemsAreInOnePlace RecordsAreOfTheAbsent
PROPERTIES RecordGoesToWhoAskedForIt RecordsAreKeptUntilGivenBack
SYMMETRY AnyEndpoint
CHECK_DEADLOCK FALSE
