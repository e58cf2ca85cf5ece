SPECIFICATION FairSpec
CONSTANTS
    Peer = {p}
    Host = h
    Joining = {p}
    InputDelay = 1
    Window = 2
    SafetyFrames = 3
    SettingsFrames = 0
    Assumed = {"heard", "margin", "settled", "apart", "joins"}
    MaxFrame = 5
    ExitFrames = {2, 4}
    MaxStage = 3
    MaxRestart = 2
    MaxSettings = 1
    MaxAsked = 2
    NoFrame = NoFrame
    Nothing = Nothing
INVARIANTS TypeOK StagesAgree RestartedOncePerRequest SettingsAreOfOneStage
PROPERTIES EverybodyFollows
CHECK_DEADLOCK FALSE
