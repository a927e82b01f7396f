SPECIFICATION RecordedSpec
CONSTANTS
    Landmarks <- MCLandmarks
    Inputs = {"confirm", "right", "shoot"}
    Goal = "victory"
    NoEdge = NoEdge
    Mode <- MCMode
    ActionsOf <- MCActionsOf
    HoldFrames <- MCHoldFrames
    Calibrated <- MCCalibrated
    Unknown = Unknown
    NavigationOnly = FALSE
    Confirmations = 2
    Capacity = 2
    Clip = 4
    MaxSteps = 3
    MaxVideo = 2
    RecordedSteps = 1
    None = None
    MaxUnknown = 2
    SaveEvery = 2
    Banks <- MCBanks
INVARIANTS
    VideoIsComplete
    VictoryIsWitnessed
    PadIsReleased
    LatentsAreOfTheirMoment
    BankKeepsNewest
    NextEdgeIsShortest
    BankIsSaved
CHECK_DEADLOCK FALSE
