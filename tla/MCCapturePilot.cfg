SPECIFICATION Spec
CONSTANTS
    Seconds = 3
    SetupSeconds = 2
    Holds = {1, 2}
    RetryPause = 2
    MaxTick = 1
    MaxCommands = 2
    None = None
INVARIANTS
    EveryPressEnds
    RecordedInputIsHeld
CHECK_DEADLOCK FALSE
