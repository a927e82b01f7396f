SPECIFICATION FairLoopSpec
CONSTANTS
    Frames = {f1, f2}
    Unusable = {f2}
    Capacity = 2
    Budget = 1
    MaxSequence = 4
    Count = 4
    None = None
INVARIANTS
    FetchedFramesAreSubmitted
    ClosedIsQuiet
PROPERTY
    LoopDelivers
CHECK_DEADLOCK FALSE
