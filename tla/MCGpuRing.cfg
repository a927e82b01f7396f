SPECIFICATION Spec
CONSTANTS
    Frames = {f1, f2, f3}
    Unusable = {f3}
    Capacity = 3
    Budget = 2
    MaxSequence = 5
    None = None
INVARIANTS
    TypeOK
    ActionIsOfItsFrame
    ClosedIsQuiet
PROPERTIES
    StagingIsFree
    ImplementsFifo
CHECK_DEADLOCK FALSE
