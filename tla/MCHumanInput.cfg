SPECIFICATION Spec
CONSTANTS
    Backends = {"evdev", "inputs", "x11", "scripted"}
    Positions <- MCPositions
    MaxQueue = 2
    Script <- MCScript
    None = None
INVARIANTS
    ThreadKeepsUp
    DeadReaderIsNoticed
PROPERTIES
    PollIsCurrent
    LostFocusIsNoticed
CHECK_DEADLOCK FALSE
