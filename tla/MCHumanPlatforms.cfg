SPECIFICATION Spec
CONSTANTS
    Backends = {"inputs"}
    Positions <- MCPositions
    MaxQueue = 2
    Script <- MCScript
    None = None
INVARIANT
    PlatformsAgree
