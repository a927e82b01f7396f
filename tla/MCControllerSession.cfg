SPECIFICATION FairSpec
CONSTANTS
    Sessions = {p1, p2}
    Stray = Stray
    None = None
INVARIANTS
    OnePad
    PadOutlivesGame
PROPERTIES
    NoPadJoinsAGame
    InputIsReleased
    ControllerComesFree
