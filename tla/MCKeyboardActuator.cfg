SPECIFICATION KeySpec
CONSTANT
    Inputs <- MCInputs
INVARIANT
    InterruptReleasesKeys
CHECK_DEADLOCK FALSE
