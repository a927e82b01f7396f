SPECIFICATION DatasetSpec
CONSTANTS
    MaxFrames = 2
    MaxTakes = 2
    None = None
    Torn = Torn
    Legacy = Legacy
    Kinds <- MCKinds
    Outcomes <- MCOutcomes
    Provisional <- MCProvisional
    Strata <- MCStrata
    Libraries <- MCLibraries
    Samples = 5
    MinSamples = 4
    MinFrames = 8
    MinAttempts = 2
    MinDeaths = 1
    MinRest = 1
INVARIANTS
    ReadsOneTake
    ReadableMeansFinalized
    CertifiedIsAligned
    RecordingIsReadable
    CountedIsReviewed
    StalePassIsInvalidated
    SamplesCoverDataset
CHECK_DEADLOCK FALSE
