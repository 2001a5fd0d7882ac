SPECIFICATION WorkerSpec
CONSTANTS
    Rates <- MCRates
    CHUNK = 3
    SECOND = 2
    LinkSpeed = 4
    MaxTime = 5
    Modes = {"download", "upload"}
    Durations = {0, 1}
    BODY = 4
INVARIANTS
    MeanRateBounded
    SleepBounded
    UploadsAreWhole
    StopIsPrompt
PROPERTY
    ImplementsThrottle
\* The program ends.
CHECK_DEADLOCK FALSE
