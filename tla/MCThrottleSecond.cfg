SPECIFICATION Spec
CONSTANTS
    Rates <- MCRates
    CHUNK = 3
    SECOND = 2
    LinkSpeed = 6
    MaxTime = 8
INVARIANT SecondBounded
CHECK_DEADLOCK FALSE
