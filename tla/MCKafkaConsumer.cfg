SPECIFICATION MCSpec
CONSTANTS
    Consumers = {c1, c2}
    Partitions <- MCPartitions
    p1 = p1
    p2 = p2
    MaxOffset = 2
    MaxInFlight = 1
    MaxFailures = 1
INVARIANT
    AtLeastOnce
PROPERTIES
    CommittedOnlyGrows
    EveryMessagePolled
\* A process that nobody starts, and messages that nobody writes: the system
\* may rest.
CHECK_DEADLOCK FALSE
