\* Liveness, so no symmetry; one spurious failure of the weak
\* compare-exchange.
CONSTANTS
    NUM_PRODUCERS = 2
    Consumers = {c1, c2}
    ITEMS_PER_PRODUCER = 1
    POOL_SIZE = 2
    MaxSpurious = 1
    Main = Main
    NULL = NULL
SPECIFICATION FairSpec
PROPERTY Termination
