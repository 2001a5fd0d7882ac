\* Three producers, so that one is asleep while others finish; two slots for
\* six items make both sides wait and the ring wrap around.  Liveness is
\* checked, so no symmetry.
CONSTANTS
    NUM_PRODUCERS = 3
    Consumers = {c1, c2}
    ITEMS_PER_PRODUCER = 2
    BUFFER_SIZE = 2
    MaxSpurious = 1
    Main = Main
    NoThread = NoThread
SPECIFICATION FairSpec
INVARIANTS
    ItemsHaveAwakeConsumers
    SlotsHaveAwakeProducers
    ExitOnlyWhenDrained
    TotalIsComplete
    IInv
PROPERTIES
    Termination
    ImplementsFifo
