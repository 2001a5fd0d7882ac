\* Two producers and two consumers race on up to four of the five nodes: enough
\* for a stale top and a stale next while the stack grows and shrinks.
CONSTANTS
    NUM_PRODUCERS = 2
    Consumers = {c1, c2}
    ITEMS_PER_PRODUCER = 2
    POOL_SIZE = 5
    MaxSpurious = 0
    Main = Main
    NULL = NULL
SPECIFICATION Spec
INVARIANTS
    NoAba
    ReportAddsUp
    IInv
PROPERTY ImplementsLifo
SYMMETRY ConsumerSymmetry
