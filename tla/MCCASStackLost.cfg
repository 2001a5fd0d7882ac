\* One producer, one consumer, one item: enough to lose the item.
CONSTANTS
    NUM_PRODUCERS = 1
    Consumers = {c1}
    ITEMS_PER_PRODUCER = 1
    POOL_SIZE = 1
    MaxSpurious = 0
    Main = Main
    NULL = NULL
SPECIFICATION Spec
INVARIANT EverythingConsumed
