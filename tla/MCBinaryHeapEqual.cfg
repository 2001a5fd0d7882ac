SPECIFICATION Spec
CONSTANTS
    MAX = 5
    Data <- MCFewData
    INT_MAX = 7
    EqualAllowed = TRUE
    MallocWords <- MCZeroed
    NULL = NULL
    Wild = Wild
PROPERTY PopsSmallest
\* The program may stop: when it has freed the heap, or crashed.
CHECK_DEADLOCK FALSE
