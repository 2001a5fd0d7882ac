SPECIFICATION FairSpec
CONSTANTS
    MAX = 8
    Data <- MCData
    INT_MAX = 7
    EqualAllowed = FALSE
    MallocWords <- MCAnyWord
    NULL = NULL
    Wild = Wild
INVARIANTS
    IInv
    CrashOnlyIfWild
PROPERTIES
    CallsReturn
    ImplementsPriorityQueue
\* The program stops when it has freed the heap, or crashed.
CHECK_DEADLOCK FALSE
