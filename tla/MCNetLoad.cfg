\* Payloads of two pieces, of which the kernels hold one: enough for recv to
\* return part of a payload and for sendall to stop in the middle of one.
SPECIFICATION MCFairSpec
CONSTANTS
    c1 = c1
    c2 = c2
    Conns <- MCConns
    Dirs <- AllDirs
    CHUNK = 2
    Capacity = 1
    Modulus = 3
    MaxResets = 1
INVARIANTS
    NoUseAfterClose
    CountersAgree
PROPERTIES
    HangsUp
    ServedInTurn
    SendersGetOn
