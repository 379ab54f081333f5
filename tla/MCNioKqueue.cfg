CONSTANTS
    Files <- MCFiles
    Sockets <- MCFiles
    SetSize = 2
    ChangeMax = 2
    Procs = {p}
    NULL = NULL
    Refusable = {1}
SPECIFICATION PairSpec
INVARIANTS
    PendingIsMask
PROPERTIES
    KqueueCore
    KqueueServes
