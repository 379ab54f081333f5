CONSTANTS
    Files <- MCFiles
    Sockets <- MCFiles
    SetSize = 2
    Procs = {p}
    NULL = NULL
    Refusable = {1}
SPECIFICATION PairSpec
INVARIANTS
    KernelIsMask
    FdCountExact
    OwedIsArmed
PROPERTIES
    Spec
    WantedIsServed
