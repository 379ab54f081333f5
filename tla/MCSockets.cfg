CONSTANTS
    Files <- MCTwo
    Sockets <- MCTwo
    Listeners <- MCListeners
    SetSize = 2
    Procs <- MCProcs
    NULL = NULL
    Refusable = {}
SPECIFICATION MCSpec
INVARIANTS
    WaitingIsSet
    NothingStale
    AwaitedIsArmed
PROPERTIES
    EpollSpec
    EveryCloseEnds
    
