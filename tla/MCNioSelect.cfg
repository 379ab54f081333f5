CONSTANTS
    Files <- MCFiles
    Sockets <- MCFiles
    SetSize = 2
    Procs = {p}
    NULL = NULL
    Refusable = {}
SPECIFICATION PairSpec
INVARIANTS
    SelectExact
PROPERTIES
    Spec
    
    SelectServes
