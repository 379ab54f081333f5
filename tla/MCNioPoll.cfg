CONSTANTS
    Files <- MCFiles
    Sockets <- MCFiles
    SetSize = 2
    Procs = {p}
    NULL = NULL
    Refusable = {1}
SPECIFICATION PairSpec
INVARIANT ArrayExact
PROPERTIES
    Spec
    OnlyReported
    PollServes
