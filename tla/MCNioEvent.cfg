CONSTANTS
    Files <- MCFiles
    Sockets <- MCSockets
    SetSize <- MCSetSize
    Procs = {p}
    NULL = NULL
    Refusable = {1}
SPECIFICATION Spec
INVARIANT CoreInv
 
