CONSTANTS
    Timers = {a, b}
    MsNs = 2
    IntHalf = 6
    WaitCap = 2
    WaitDef = 1
    Delays = {0, 1, 4, 7}
    Waits <- MCWaits
    Busy = 1
    Horizon = 8
SPECIFICATION FairTimerSpec
INVARIANT RunningIsHeld
PROPERTIES
    NoOversleep
    RunningEnds
