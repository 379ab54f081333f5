CONSTANTS
    MaxLen = 3
    MaxBytes = 6
SPECIFICATION FairWriteSpec
INVARIANTS
    StreamIntact
    GivenIntact
    PendingIsWatched
PROPERTIES
    
    Delivered
CHECK_DEADLOCK FALSE
