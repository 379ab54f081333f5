CONSTANTS
    MaxLen = 3
    MaxBytes = 6
SPECIFICATION WriteSpec
INVARIANTS
    StreamWhole
CHECK_DEADLOCK FALSE
