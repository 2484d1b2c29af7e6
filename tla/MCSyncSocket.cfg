CONSTANTS
    HasTimeout = TRUE
    MaxMessages = 4
    MaxSends = 1
SPECIFICATION Spec
INVARIANTS
    NoLostWakeUp
    NoMessageSkipped
PROPERTY ReceiveProgresses
CHECK_DEADLOCK FALSE
