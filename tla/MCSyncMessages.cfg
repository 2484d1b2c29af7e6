CONSTANTS
    HasTimeout = TRUE
    MaxMessages = 4
    MaxSends = 1
SPECIFICATION Spec
INVARIANT MessagesAreIntact
PROPERTY WritesVacantBuffer
CHECK_DEADLOCK FALSE
