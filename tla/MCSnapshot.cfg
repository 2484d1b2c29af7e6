SPECIFICATION Spec
CONSTANTS
    Globals = 2
    MaxWords = 6
    BucketWords = 4
    ImageLimit = 7
    None = None
INVARIANT PointersAreExact
PROPERTY ImplementsCheckpoint
CHECK_DEADLOCK FALSE
