SPECIFICATION Spec
CONSTANTS
    Globals = 2
    MaxWords = 6
    BucketWords = 4
    ImageLimit = 8
    None = None
INVARIANT RestoreSucceeds
CHECK_DEADLOCK FALSE
