SPECIFICATION Spec
CONSTANTS
    h1 = h1
    h2 = h2
    h3 = h3
    Handle <- MCHandle
    Nil = Nil
    Undefined = Undefined
    MaxHeapSize = 14
    BucketSize = 8
    EmptyEstimate = 8
    BucketHeader = 4
    MemorySize = 52
    Sizes = {2, 5}
INVARIANTS
    HandleKeepsObject
    HeapParses
    OffsetsWithinLimit
    FailsOnlyWhenFull
SYMMETRY HandleSymmetry
CHECK_DEADLOCK FALSE
