CONSTANTS
    Heaps <- MCHeaps
    Estimates = {0, 3, 7, 12, 19}
    EmptyEstimate = 4
    BucketWords = 6
    MaxHeapWords = 19
    MaxAllocationWords = 11
SPECIFICATION Spec
INVARIANT BucketsHold
CHECK_DEADLOCK FALSE
