CONSTANTS
    Jobs = {j1, j2}
    NoJob = NoJob
    Undefined = Undefined
    HalfSize = 7
    MaxPending = 3
    Addr <- MCAddr
    LowSpace <- MCLowSpace
    Other <- MCOther
SPECIFICATION Spec
SYMMETRY JobSymmetry
INVARIANTS
    NoDanglingReference
    QueueIsCycle
    NoLeak
PROPERTY ImplementsFIFO
