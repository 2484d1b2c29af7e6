SPECIFICATION Spec
CONSTANTS
    Shapes <- MCShapes
    OnlyWithinLimits = TRUE
    MaxReferences = 2
    MaxInstances = 6
    MaxCalls = 2
    MaxClosures = 3
INVARIANTS
    ReferencesFindBindings
    ClosuresRunTheirFunction
CHECK_DEADLOCK FALSE
