SPECIFICATION Spec
CONSTANTS
    Shapes <- MCLoopShapes
    OnlyWithinLimits = FALSE
    MaxReferences = 3
    MaxInstances = 6
    MaxCalls = 2
    MaxClosures = 3
INVARIANT ReferencesFindBindings
CHECK_DEADLOCK FALSE
