\* The queue, promises and continuations of async functions.
CONSTANTS
    MaxClosures = 4
    MaxPromises = 2
    MaxDepth = 3
    MaxSize = 5
SPECIFICATION Spec
INVARIANTS
    ExactlyOneWakeUp
    ContinuationsAreArmed
PROPERTIES
    OnlyTwinSettlesAgain
    ImplementsAsyncOps
