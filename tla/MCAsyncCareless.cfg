\* Two disagreements: cpsCallback may become stale, and a promise be settled twice
\* (run with -continue).
CONSTANTS
    MaxClosures = 4
    MaxPromises = 2
    MaxDepth = 3
    MaxSize = 5
SPECIFICATION Spec
INVARIANT NoStaleCallback
PROPERTY PromiseSettledOnce
