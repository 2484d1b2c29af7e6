CONSTANTS
    f = f
    g = g
    h = h
    Functions = {f, g}
    Closures = {g}
    JobFunction = g
    Handlers = {h}
    NoCode = NoCode
    ArgCounts = {1}
    HostArgCounts = {0, 8}
    MaxArgCount = 7
    ThisHosts = {1}
    StackWords = 26
    FrameWords <- MCFrameWords
    HandlersOf <- MCHandlersOf
    MaxJobs = 1
    MaxCalls = 2
SPECIFICATION Spec
INVARIANTS
    NoStackOverflowInJS
    CatchChainIsExact
    HostKeepsFrame
PROPERTIES
    ImplementsCalls
    OnlyOwnFrames
    CatchLostByEarlyReturn
    JobsOnlyWhenIdle
    DrainedOnSuccess
