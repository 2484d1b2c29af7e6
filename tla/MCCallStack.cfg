CONSTANTS
    f = f
    g = g
    h = h
    Functions = {f, g}
    Closures = {g}
    JobFunction = g
    Handlers = {h}
    NoCode = NoCode
    ArgCounts = {1}
    HostArgCounts = {8}
    MaxArgCount = 8
    ThisHosts = {1, 2}
    StackWords = 21
    FrameWords <- MCFrameWords
    HandlersOf <- MCHandlersOf
    MaxJobs = 1
    MaxCalls = 2
SPECIFICATION Spec
INVARIANT NoStackOverflow
