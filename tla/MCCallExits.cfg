\* Three disagreements: what a nested call that fails leaves in the registers, and what
\* an exception of a job leaves to the host (run with -continue).
CONSTANTS
    f = f
    g = g
    h = h
    Functions = {f, g}
    Closures = {g}
    JobFunction = g
    Handlers = {h}
    NoCode = NoCode
    ArgCounts = {1}
    HostArgCounts = {0, 8}
    MaxArgCount = 7
    ThisHosts = {}
    StackWords = 27
    FrameWords <- MCFrameWords
    HandlersOf <- MCHandlersOf
    MaxJobs = 1
    MaxCalls = 2
SPECIFICATION Spec
INVARIANTS
    HostLeavesRegisters
    UncaughtGivesException
PROPERTY JobsNotLost
