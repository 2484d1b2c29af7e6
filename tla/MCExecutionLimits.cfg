\* Expected to fail: functions that are compiled to something else than they say.
CONSTANTS
    Programs <- LimitPrograms
    MaxEffects <- MCMaxEffects
SPECIFICATION Spec
INVARIANTS
    RunsAsWritten
    StackAsCompiled
CHECK_DEADLOCK FALSE
