CONSTANTS
    Programs <- MCPrograms
    MaxEffects <- MCMaxEffects
SPECIFICATION Spec
INVARIANTS
    RunsAsWritten
    StackAsCompiled
    CallersCatchTarget
    EngineReadsCode
    DecoderReadsCode
CHECK_DEADLOCK FALSE
