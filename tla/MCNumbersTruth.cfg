SPECIFICATION Spec
CONSTANTS
    IntBits = 6
    SmallBits = 3
    OverflowChecks = TRUE
    MaxSize = 4
    Texts <- MCTexts
INVARIANT TruthAgrees
