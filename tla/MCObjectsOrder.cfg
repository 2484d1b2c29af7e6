SPECIFICATION Spec
CONSTANTS
    Slots = 2
    TextOrder <- MCWideOrder
    RomTable <- MCWideTable
    Computed = {"U+FF5E"}
    Literal <- MCLiteral
    InitialCapacity = 2
    MaxCapacity = 2
    MaxLive = 4
INVARIANT OrdinaryNamesAreUnique
