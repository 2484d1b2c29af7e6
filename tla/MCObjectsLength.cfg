SPECIFICATION Spec
CONSTANTS
    Slots = 2
    TextOrder <- MCTextOrder
    RomTable <- MCRomTable
    Computed = {"r", "s", "t", "length", "__proto__"}
    Literal <- MCLiteral
    InitialCapacity = 2
    MaxCapacity = 2
    MaxLive = 4
INVARIANT NamesAreUnique
PROPERTY LengthIsAssignable
