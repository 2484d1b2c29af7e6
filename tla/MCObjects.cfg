SPECIFICATION Spec
CONSTANTS
    Slots = 2
    TextOrder <- MCTextOrder
    RomTable <- MCRomTable
    Computed = {"r", "s", "t", "length", "__proto__"}
    Literal = {}
    InitialCapacity = 1
    MaxCapacity = 2
    MaxLive = 4
INVARIANTS
    ObjectsAgree
    ReadsAgree
    OrdinaryNamesAreUnique
