CONSTANTS
    Keys <- TheKeys
    Vals <- TheVals
    KeySz = 1
    MaxInline = 8
    PtrSz = 1
    InfoSz = 1
    NBlocks = 16
    Uses <- SafeUses
SPECIFICATION Spec
INVARIANTS
    NoAssertFails
    WellFormed
    TreeChecks
PROPERTIES
    IsMap
