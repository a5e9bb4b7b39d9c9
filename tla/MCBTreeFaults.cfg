CONSTANTS
    Keys <- TheKeys
    Vals <- TheVals
    KeySz = 1
    MaxInline = 8
    PtrSz = 1
    InfoSz = 1
    NBlocks = 12
    Uses <- FaultyUses
SPECIFICATION Spec
INVARIANTS
    NodesSound
    SyncIsComplete
PROPERTIES
    IsMap
CHECK_DEADLOCK FALSE
