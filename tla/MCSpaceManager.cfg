CONSTANTS
    NBlocks = 18
    Bpb = 7
SPECIFICATION Spec
CHECK_DEADLOCK FALSE
INVARIANTS
    BitmapsExact
PROPERTIES
    IsAllocator
