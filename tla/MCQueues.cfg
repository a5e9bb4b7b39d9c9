CONSTANTS
    d1 = d1
    d2 = d2
    Data <- TwoData
    NULL = NULL
    StartSize = 2
    MaxSize = 8
    Elem <- FourElems
    Weight <- Weights
    NoElem = NoElem
    Junk = Junk
    HeapStart = 2
    HeapMax = 8
SPECIFICATION MCSpec
INVARIANTS
    FifoNeverAsserts
    HeapInv
PROPERTIES
    IsQueue
    IsPriorityQueue
