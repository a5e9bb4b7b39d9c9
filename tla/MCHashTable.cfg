CONSTANTS
    Node <- Addresses
    Data <- ThreeData
    NULL = NULL
    Hash <- HashValues
    Junk = Junk
    MaxJunk = 1
    HT_START_SIZE = 1
    MaxTable = 4
    Item <- TwoItems
    Name = {A, B}
    MaxLost = 1
SPECIFICATION MCSpec
INVARIANTS
    TableOwnsAll
    HashedRight
    RandomReturns
    NodesAccounted
PROPERTIES
    IsSet
    AreLists
\* A program that has followed a Junk pointer stops.
CHECK_DEADLOCK FALSE
