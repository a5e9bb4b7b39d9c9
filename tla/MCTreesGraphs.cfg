CONSTANTS
    Data <- AvlData
    NULL = NULL
    Starts <- AvlStarts
    BtKey <- FourKeys
    BtValue <- TwoValues
    Absent = Absent
    NoNode = NoNode
    UdNode <- FiveNodes
    Nil = Nil
    WNode <- FourNodes
    Weight <- Weights
    NoSearch = NoSearch
SPECIFICATION MCSpec
INVARIANTS
    AvlChecks
    InOrderAndComplete
    GraphChecks
    TraversalsCover
    PathsAreShortest
    WeightsMutual
    FirstSeenIsShortest
    AnswerIsShortest
PROPERTIES
    IsAvlSet
    IsBinaryMap
\* A program that has freed memory twice, or used memory it was not given, stops.
CHECK_DEADLOCK FALSE
