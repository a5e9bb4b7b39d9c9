CONSTANTS
    Data <- AvlData
    NULL = NULL
    Starts <- AvlStarts
    BtKey <- FourKeys
    BtValue <- TwoValues
    Absent = Absent
    NoNode = NoNode
    UdNode <- FiveNodes
    Nil = Nil
    WNode <- FourNodes
    Weight <- Weights
    NoSearch = NoSearch
SPECIFICATION MCSpec
INVARIANT ENOENTMeansNoPath
CHECK_DEADLOCK FALSE
