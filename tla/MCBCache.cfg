CONSTANTS
    c1 = c1
    c2 = c2
    b1 = b1
    b2 = b2
    Clients <- TwoClients
    Bufs <- TwoBufs
    Blknos <- CollidingBlknos
    MaxVer = 1
    Faults <- IOFaults
    NoClient = NoClient
    NoBuf = NoBuf
SPECIFICATION FairSpec
INVARIANTS
    HeldStaysPut
    OneCopy
    ReadsLatest
    FileBehindOnlyIfDirty
    FlushedIsDurable
    NoSpuriousENOMEM
PROPERTIES
    Transparent
    FlushReturns
