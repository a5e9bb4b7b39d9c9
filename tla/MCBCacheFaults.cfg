CONSTANTS
    c1 = c1
    c2 = c2
    b1 = b1
    b2 = b2
    Clients <- TwoClients
    Bufs <- OneBuf
    Blknos <- TwoBlknos
    MaxVer = 1
    Faults <- AllFaults
    NoClient = NoClient
    NoBuf = NoBuf
SYMMETRY Symmetry
SPECIFICATION Spec
INVARIANTS
    CheckNeverAsserts
    ListsExact
    RefcntExact
