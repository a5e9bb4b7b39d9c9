CONSTANTS
    c1 = c1
    c2 = c2
    b1 = b1
    b2 = b2
    Clients <- TwoClients
    Bufs <- TwoBufs
    Blknos <- CollidingBlknos
    MaxVer = 1
    Faults <- FsyncFaults
    NoClient = NoClient
    NoBuf = NoBuf
SYMMETRY Symmetry
SPECIFICATION Spec
INVARIANTS
    FlushedIsDurable
