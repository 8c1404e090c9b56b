SPECIFICATION FairSpec
CONSTANTS
    None = None
    A = A
    B = B
    C = C
    a1 = a1
    a2 = a2
    b = b
    bp = bp
    c1 = c1
    c2 = c2
    c2p = c2p
    Node = {A, B, C}
    Addr = {a1, a2, b, bp, c1, c2, c2p}
    mapped_addr <- MCMapped
    Owner <- MCOwner
    Source <- MCSource
    OwnAddrs <- MCOwnAddrs
    Configured <- MCConfigured
    MaxFaults = 1
INVARIANT NeverToSelf
PROPERTIES FullMesh GoneForgotten
