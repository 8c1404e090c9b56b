CONSTANTS
    Peer = {p1, p2}
    ByteBits = 2
    MaxLen = 1
    Addresses <- MCAddresses
    Announcements <- MCAnnouncements
    cache_timeout = 1
    claim_timeout = 2
    MaxTime = 3
SPECIFICATION Spec
SYMMETRY PeerSymmetry
INVARIANT TableFollowsAnnouncements
PROPERTY ImplementsRoutes
