SPECIFICATION MCSpec
CONSTANTS
    ByteBits = 2
    MaxLen = 2
    KEY_LEN = 3
    Absent = Absent
    COUNT = 8
    HOURS = 65536
    SomeBytes <- MCBytes
    MaxData = 3
    Names <- MCNames
    Speeds <- MCSpeeds
    Macs <- MCMacs
    EtherTypes <- MCEtherTypes
    Packets <- MCPackets
    PeerTimeouts <- MCPeerTimeouts
    OwnTimeouts <- MCOwnTimeouts
    Keepalives <- MCKeepalives
    Seconds <- MCSeconds
    MaxAttempts = 150
    Values <- MCValues
    Events <- MCEvents
    Scripts <- MCScripts
    Files <- MCFiles
    Arguments <- MCArguments
    OldFiles <- MCOldFiles
    Messages <- MCMessages
    PublicKeys = {"k1"}
    Salts = {7}
    TrustedKeys <- MCTrustedKeys
    Leftovers <- MCLeftovers
INVARIANTS
    MatchesPrefix KeysSurviveText InfoSurvivesTransport MessageSurvivesTransport
    BothSelectSame BeaconsFound AddressesFound HeardInTime BackOffDoubles ConfigSurvives
