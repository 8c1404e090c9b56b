SPECIFICATION FairSpec
CONSTANTS
    None = None
    Addr = {a1, a2}
    PEER_TIMEOUT = 2
    INTERVAL = 1
    MAX_FAILED_RETRIES = 1
    Outages <- One
PROPERTY AbortEnds
