CONSTANTS
    None = None
    A = A
    B = B
    Hash = {1, 2, 3, 4}
    MAX_FAILED_RETRIES = 1
    CLOSE_TIME = 0
    MaxFaults = 1
    PEER_TIMEOUT = 3
    BEATS = 5
    SHIFT = 2
    PAUSE = 3
SPECIFICATION FairSpec
PROPERTY EventuallyConnected
