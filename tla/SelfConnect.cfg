SPECIFICATION Spec
CONSTANTS
    None = None
    Hash = {1, 2, 3}
    MAX_FAILED_RETRIES = 1
    CLOSE_TIME = 0
    Public = Public
    Inner = Inner
    Addr <- BothAddresses
    TranslatedFrom <- Hairpin
INVARIANT NeverOwnPeer
