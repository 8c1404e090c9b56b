SPECIFICATION Spec
CONSTANTS
    None = None
    Addr = {a1, a2}
    PEER_TIMEOUT = 6
    INTERVAL = 2
    MAX_FAILED_RETRIES = 2
    Outages <- NoneOrAll
SYMMETRY AddrSymmetry
VIEW WithoutHistory
INVARIANTS NothingOverdue PeersInformed
