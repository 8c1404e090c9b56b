SPECIFICATION FairSpec
CONSTANTS
    None = None
    Reader = {r1, r2}
    Key = {k, dropped}
    Dropped = dropped
    STATS_INTERVAL = 1
    BEACON_INTERVAL = 3
    CLEANUP_IDLE = 2
    MaxCount <- TwoAndOne
    Outages <- Kinds
INVARIANTS ReportedOnce InOnePlace
PROPERTIES BeaconsGoOn IdleForgotten PeersLoaded
