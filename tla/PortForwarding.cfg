SPECIFICATION FairSpec
CONSTANTS
    Absent = Absent
    LEASE_TIME = 8
    MARGIN = 5
    PORTS = 4
    port = 2
    MaxFaults = 3
    MaxSkipped = 3
INVARIANT LeaseKept
PROPERTIES ComesBack LeasesEnd
