SPECIFICATION SpecF
CONSTANTS
    Nodes = {1}
    TTL = 2
    Interval = 1
    DiscoveryInterval = 3
    RequestTimeout = 1
    BackoffBase = 1
    BackoffMax = 2
    MaxPeers = 0
    ListSize = 1
    Ahead = 0
    MaxTime = 11
    MaxChanges = 0
    MaxFaults = 1
    MaxPins = 1
INVARIANTS
    PeerRecovers
CHECK_DEADLOCK FALSE
