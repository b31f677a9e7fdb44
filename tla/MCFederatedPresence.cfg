SPECIFICATION SpecF
CONSTANTS
    Nodes = {1}
    TTL = 1
    Interval = 1
    DiscoveryInterval = 1
    RequestTimeout = 1
    BackoffBase = 1
    BackoffMax = 2
    MaxPeers = 1
    ListSize = 1
    Ahead = 0
    MaxTime = 3
    MaxChanges = 1
    MaxFaults = 1
    MaxPins = 3
INVARIANTS
    ShownIsRecent
    SilentNodeDisappears
    RevokedLeavesView
PROPERTIES
    ViewNeverGoesBack
CHECK_DEADLOCK FALSE
