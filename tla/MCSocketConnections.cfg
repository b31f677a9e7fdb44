SPECIFICATION SpecS
CONSTANTS
    pc1 = pc1
    pc2 = pc2
    pc3 = pc3
    anonymous = anonymous
    Sockets = {pc1, pc2, pc3, anonymous}
    Slot <- MCSlot
    Identity <- MCIdentity
    Limit <- MCLimit
    Timeout = 1
    Period = 1
    Events = {e1}
    Targets <- MCTargets
    None = None
    MaxTime = 3
    MaxLeaves = 1
SYMMETRY MCSymmetry
INVARIANTS
    WithinDeviceLimit
    TrackedAreOpen
    SilentIsDisconnected
    EveryDeviceOnce
PROPERTIES
    OnlySilentAreTimedOut
CHECK_DEADLOCK FALSE
