SPECIFICATION Spec
CONSTANTS
    v1 = v1
    v2 = v2
    p1 = p1
    p2 = p2
    a1 = a1
    a2 = a2
    Viewer <- TwoViewers
    Path <- TwoPaths
    Addr <- TwoAddrs
    FirstAddr = a1
    KeepAlive = TRUE
    MaxBackoff = 2
    QueueCap = 3
    MaxFaults = 2
    MaxRetargets = 1
    MaxActs = 2
SYMMETRY Symmetry
INVARIANTS DeviceInSync IntentPreserved ServedIsWanted IInv
PROPERTIES ActsInOrder KeepsPromise
