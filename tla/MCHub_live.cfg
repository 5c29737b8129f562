SPECIFICATION FairSpec
CONSTANTS
    v1 = v1
    v2 = v2
    p1 = p1
    p2 = p2
    a1 = a1
    a2 = a2
    Viewer <- TwoViewers
    Path <- OnePath
    Addr <- TwoAddrs
    FirstAddr = a1
    KeepAlive = TRUE
    MaxBackoff = 4
    QueueCap = 2
    MaxFaults = 2
    MaxRetargets = 1
    MaxActs = 1
PROPERTIES WantServed UnwantedReleased RetargetReached ShutdownCompletes
