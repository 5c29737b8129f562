SPECIFICATION FairSpec
CONSTANTS
    desk = desk
    w1 = w1
    w2 = w2
    a1 = a1
    a2 = a2
    NoAddr = NoAddr
    Desk = desk
    Web <- TwoSockets
    Addr <- TwoAddrs
    MaxHubs = 2
    InboxCap = 1
INVARIANTS Reachable NobodyWaitsOnZombie
PROPERTY DroppedEnds
CHECK_DEADLOCK FALSE
