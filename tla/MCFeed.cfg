SPECIFICATION FairSpec
CONSTANTS
    desk = desk
    bare = bare
    Viewer <- TwoViewers
    Leased <- OneLease
    Cap = 2
    MaxEvents = 4
INVARIANTS OnlyLagMisses TreeOfOneDevice
PROPERTY EndIsShown
CHECK_DEADLOCK FALSE
