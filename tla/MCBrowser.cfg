SPECIFICATION FairSpec
CONSTANTS
    pa = pa
    pb = pb
    x1 = x1
    x2 = x2
    Provider <- TwoProviders
    NoProvider = NoProvider
    Path <- TwoPaths
    MaxBreaks = 1
    MaxUp = 2
    MaxDown = 1
INVARIANTS TreeIsCurrents CommandsReachTheirProvider SubscriptionsAgree
PROPERTY Reopened
CHECK_DEADLOCK FALSE
