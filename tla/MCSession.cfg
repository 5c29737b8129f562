SPECIFICATION Spec
CONSTANTS
    sw = sw
    tx = tx
    Switch <- OneSwitch
    Text <- OneText
    MaxAttempts = 2
    MaxEvents = 1
    MaxCmds = 2
    MaxFaults = 1
    MaxActs = 2
    Locks = FALSE
INVARIANTS SubscriptionsAgree ShownIsTrue PulseEnds 
