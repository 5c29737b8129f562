SPECIFICATION Spec
CONSTANTS
    sw = sw
    tx = tx
    Switch <- OneSwitch
    Text <- OneText
    MaxAttempts = 2
    MaxEvents = 1
    MaxCmds = 2
    MaxFaults = 0
    MaxActs = 1
    Locks = TRUE
INVARIANT LockHolds
