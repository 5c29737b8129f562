SPECIFICATION Spec
CONSTANTS
    Payload <- Payloads
    MaxPackage = 1
    MaxFrame = 6
    MaxReassembly = 2
    MaxSends = 3
    MaxDamage = 1
    ReadBuf = 7
INVARIANTS TypeOK StillDecodes NothingInvented
CHECK_DEADLOCK FALSE
