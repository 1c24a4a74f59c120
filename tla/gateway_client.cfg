SPECIFICATION Spec
CONSTANTS
    r1 = r1
    r2 = r2
    s1 = s1
    s2 = s2
    None = None
    Reader = {r1, r2}
    Sender = {s1, s2}
    Attempts = 2
    MaxReads = 2
    MaxOrders = 2
    MaxClears = 1
    MaxFaults = 2
INVARIANTS
    TypeOK
    ReadsFollowClears
    OneExecutionPerCall
PROPERTIES
    EveryReadEnds
CHECK_DEADLOCK FALSE
