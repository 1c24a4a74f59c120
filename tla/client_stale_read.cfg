SPECIFICATION Spec
CONSTANTS
    r1 = r1
    r2 = r2
    s1 = s1
    s2 = s2
    None = None
    Reader = {r1, r2}
    Sender = {s1}
    Attempts = 2
    MaxReads = 3
    MaxOrders = 1
    MaxClears = 1
    MaxFaults = 0
INVARIANTS
    ForcedReadIsFresh
CHECK_DEADLOCK FALSE
