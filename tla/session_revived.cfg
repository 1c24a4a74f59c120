SPECIFICATION Spec
CONSTANTS
    a1 = a1
    a2 = a2
    NoAccount = NoAccount
    Account = {a1, a2}
    AutoAttach = FALSE
    MaxAttempts = 2
    MaxRequests = 2
    MaxFaults = 1
INVARIANTS
    DisconnectStopsReconnect
CHECK_DEADLOCK FALSE
