SPECIFICATION FairSpec
CONSTANTS
    a1 = a1
    a2 = a2
    NoAccount = NoAccount
    Account = {a1, a2}
    AutoAttach = TRUE
    MaxAttempts = 2
    MaxRequests = 3
    MaxFaults = 3
INVARIANTS
    TypeOK
    ShownSessionIsReal
    BurstsAreBounded
PROPERTIES
    OnlyRequestsReplaceSessions
    SessionComesBack
