SPECIFICATION Spec
CONSTANTS
    loop = loop
    hand = hand
    Loop = loop
    Beside = {hand}
    MaxFaults = 1
    MaxTurns = 1
    Start = {2}
    MayHold = TRUE
INVARIANTS
    TypeOK
    BreakEvenIsReal
    NoneAbandoned
PROPERTIES
    FailuresAreRetried
