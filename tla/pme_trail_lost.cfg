SPECIFICATION Spec
CONSTANTS
    loop = loop
    hand = hand
    Loop = loop
    Beside = {hand}
    MaxFaults = 0
    MaxTurns = 1
    Start = {2}
    MayHold = FALSE
PROPERTIES
    TrailReached
