SPECIFICATION Spec
CONSTANTS
    k1 = k1
    k2 = k2
    k3 = k3
    h1 = h1
    h2 = h2
    Call = {k1, k2}
    Hash = {h1, h2}
    Mode = {"live"}
    Halt = {FALSE}
    MaxHashes = 3
    CanaryCap = 1
    MaxDay = 0
    MaxAttempts = 1
    MaxRestarts = 0
    MaxFaults = 0
SYMMETRY Symmetry
INVARIANTS
    AmbiguousBlocksNewRisk
CHECK_DEADLOCK FALSE
