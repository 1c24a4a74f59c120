SPECIFICATION Spec
CONSTANTS
    a1 = a1
    a2 = a2
    c1 = c1
    c2 = c2
    Api = {a1}
    Cycle = {c1}
    OldRows <-  AnyRow
    MaxOps = 1
    MaxTurns = 0
    MaxRestarts = 1
INVARIANTS
    KilledNeedsRearm
