SPECIFICATION Spec
CONSTANTS
    k1 = k1
    k2 = k2
    s1 = s1
    s2 = s2
    r1 = r1
    Free = Free
    Key = {k1, k2}
    Saver = {s1, s2}
    Reader = {r1}
    MaxSaves = 3
    MaxFaults = 2
    MaxReads = 1
SYMMETRY Alike
INVARIANTS
    TypeOK
    RowIsWhatWasSaved
PROPERTIES
    RowGoesBackForCause
    ImplementsDurableRecord
CHECK_DEADLOCK FALSE
