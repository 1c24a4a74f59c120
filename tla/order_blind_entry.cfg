SPECIFICATION Spec
CONSTANTS
    r1 = r1
    r2 = r2
    r3 = r3
    t1 = t1
    t2 = t2
    c1 = c1
    c2 = c2
    Nobody = Nobody
    Request = {r1, r2}
    Ticket = {t1, t2}
    OwnerTicket = {}
    Cid = {c1, c2}
    MaxStop = 2
    MaxPositions = 2
    TradeCap = 2
    BookCap = 3
    RegistryMax = 5
    Ttl = 1
    MaxTime = 0
    MaxRestarts = 0
    Body <- EntryBodies
SYMMETRY Symmetry
INVARIANTS
    MissingReadRejectsEntry
CHECK_DEADLOCK FALSE
