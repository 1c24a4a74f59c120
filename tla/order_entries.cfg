SPECIFICATION Spec
CONSTANTS
    r1 = r1
    r2 = r2
    r3 = r3
    t1 = t1
    t2 = t2
    c1 = c1
    c2 = c2
    Nobody = Nobody
    Request = {r1, r2, r3}
    Ticket = {t1, t2}
    OwnerTicket = {t1}
    Cid = {c1, c2}
    MaxStop = 2
    MaxPositions = 1
    TradeCap = 1
    BookCap = 2
    RegistryMax = 2
    Ttl = 1
    MaxTime = 0
    MaxRestarts = 0
    Body <- EntryBodies
SYMMETRY Symmetry
INVARIANTS
    TypeOK
    CapHeldUnlessOvertaken
PROPERTIES
    ImplementsOrderEntry
CHECK_DEADLOCK FALSE
