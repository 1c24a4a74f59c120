SPECIFICATION FairSpec
CONSTANTS
    r1 = r1
    r2 = r2
    r3 = r3
    t1 = t1
    t2 = t2
    c1 = c1
    c2 = c2
    Nobody = Nobody
    Request = {r1, r2}
    Ticket = {t1}
    OwnerTicket = {t1}
    Cid = {c1, c2}
    MaxStop = 2
    MaxPositions = 2
    TradeCap = 2
    BookCap = 3
    RegistryMax = 1
    Ttl = 0
    MaxTime = 1
    MaxRestarts = 1
    Body <- RouteBodies
PROPERTIES
    EveryRequestAnswered
CHECK_DEADLOCK FALSE
