SPECIFICATION FairSpec
CONSTANTS
    u1 = u1
    u2 = u2
    t1 = t1
    c1 = c1
    c2 = c2
    c3 = c3
    None = None
    Heartbeat = Heartbeat
    User = {u1, t1}
    Transactional = {t1}
    Conn = {c1, c2}
    MaxPoolSize = 1
    WaitTimeout = TRUE
INVARIANTS Exclusive NoSlotLost
PROPERTIES EveryRequestSettles
