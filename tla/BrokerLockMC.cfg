SPECIFICATION Spec
CONSTANTS
    a = a
    b = b
    a1 = a1
    a2 = a2
    b1 = b1
    ca = ca
    ca2 = ca2
    cb = cb
    None = None
    Item = {a, b}
    Req = {a1, a2, b1}
    Conn = {ca, ca2, cb}
    ItemOf <- MCItemOf
    ConnsOf <- MCConnsOf
    Breakable = {ca, cb}
    MaxInFlight = 2
    Sequential = TRUE
INVARIANTS GrantsReleasable CloseReleases OverOnBroker
PROPERTIES LateUnlockHarmless
CHECK_DEADLOCK FALSE
