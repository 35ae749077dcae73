SPECIFICATION FairSpec
CONSTANTS
    a = a
    b = b
    a1 = a1
    a2 = a2
    b1 = b1
    ca = ca
    ca2 = ca2
    cb = cb
    None = None
    Item = {a, b}
    Req = {a1, a2, b1}
    Conn = {ca, cb}
    ItemOf <- MCItemOf
    ConnsOf <- MCConnsOfOne
    Breakable = {ca}
    MaxInFlight = 2
    Sequential = TRUE
PROPERTIES EveryCallSettles EveryTenureEnds
CHECK_DEADLOCK FALSE
