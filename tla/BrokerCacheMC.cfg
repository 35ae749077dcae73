SPECIFICATION Spec
CONSTANTS
    p1 = p1
    p2 = p2
    g1 = g1
    g2 = g2
    g3 = g3
    None = None
    Process = {p1, p2}
    Get = {g1, g2, g3}
    ProcessOf <- MCProcessOf
    Ttl = 1
    MaxStales = {0, 1}
    InMemoryTtl = 1
    MayThrow = TRUE
    MaxNow = 3
    MaxVersion = 1
    MaxInvalidate = 1
INVARIANTS FreshAfterInvalidate FreshWhileValid BuildsShared
SYMMETRY Symmetry
CHECK_DEADLOCK FALSE
