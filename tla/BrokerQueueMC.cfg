SPECIFICATION QueueSpec
CONSTANTS
    p = p
    q = q
    k1 = k1
    k2 = k2
    k3 = k3
    c1 = c1
    c2 = c2
    c3 = c3
    m1 = m1
    m2 = m2
    m3 = m3
    h = h
    Nothing = Nothing
    Message = {m1, m2, m3}
    HashOf <- MCHashOf
    Client = {p}
    Sub = {k1, k2}
    ClientOf <- MCClientOf
    Connection = {c1, c2}
    ConnectionsOf <- MCConnectionsOf
    OneAtATime = TRUE
    Batched = FALSE
INVARIANTS SlotsAccounted Deduplicated SettledWasProcessed
CHECK_DEADLOCK FALSE
