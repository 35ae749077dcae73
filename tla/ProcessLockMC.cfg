SPECIFICATION FairSpec
CONSTANTS
    l1 = l1
    l2 = l2
    l3 = l3
    l4 = l4
    a = a
    b = b
    Nobody = Nobody
    Lock = {l1, l2, l3, l4}
    Id = {a, b}
    IdOf <- MCIdOf
    Ttl = {TRUE, FALSE}
    Timeout = {TRUE, FALSE}
INVARIANTS TypeOK MutualExclusion EntryIffHeld WaitersQueued TimersCurrent
PROPERTIES NoBarging ImplementsFifoLock EveryWaitSettles EveryTenureEnds
