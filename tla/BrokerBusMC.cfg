SPECIFICATION FairBusSpec
CONSTANTS
    p1 = p1
    l1 = l1
    l2 = l2
    l3 = l3
    Client = {p1}
    Listener = {l1, l2, l3}
    ClientOf <- MCClientOf
    MaxMessages = 2
    MaxBreaks = 1
    SelfRelease = TRUE
INVARIANTS SubscriptionsMatch NothingMissed
PROPERTIES MessagesArrive
CHECK_DEADLOCK FALSE
