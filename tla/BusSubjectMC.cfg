SPECIFICATION FairSpec
CONSTANTS
    s1 = s1
    s2 = s2
    h1 = h1
    h2 = h2
    None = None
    Subject = {s1, s2}
    Handle = {h1, h2}
    MaxObservers = 1
    MaxPublish = 2
    Patient = TRUE
    MayFail = TRUE
    OneShot = TRUE
INVARIANTS ListedIffObserved ListenersBalanced AllOnceInOrder
PROPERTIES ObserversHear
CHECK_DEADLOCK FALSE
