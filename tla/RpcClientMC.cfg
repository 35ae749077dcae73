\* A client may be left with nothing to do.
CONSTANTS
    Msg = {m1, m2, m3}
    None = None
    MaxSocket = 3
    MaxDisconnect = 1
    Late = {TRUE, FALSE}
SPECIFICATION FairSpec
INVARIANTS RepliesAccounted ConnectionUsable
PROPERTIES ConnectSettles
CHECK_DEADLOCK FALSE
