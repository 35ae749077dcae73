CONSTANTS
    Msg = {m1, m2, m3}
    None = None
    MaxSocket = 3
    MaxDisconnect = 1
    Late = {FALSE}
SPECIFICATION Spec
INVARIANTS FailedConnectIsTold
CHECK_DEADLOCK FALSE
