CONSTANTS
    Ids = {a}
    Threads = {w1}
    None = None
    DISCONNECT_TIMEOUT = 1
    MaxMessages = 1
    MaxConnections = 2
SPECIFICATION Spec
INVARIANT Connected
CHECK_DEADLOCK FALSE
