CONSTANTS
    Ids = {a}
    Threads = {w1, w2}
    None = None
    DISCONNECT_TIMEOUT = 1
    MaxMessages = 2
    MaxConnections = 2
SPECIFICATION FairSpec
INVARIANTS TypeOK OneTask OwnSession
PROPERTIES HandlingSerial SilentIsDropped ArrivedIsHandled
CHECK_DEADLOCK FALSE
