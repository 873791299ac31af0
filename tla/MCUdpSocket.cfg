SPECIFICATION FairSpec
CONSTANTS
    Messages <- Kinds
    ID_MODULUS = 3
    RETRY_TIMEOUT = 1
    Faults = {"lose"}
    Script <- Chat
    MaxUnacked = 2
    MaxInFlight = 4
INVARIANTS
    TypeOK
    UndeliveredKept
PROPERTY
    StreamImplemented
    ServerMessagesArrive
