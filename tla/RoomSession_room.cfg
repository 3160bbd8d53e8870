SPECIFICATION RoomSpec
CONSTANTS
    Sessions = {s1, s2}
    Ops = {}
    DataOps = {}
    NoSession = NoSession
    RECONNECT_ATTEMPTS = 2
    JoinRetries = 0
    MaxReports = 2
    MaxCloses = 1
    People = {p1}
CHECK_DEADLOCK FALSE
INVARIANTS
    SyncBeforeOffer
    NobodyMissing
PROPERTIES
    ImplementsEngine
    DisconnectClosesRoom
    RoomCloseEnds
    DisconnectedIsFinal
