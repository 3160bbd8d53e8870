SPECIFICATION Spec
CONSTANTS
    Sessions = {s1, s2, s3}
    Ops = {o1}
    DataOps = {o1}
    NoSession = NoSession
    RECONNECT_ATTEMPTS = 2
    JoinRetries = 1
    People = {p1}
    MaxReports = 2
    MaxCloses = 1
CHECK_DEADLOCK FALSE
INVARIANTS
    OneEngineTask
    OpsOnCurrentSession
PROPERTIES
    ReconnectionEnds
    CloseCompletes
