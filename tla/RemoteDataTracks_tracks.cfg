SPECIFICATION Spec
CONSTANTS
    Sids = {s1}
    Handles = {h1, h2}
    Callers = {c1, c2}
    NoOne = NoOne
    EVENT_BUFFER_COUNT = 2
    MaxReconnects = 1
CHECK_DEADLOCK FALSE
INVARIANTS
    AgreedWithServer
PROPERTIES
    NothingLeftOpen
    ShutdownEnds
