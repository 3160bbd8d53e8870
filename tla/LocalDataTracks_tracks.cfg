SPECIFICATION Spec
CONSTANTS
    Handles = {h1, h2}
    EVENT_BUFFER_COUNT = 2
    MaxDisturbances = 1
CHECK_DEADLOCK FALSE
INVARIANTS
    ActiveHasTask
    NoneLeftBehind
PROPERTIES
    UnpublishedAtServer
    ShutdownEnds
