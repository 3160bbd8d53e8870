SPECIFICATION Spec
CONSTANTS
    Senders = {a, b}
    Unqueuable = {b}
    NumStreams = 2
    Stuck = {1}
CHECK_DEADLOCK FALSE
INVARIANTS
    SendersUseCurrentStream
    AtMostOnce
PROPERTIES
    TaskClosesItsOwn
    RestartEnds
