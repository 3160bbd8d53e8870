SPECIFICATION Spec
CONSTANTS
    Streams = {s1}
    MaxCalls = 3
    Lengths = {2, Undeclared}
    Undeclared = Undeclared
    MaxDisturbances = 2
    MaxUnderWay = 1
    NoStream = NoStream
CHECK_DEADLOCK FALSE
INVARIANTS
    InOrderWithoutGaps
    CleanEndIsWhole
PROPERTIES
    ReadersEnd
