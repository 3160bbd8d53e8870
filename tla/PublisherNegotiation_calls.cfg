SPECIFICATION NegotiationSpec
CONSTANTS
    Requests = {a, b}
    MaxLosses = 2
    MaxFailures = 1
    MaxRefused = 1
CHECK_DEADLOCK FALSE
INVARIANTS
    OneNegotiationTask
    RenegotiationIsOwed
PROPERTIES
    AskedIsAgreed
