SPECIFICATION Spec
CONSTANTS
    Requests = {r1}
    Unpublishes = {u1}
    Disconnects = {x1}
    MaxCycles = 1
    MaxSids = 2
INVARIANT UnpublishedBeforeCallback
PROPERTY PublishedAfterCallback
PROPERTY EventsFramed
CHECK_DEADLOCK FALSE
PROPERTY RequestsEnd
