SPECIFICATION Safe
CONSTANTS
    Requests = {r1}
    Unpublishes = {}
    Disconnects = {}
    MaxCycles = 2
    MaxSids = 2
INVARIANT WaitsForRequests
CHECK_DEADLOCK FALSE
