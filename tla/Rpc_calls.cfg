SPECIFICATION Spec
CONSTANTS
    Calls = {c1, c2}
    MaxDeliveries = 2
    HandlerAnswers = {"payload", "ApplicationError"}
    None = None
CHECK_DEADLOCK FALSE
PROPERTIES
    ImplementsRpcCall
    CallsEnd
