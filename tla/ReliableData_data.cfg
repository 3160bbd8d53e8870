SPECIFICATION Spec
CONSTANTS
    Reliable = {a, b}
    Lossy = {}
    Threshold = 0
    PubResumes = 2
    SubResumes = 1
CHECK_DEADLOCK FALSE
INVARIANTS
    AmountIsExact
    QueuesAreSound
PROPERTIES
    PublishEnds
    ForwardedIsEmitted
