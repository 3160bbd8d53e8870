SPECIFICATION PacketsSpec
CONSTANTS
    Sizes = {0, 1, 2, 3, 4}
    MaxFrames = 2
    Modulus = 9
    FirstNumbers = {0, 8}
    MaxBufferPackets = 3
    EventBuffer = 1
    ChannelBuffer = 3
    Threshold = 1
    MaxFailures = 1
    NoFrame = NoFrame
CHECK_DEADLOCK FALSE
INVARIANTS
    FramesComeOutWhole
    FramesThatCameAreDelivered
PROPERTIES
    QueueDrains
