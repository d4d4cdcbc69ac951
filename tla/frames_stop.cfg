SPECIFICATION FramesSpec
CONSTANTS
    b1 = b1
    b2 = b2
    b3 = b3
    Buffers <- MCTwoBuffers
    Queueable <- MCOneQueueable
    StopsVideo = TRUE
    ZoomFails = TRUE
    MaxHeld = 2
    None = None
INVARIANTS NeverQueuedTwice
