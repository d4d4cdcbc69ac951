SPECIFICATION FramesSpec
CONSTANTS
    b1 = b1
    b2 = b2
    b3 = b3
    Buffers <- MCThreeBuffers
    Queueable <- MCTwoQueueable
    StopsVideo = FALSE
    ZoomFails = FALSE
    MaxHeld = 2
    None = None
INVARIANTS HeldNotWithCamera NoBufferLost CountsMatchHolders
