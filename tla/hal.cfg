SPECIFICATION Spec
CONSTANTS
  b1 = b1
  b2 = b2
  b3 = b3
  Buffers <- MCBuffers
  Undequeued = 1
  WindowFails = TRUE
  CommandsFail = TRUE
  None = None
INVARIANTS  CameraNeverStarves BuffersInUseLive  
SYMMETRY MCSymmetry
CHECK_DEADLOCK FALSE
