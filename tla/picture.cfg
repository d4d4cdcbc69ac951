SPECIFICATION Spec
CONSTANTS
  b1 = b1
  b2 = b2
  e1 = e1
  e2 = e2
  Buffers <- MCBuffers
  Encoders <- MCEncoders
  Bursts <- MCBursts
  AppWaits = TRUE
  None = None
INVARIANTS  SourceStays
CHECK_DEADLOCK FALSE
PROPERTIES CaptureEnds ApplicationServed
