SPECIFICATION FairSpec
CONSTANTS
  c1 = c1
  c2 = c2
  Clients <- MCOneClient
  Workers <- MCZoomWorker
  Fallible <- MCNoneFails
  NoThread = NoThread
  Garbage = Garbage
PROPERTIES LockReleased
CHECK_DEADLOCK FALSE
