SPECIFICATION Spec
CONSTANTS
  c1 = c1
  c2 = c2
  Clients <- MCTwoClients
  Workers <- MCBothWorkers
  Fallible <- MCAnyFails
  NoThread = NoThread
  Garbage = Garbage
INVARIANTS Settled RecordingMatchesState
CHECK_DEADLOCK FALSE
