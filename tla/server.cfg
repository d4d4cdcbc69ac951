SPECIFICATION FairSpec
CONSTANTS
    m1 = m1  m2 = m2  m3 = m3
    w1 = w1  w2 = w2
    Msgs <- MCMsgs
    Workers <- MCWorkers
    PoolCount = 2
    PoolOf <- MCPoolOf
    Requests <- MCRequests
    JobIdMax = 1
    None = None
INVARIANTS OnePlace JobInOrder PostsCover
  
CHECK_DEADLOCK FALSE
