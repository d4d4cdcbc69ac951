SPECIFICATION FairSpec
CONSTANTS
    t1 = t1  t2 = t2  t3 = t3
    m1 = m1  m2 = m2
    Threads <- MCThreads
    Msgs <- MCMsgs
    MaxMsgId = 3
    ReusesIds = FALSE
    GetFails = TRUE
    NoThread = NoThread
    NoMsg = NoMsg
INVARIANTS RightMessage 
PROPERTIES ReplyCollected ImplementsCalls
CHECK_DEADLOCK FALSE
