SPECIFICATION FairMutexSpec
CONSTANTS
    g1 = g1
    g2 = g2
    r1 = r1
    r2 = r2
    m1 = m1
    m2 = m2
    m3 = m3
    m4 = m4
    NoThread = NoThread
    NoMsg = NoMsg
    Thread <- TrioThread
    Msg <- FewMsg
    SyncMsg <- MCSyncMsg
    Cap <- FewCap
    Calls <- TrioCalls
    PendingLimits = {2}
    MemoryLimits = {0}
    UsizeMod = 16
    SpuriousWakeups = FALSE
PROPERTIES
    RecvOrBlockReturns
