SPECIFICATION FairSpec
CONSTANTS
    g1 = g1
    g2 = g2
    r1 = r1
    r2 = r2
    m1 = m1
    m2 = m2
    m3 = m3
    m4 = m4
    NoThread = NoThread
    NoMsg = NoMsg
    Thread <- MCThread
    Msg <- MCMsg
    SyncMsg <- MCSyncMsg
    Cap <- MCCap
    Calls <- MCCalls
    PendingLimits = {1, 2}
    MemoryLimits = {2}
    UsizeMod = 16
    SpuriousWakeups = TRUE
INVARIANTS
    TypeOK
    WaitMutexOwner
    NoLostWakeup
    PendingOvershoot
    MemoryAccounting
    MemoryOvershoot
PROPERTIES
    SleeperServed
    ReturnsUnlessWoken
