SPECIFICATION FairSpec
CONSTANTS
    t1 = t1
    t2 = t2
    t3 = t3
    a = a
    b = b
    NoThread = NoThread
    NoEp = NoEp
    NoId = NoId
    Thread <- MCThread
    Ep <- MCEp
    Calls <- MCCalls
    FirstEid = 2
    ExplicitIds = {2, 5}
    EidMod = 16
    MaxReserved = 1
    MaxHandles = 1
    MaxSends = 1
INVARIANTS
    TypeOK
    RefcntExact
    OwnerRegistered
    NoReentry
    UniqueEid
PROPERTIES
    UnownedLeaves
CHECK_DEADLOCK FALSE
