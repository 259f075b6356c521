SPECIFICATION Spec
CONSTANTS
    s1 = s1
    s2 = s2
    r = r
    a = a
    b = b
    c = c
    bridge = bridge
    sync = sync
    all = all
    direct = direct
    remote = remote
    NoMsg = NoMsg
    Unsent = Unsent
    Thread <- MCThread
    Ep <- MCEp
    Msg <- MCMsg
    SyncMsg = {sync}
    CanLoop = {}
    Dst <- MCDst
    From <- MCFrom
    Script <- MCScript
    NetSid = 100
    Home <- MCHome
    Order <- MCOrder
    Leavers = {b}
    Limit <- MCLimit
    Moves <- MCMoves
    Receives <- MCReceives
INVARIANTS
    TypeOK
    CountKept
    SyncReachable
PROPERTIES
    KeepsPromise
CHECK_DEADLOCK FALSE
