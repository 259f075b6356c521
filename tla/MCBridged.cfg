SPECIFICATION Spec
CONSTANTS
    L = L
    R = R
    s = s
    a = a
    x = x
    y = y
    bl = bl
    br = br
    there = there
    all = all
    sync = sync
    Net <- MCNet
    Sid <- MCSid
    Thread = {s}
    Ep <- MCEp
    NetOf <- MCNetOf
    Bridge <- MCBridge
    Msg <- MCMsg
    SyncMsg = {sync}
    CanLoop = {}
    Dst <- MCDst
    From <- MCFrom
    Script <- MCScript
    Home <- MCHome
    Unsent = Unsent
    Byte = {0, 1}
    Capacity = 1
    MaxEdits = 1
    MaxLaps = 2
    Hello = Hello
    None = None
INVARIANTS
    TypeOK
    Separate
    Intact
    OnceInOrder
PROPERTIES
    Arrives
CHECK_DEADLOCK FALSE
