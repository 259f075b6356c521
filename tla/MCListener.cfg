SPECIFICATION FairSpec
CONSTANTS
    c1 = c1
    c2 = c2
    c3 = c3
    p1 = p1
    p2 = p2
    Conn = {c1, c2, c3}
    Caller = {p1, p2}
    NoConn = NoConn
INVARIANTS
    TypeOK
    StopsAccepting
    NegotiatedAreClients
PROPERTIES
    Negotiates
CHECK_DEADLOCK FALSE
