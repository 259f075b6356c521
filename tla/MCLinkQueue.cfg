SPECIFICATION FairSpec
CONSTANTS
    p1 = p1
    p2 = p2
    c1 = c1
    c2 = c2
    a = a
    b = b
    c = c
    m1 = m1
    m2 = m2
    m3 = m3
    m4 = m4
    Null = Null
    Producer = {p1, p2}
    Consumer = {c1}
    Msg = {m1, m2, m3, m4}
    Puts <- MCPuts
    Item = {a, b, c}
    CacheSize = 2
INVARIANTS
    TypeOK
    InOrder
    Private
PROPERTIES
    Arrives
CHECK_DEADLOCK FALSE
