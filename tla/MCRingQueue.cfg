SPECIFICATION FairSpec
CONSTANTS
    p1 = p1
    p2 = p2
    c1 = c1
    c2 = c2
    m1 = m1
    m2 = m2
    m3 = m3
    Producer = {p1, p2}
    Consumer = {c1, c2}
    Msg = {m1, m2, m3}
    Puts <- MCPuts
    Blocks = {TRUE, FALSE}
    Size = 2
    LenMod = 8
    MaxPolls = 1
    None = None
INVARIANTS
    TypeOK
    Fifo
    LenAccounting
PROPERTIES
    Arrives
CHECK_DEADLOCK FALSE
