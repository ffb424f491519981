CONSTANTS
    n1 = n1
    n2 = n2
    c1 = c1
    c2 = c2
    c3 = c3
    c4 = c4
    NoNode = NoNode
    NoConn = NoConn
    NoPid = NoPid
    Nodes = {n1, n2}
    Conns = {c1, c2, c3, c4}
    Pids = {p1, p2}
    NodeOf <- MCNodeOf
    MaxKids = 2
    ForkMayFail = TRUE

SPECIFICATION Spec

INVARIANTS
    MonitorAccounts

CHECK_DEADLOCK FALSE
