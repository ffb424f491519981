\* Three pids, a limit of one client (so two run), two slots for nodes.
SPECIFICATION FairSpec
CONSTANTS
    Pids = {p1, p2, p3}
    NoPid = NoPid
    MaxClients = 1
    Batch = 2
    MaxBacklog = 1
    MaxPending = 2
    MaxRequests = 2
INVARIANTS TypeOK NeverUndercounted WorkerLimit WaitCovers ForecastBounded
PROPERTIES ClientServed UdpAnswered
\* the daemon ends
CHECK_DEADLOCK FALSE
