\* TERM at any moment.
SPECIFICATION FairSpec
CONSTANTS
    Pids = {p1, p2}
    NoPid = NoPid
    EnvMin = 0
    EnvMax = 4
    Healthy = 2
    ShortHop = 1
    LongHop = 3
PROPERTIES StopEnds
\* the daemon ends
CHECK_DEADLOCK FALSE
