\* The respawn of the install monitor on a small clock: 1 second doubling
\* to 4, a monitor that served lived 2.
SPECIFICATION MCBusySpec
CONSTANTS
    Pids = {p1, p2}
    NoPid = NoPid
    EnvMin = 0
    EnvMax = 4
    Healthy = 2
    ShortHop = 1
    LongHop = 3
    MaxFails = 3
INVARIANTS TypeOK MonitorTracked NoOrphan Prompt
PROPERTIES Paced ComesBack ToldEnds
\* the daemon ends
CHECK_DEADLOCK FALSE
