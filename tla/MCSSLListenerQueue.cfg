\* Is a client queued only while site.xcatmaxconnections others are served?
SPECIFICATION Spec
CONSTANTS
    Pids = {p1, p2, p3}
    NoPid = NoPid
    MaxClients = 1
    Batch = 1
    MaxBacklog = 1
    MaxPending = 2
    MaxRequests = 1
PROPERTIES QueuesOnlyWhenFull
\* the daemon ends
CHECK_DEADLOCK FALSE
