SPECIFICATION FairSpec
CONSTANTS
    Workers = {w1, w2}
    QueueMax = 1
    Clients = {c1}
    Wake = wake
    MaxConns = 1
    RcvBuf = 1
    MaxReqid = 3
    NoTask = NoTask
INVARIANTS
    HandledOnce
    SlotsAreExact
    NothingAbandoned
PROPERTIES
    QueuedIsHandled
    
CHECK_DEADLOCK FALSE
