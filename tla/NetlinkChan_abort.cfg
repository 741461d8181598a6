SPECIFICATION Spec
CONSTANTS
    Workers = {w1, w2}
    NoWorker = NoWorker
    Ports = {p1}
    NoPort = NoPort
    MaxReqid = 2
    MaxReleasing = 1
    DrainedExit = FALSE
INVARIANT
    OkMeansVerdict
