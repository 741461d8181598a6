SPECIFICATION FairSpec
CONSTANTS
    Workers = {w1, w2}
    NoWorker = NoWorker
    Ports = {p1}
    NoPort = NoPort
    MaxReqid = 2
    MaxReleasing = 2
    DrainedExit = TRUE
INVARIANTS
    NoUseAfterFree
    NoDoubleUnlink
    OkMeansVerdict
    RegistrationIsFresh
PROPERTIES
    ImplementsService
    EveryCallReturns
