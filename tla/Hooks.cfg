SPECIFICATION MCSpec
CONSTANTS
    Events = {e1, e2, e3}
    MaxInflight = 2
    ExecReserved = 1
    MaxActive = 1
    Workers = {w1}
    Files = {f1, f2}
    MaxSigEntries = 2
INVARIANTS
    CounterIsExact
    NoLeak
    CapsRespected
    NothingAfterUnload
    PolicyIsCurrent
PROPERTIES
    EveryEventEnds
    PersistentSignatureStops
CHECK_DEADLOCK FALSE
