SPECIFICATION FairSpec
CONSTANTS
    Pids = {init, a}
    InitPid = init
    Files = {app, doc, log}
    Exes = {app}
    NoFile = NoFile
    Pseudo = {}
    Sensitive = {doc}
    Noise = {log}
    Appends <- MCAppends
    MaxEntries = 1
    WriteThreshold = 1
    RenameThreshold = 1
    MaxStart = 3
    MaxWork = 1
    MaxJiffies = 1
INVARIANTS
    CountIsExact
    TrustIsVouched
    JudgedByPid
PROPERTIES
    GuardedNeverKilled
    StaleIsReclaimed
CHECK_DEADLOCK FALSE
