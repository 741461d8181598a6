SPECIFICATION MCSpec
CONSTANTS
    BlockSize = 4
    LenSize = 2
    EffBuckets = 8
    MinDataLength = 3
    TopVal <- MCTopVal
    StackMax = 2
    OutMax = 5
    Jobs <- MCJobs
    BufSize = 7
    MaxHashed = 11
    MaxBytes = 12
    Paths <- MCPaths
    HashOf <- MCColliding
    Cap = 2
    Window = 2
    MsecWrap = 8
    MaxTime = 5
INVARIANTS
    DigestsAreChunkFree
    FinalIsExact
    DiffIsDistance
    PathsDenote
PROPERTIES
    NoFalseAlarm
    BurstIsSeen
    EvictionIsHarmless
CHECK_DEADLOCK FALSE
