SPECIFICATION Spec
CONSTANTS
    Pids = {init, a}
    InitPid = init
    Files = {app, tmp}
    Exes = {app}
    NoFile = NoFile
    Pseudo = {}
    Sensitive = {}
    Noise = {}
    Appends <- MCAppends
    MaxEntries = 1
    WriteThreshold = 1
    RenameThreshold = 1
    MaxStart = 3
    MaxWork = 1
    MaxJiffies = 0
INVARIANT
    JudgedOnOwnActivity
CHECK_DEADLOCK FALSE
