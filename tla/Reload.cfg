SPECIFICATION Spec
CONSTANTS
    Sigs = {eicar, sig}
    Trusts = {hash}
    Protects = {}
    Seed = eicar
    MaxSig = 1
    Probes <- MCProbes
    Script = script
    Savers = {script, operator}
    MaxSaves = 2
    MaxDisturbances = 2
    Starts <- MCStarts
INVARIANTS
    FileIsWhole
    StateNeverLost
    ReloadRestores
    WorkHasItsTables
CHECK_DEADLOCK FALSE
