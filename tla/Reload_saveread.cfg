SPECIFICATION Spec
CONSTANTS
    Sigs = {eicar, sig}
    Trusts = {hash}
    Protects = {path}
    Seed = eicar
    MaxSig = 1
    Probes <- NoProbes
    Script = script
    Savers = {script, operator}
    MaxSaves = 2
    MaxDisturbances = 2
    Starts <- MCStarts
INVARIANT
    SaveIsComplete
CHECK_DEADLOCK FALSE
