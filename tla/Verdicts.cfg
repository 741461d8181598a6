SPECIFICATION Spec
CONSTANTS
    Root = root
    NoUser = nouser
    alice = alice
    bob = bob
    clean = clean
    packed = packed
    hinted = hinted
    variant = variant
    hidden = hidden
    strong = strong
    weak = weak
    other = other
    k1 = k1
    k2 = k2
    bad = bad
    long = long
    Files = {clean, packed, hinted, variant, hidden}
    Starts <- MCStarts
    Owner <- MCOwner
    Workers = {w1}
    Conns = {c1}
    Listers = {l1}
    Users = {alice, root}
    Weight <- MCWeight
    Override = {strong}
    Matches <- MCMatches
    Threshold = 4
    FuzzyFile <- MCFuzzyFile
    TlshFile <- MCTlshFile
    Malformed = {bad}
    Oversized = {long}
    Similarity <- MCSimilarity
    FuzzyThreshold = 60
    Distance <- MCDistance
    MaxDiff = 30
    Big = {packed}
    Short = {variant}
    HistoryMax = 2
    MaxScans = 3
    MaxDisturbances = 1
INVARIANTS
    VerdictFollowsEvidence
    RecentIsNewest
    ListIsFaithful
CHECK_DEADLOCK FALSE
