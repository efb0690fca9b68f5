SPECIFICATION FairSpec
CONSTANTS
    p1 = p1 p2 = p2 h1 = h1 h2 = h2
    Procs = {p1, p2}
    Hosts = {h1, h2}
    HostOf <- TwoHosts
    Len = 2
    Published <- FirstStage
    Cached <- FirstStage
    WithCacheRepo = TRUE
    FetchesLast = {p2}
    MaxTs = 6
    MaxLosses = 1
INVARIANTS ChainOrdered NotResurrected
PROPERTIES RejectsOnlyLost BuildsEnd
