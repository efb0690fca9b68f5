SPECIFICATION ElectionSpec
CONSTANTS
    p1 = p1 p2 = p2 p3 = p3 NoID = NoID
    Procs = {p1, p2, p3}
    Rank <- Ranks
    Skew <- InSync
    Sleep = 2
    PostTime = 1
    MaxTime = 1
INVARIANTS Agreement ExclusiveOnceSettled
