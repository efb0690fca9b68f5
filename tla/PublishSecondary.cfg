SPECIFICATION FairSpec
CONSTANTS
    p1 = p1 p2 = p2
    t1 = t1 t2 = t2 t3 = t3 t4 = t4
    d1 = d1 d2 = d2
    c1 = c1 c2 = c2 c3 = c3
    NoTask = NoTask
    NoDigest = NoDigest
    Procs = {p1, p2}
    Tasks = {t1, t2, t3, t4}
    Digests = {d1, d2}
    Commits = {c1, c2, c3}
    ProcOf <- ThreeTasksInP1
    DigestOf <- TwoDigests
    CommitOf <- OneCommit
    ParentTs <- NoParents
    Ancestors <- AnyCommit
    Secondary <- SecondaryOfP1
    Published <- NoStages
    Epoch = 4
    Skew <- NoSkew
    PublishTagCacheSync <- SyncOffInP1
INVARIANTS PublishedOnce
PROPERTIES EveryTaskEnds
