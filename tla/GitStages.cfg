CONSTANTS
    None = None
    Absent = Absent
    EmptyFile = EmptyFile
    c1 = c1
    c2 = c2
    c3 = c3
    d = d
    m = m
    l1 = l1
    l2 = l2
    dep = dep
    src = src
    bin = bin
    Builds = {x, y, z}
    Chain <- MCChain
    UserStages = {"install"}
    Mappings = {1, 2}
    Local = {1}
    Commits = {c1, c2, c3, d, m, l1, l2}
    Parents <- MCParents
    Ancestors <- MCAncestors
    Invocations <- MCInvocations
    Paths = {dep, src, bin}
    Contents = {1, 2}
    Binary = {bin}
    Trees <- MCTrees
    StageDeps <- MCStageDeps
    PatchSizeStep = 2
    MaxRunning = 2
    MaxDeletes = 1
SYMMETRY Symmetry
SPECIFICATION Spec
CHECK_DEADLOCK FALSE
INVARIANTS FilesOfHead RanOnDependencies Reproducible UpdatedOnce OnlyMergesMissed
