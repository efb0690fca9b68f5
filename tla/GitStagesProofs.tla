-------------------------- MODULE GitStagesProofs --------------------------
(***************************************************************************)
(* Proofs about GitStages, for any history, chain of stages, mappings,     *)
(* clones, backends and number of builds: whatever stages of other commits *)
(* a build reuses, its image has the files of its own commit, and its      *)
(* instructions ran on the files they depend on.  Builds of one commit end *)
(* with one stage, and a build changes the files of git once.              *)
(***************************************************************************)
EXTENDS GitStages, FiniteSetTheorems, TLAPS

-----------------------------------------------------------------------------
(* The inductive invariant.  Its parts are about stages s and records r of *)
(* builds; of the variables they depend on the history only.               *)

\* The labels of a build or an invocation r.
LatestInfo(r, g) ==
  LET vm == g \in Local /\ r.vm IN
  [commit |-> r.head[g], vm |-> vm,
   from |-> IF vm THEN Parents[r.head[g]][2] ELSE None,
   into |-> IF vm THEN Parents[r.head[g]][1] ELSE None]

\* The labels are those of invocations, and a virtual merge is one of the
\* commits that the labels name.
InfoOK(s) ==
  \A g \in Mappings :
    /\ \E i \in Invocations : s.info[g] = LatestInfo(i, g) /\ s.info[g].commit = i.head[g]
    /\ s.info[g].vm => /\ IsMerge(s.info[g].commit)
                       /\ Parents[s.info[g].commit] = <<s.info[g].into, s.info[g].from>>

\* The files of a stage are those of the commits in its labels.
FilesOK(s) ==
  \A g \in Mappings, p \in Paths :
    AsLatest(p, s.files[g][p], tree[s.info[g].commit][p])

\* The instructions ran on the files in the digest.
RanOK(s) ==
  \A u \in DOMAIN s.ran, g \in Mappings : \A p \in StageDeps[u] :
    AsLatest(p, s.ran[u].files[g][p], s.ran[u].deps[g][p])

UserStagesTo(k) == UserStages \cap {Chain[j] : j \in 1..k}

ImageOK(s) ==
  /\ InfoOK(s) /\ FilesOK(s) /\ RanOK(s)
  /\ \E k \in DOMAIN Chain : s.stage = Chain[k] /\ DOMAIN s.ran = UserStagesTo(k)
  /\ s.digest[1] = s.stage

TreePatch(c, d) ==
  {<<p, tree[c][p], tree[d][p]>> : p \in {q \in Paths : tree[c][q] # tree[d][q]}}

SameCommits(s, q) == \A g \in Mappings : s.info[g].commit = q.info[g].commit

\* Stage s was made on the stage q.
On(s, q) ==
  /\ s.digest = <<s.stage, s.digest[2], q.digest, GetNextStageDependencies(q)>>
  /\ \A u \in DOMAIN s.ran :
       IF u = s.stage THEN s.ran[u].deps = s.digest[2]
                      ELSE u \in DOMAIN q.ran /\ s.ran[u].deps = q.ran[u].deps
  /\ s.stage \notin GitStages => SameCommits(s, q)
  /\ s.stage = "gitLatestPatch" =>
       s.digest[2] = [g \in Mappings |-> TreePatch(q.info[g].commit, s.info[g].commit)]

ParentOK(s, R) ==
  s.stage # "gitArchive" => \E q \in R : q.ts = s.parent /\ On(s, q)

\* The digest of a stage determines the files that user stages depend on, and
\* with what the stage adds to the next digest also the commits.
Same(r, s) ==
  r.digest = s.digest =>
    /\ \A u \in DOMAIN r.ran \cap DOMAIN s.ran : r.ran[u].deps = s.ran[u].deps
    /\ GetNextStageDependencies(r) = GetNextStageDependencies(s) => SameCommits(r, s)

RepoOK(R) ==
  /\ \A s \in R : ImageOK(s) /\ ParentOK(s, R)
  /\ \A r, s \in R : Same(r, s)

\* A build is run as one of the invocations.
Invoked(r) ==
  \E i \in Invocations :
    r.head = i.head /\ r.vm = i.vm /\ r.clone = i.clone /\ r.backend = i.backend

Checksum(r, u) == [g \in Mappings |-> [p \in StageDeps[u] |-> tree[r.head[g]][p]]]

\* The digest d is the one that the build calculates for its next stage.
Fits(r, d) ==
  /\ d = <<Chain[r.at], d[2], r.prev.digest, GetNextStageDependencies(r.prev)>>
  /\ Chain[r.at] \in UserStages => d[2] = Checksum(r, Chain[r.at])
  /\ Chain[r.at] = "gitLatestPatch" =>
       d[2] = [g \in Mappings |-> TreePatch(r.prev.info[g].commit, r.head[g])]

MadeOK(r) ==
  /\ r.at <= Len(Chain)
  /\ r.made = [stage |-> Chain[r.at], digest |-> r.made.digest, ts |-> 0, parent |-> r.prev.ts,
               info |-> r.made.info, files |-> r.made.files, ran |-> r.made.ran]
  /\ ImageOK(r.made)
  /\ Fits(r, r.made.digest)
  /\ r.at > 1 => On(r.made, r.prev)

\* The user stages up to here ran on what this build has of their dependencies,
\* and from gitLatestPatch on the commits below have the files of its own.
PrevOK(r) ==
  /\ DOMAIN r.prev.ran = UserStagesTo(r.at - 1)
  /\ \A u \in DOMAIN r.prev.ran : r.prev.ran[u].deps = Checksum(r, u)
  /\ \A l \in 1..(r.at - 1) : Chain[l] = "gitLatestPatch" =>
       \A g \in Mappings, p \in Paths : tree[r.prev.info[g].commit][p] = tree[r.head[g]][p]

IsRunning(r) == r.pc \in {"stage", "made"}

Fields == {"pc", "at", "prev", "made", "updates", "head", "vm", "clone", "backend"}

BuildOK(r, R) ==
  \/ r = Idle
  \/ /\ r = [x \in Fields |-> r[x]]
     /\ r.pc \in {"stage", "made", "done", "failed"}
     /\ r.at \in 1..(Len(Chain) + 1)
     /\ Invoked(r)
     /\ r.at = 1 => r.prev = FromImage
     /\ r.at > 1 => ImageOK(r.prev) /\ (IsRunning(r) => r.prev \in R)
     /\ PrevOK(r)
     /\ r.pc = "made" => MadeOK(r)
     /\ r.pc = "done" => r.at = Len(Chain) + 1

IInv ==
  /\ tree \in Trees
  /\ build = [b \in Builds |-> build[b]]
  /\ RepoOK(repo)
  /\ \A b \in Builds : BuildOK(build[b], repo)

-----------------------------------------------------------------------------
(* Commits, patches and files.                                             *)

LEMMA ChainFacts ==
  /\ Len(Chain) \in Nat \ {0} /\ DOMAIN Chain = 1..Len(Chain)
  /\ Chain[1] = "gitArchive"
  /\ \A i, j \in 1..Len(Chain) : Chain[i] = Chain[j] => i = j
  /\ \A i, j \in 1..Len(Chain) : Chain[i] = "gitLatestPatch" /\ i < j => Chain[j] \notin GitStages
  /\ UserStages \subseteq {Chain[i] : i \in 1..Len(Chain)}
  /\ \A n \in {"from", "gitArchive", "gitCache", "gitLatestPatch"} : n \notin UserStages
BY GitAssumption DEF ChainInOrder

LEMMA CommitFacts ==
  ASSUME tree \in Trees
  PROVE  /\ \A i \in Invocations : i.head \in [Mappings -> Commits]
         /\ tree \in [Commits -> Files]
         /\ \A c \in Commits : tree[c] \in Files
         /\ None \notin Commits
BY GitAssumption

\* The base of a patch has the files of the commit in the labels, also when the
\* virtual merge has to be made again.
LEMMA BaseHasFiles ==
  ASSUME tree \in Trees, NEW b \in Builds, Invoked(build[b]),
         NEW s, InfoOK(s), NEW g \in Mappings
  PROVE  /\ GetBaseCommitForPrevBuiltImage(b, g, s).files = tree[s.info[g].commit]
         /\ GetBaseCommitForPrevBuiltImage(b, g, s).commit = Latest(b, g)
              => s.info[g].commit = Latest(b, g)
<1> DEFINE info == s.info[g]
           c == CHOOSE c \in Commits : Parents[c] = <<info.into, info.from>>
<1>1. info.commit \in Commits /\ Latest(b, g) \in Commits
  BY CommitFacts DEF InfoOK, Invoked, Latest
<1>2. CASE Remade(b, g, info)
  <2>1. IsMerge(info.commit) /\ Parents[info.commit] = <<info.into, info.from>>
    BY <1>2 DEF Remade, InfoOK
  <2>2. c \in Commits /\ Parents[c] = <<info.into, info.from>>
    BY <1>1, <2>1
  <2>3. tree[c] = tree[info.commit]
    BY <1>1, <2>1, <2>2, MergeAssumption
  <2> QED
    BY <1>1, <1>2, <2>3, CommitFacts
    DEF GetBaseCommitForPrevBuiltImage, CreateDetachedMergeCommit
<1>3. CASE ~Remade(b, g, info)
  BY <1>3 DEF GetBaseCommitForPrevBuiltImage
<1> QED
  BY <1>2, <1>3

LEMMA PatchOfCommits ==
  ASSUME tree \in Trees, NEW b \in Builds, Invoked(build[b]),
         NEW s, InfoOK(s), NEW g \in Mappings
  PROVE  Patch(b, g, s) = TreePatch(s.info[g].commit, Latest(b, g))
BY BaseHasFiles DEF Patch, TreePatch

LEMMA PatchFacts ==
  ASSUME NEW c, NEW d
  PROVE  /\ Changed(TreePatch(c, d)) = {p \in Paths : tree[c][p] # tree[d][p]}
         /\ PathsToRemove(TreePatch(c, d)) =
              {p \in Paths : /\ tree[c][p] # tree[d][p] /\ tree[d][p] = Absent
                             /\ tree[c][p] # EmptyFile /\ p \notin Binary}
<1> DEFINE Differ == {p \in Paths : tree[c][p] # tree[d][p]}
           Triple(p) == <<p, tree[c][p], tree[d][p]>>
<1>1. \A p \in Differ : Triple(p) \in TreePatch(c, d)
  BY DEF TreePatch
<1>2. \A t \in TreePatch(c, d) : \E p \in Differ : t = Triple(p)
  BY DEF TreePatch
<1>3. \A p \in Differ : Triple(p)[1] = p /\ Triple(p)[2] = tree[c][p] /\ Triple(p)[3] = tree[d][p]
  OBVIOUS
<1> HIDE DEF Triple, Differ
<1>4. Changed(TreePatch(c, d)) = Differ
  <2>1. \A p \in Changed(TreePatch(c, d)) : p \in Differ
    BY <1>2, <1>3 DEF Changed
  <2>2. \A p \in Differ : p \in Changed(TreePatch(c, d))
    BY <1>1, <1>3 DEF Changed
  <2> QED
    BY <2>1, <2>2
<1>5. PathsToRemove(TreePatch(c, d)) =
        {p \in Differ : tree[d][p] = Absent /\ tree[c][p] # EmptyFile /\ p \notin Binary}
  <2> DEFINE Gone == {t \in TreePatch(c, d) : t[3] = Absent /\ t[2] # EmptyFile /\ t[1] \notin Binary}
  <2>1. PathsToRemove(TreePatch(c, d)) = {t[1] : t \in Gone}
    BY DEF PathsToRemove
  <2>2. \A t \in Gone : \E p \in Differ :
          t[1] = p /\ tree[d][p] = Absent /\ tree[c][p] # EmptyFile /\ p \notin Binary
    BY <1>2, <1>3
  <2>3. \A p \in Differ : tree[d][p] = Absent /\ tree[c][p] # EmptyFile /\ p \notin Binary
          => Triple(p) \in Gone /\ Triple(p)[1] = p
    BY <1>1, <1>3
  <2> HIDE DEF Gone
  <2> QED
    BY <2>1, <2>2, <2>3
<1> QED
  BY <1>4, <1>5 DEF Differ

\* Equal patches from one commit lead to equal files.
LEMMA EqualPatches ==
  ASSUME NEW c, NEW d, NEW e, TreePatch(c, d) = TreePatch(c, e), NEW p \in Paths
  PROVE  tree[d][p] = tree[e][p]
<1>1. CASE tree[c][p] # tree[d][p]
  <2>1. <<p, tree[c][p], tree[d][p]>> \in TreePatch(c, e)
    BY <1>1 DEF TreePatch
  <2> QED
    BY <2>1 DEF TreePatch
<1>2. CASE tree[c][p] # tree[e][p]
  <2>1. <<p, tree[c][p], tree[e][p]>> \in TreePatch(c, d)
    BY <1>2 DEF TreePatch
  <2> QED
    BY <2>1 DEF TreePatch
<1> QED
  BY <1>1, <1>2

\* A patch turns files of one commit into files of another, with either backend.
LEMMA PatchedFiles ==
  ASSUME tree \in Trees, NEW b \in Builds, Invoked(build[b]),
         NEW s, InfoOK(s), FilesOK(s), NEW g \in Mappings, NEW p \in Paths
  PROVE  AsLatest(p, PreparePatchForImage(b, g, s)[p], tree[Latest(b, g)][p])
<1> DEFINE c == s.info[g].commit
           d == Latest(b, g)
           old == s.files[g]
<1>1. AsLatest(p, old[p], tree[c][p])
  BY DEF FilesOK
<1>2. CASE build[b].backend = "docker"
  <2>1. PreparePatchForImage(b, g, s) = BaseApplyPatchCommand(TreePatch(c, d), old, tree[d])
    BY <1>2, PatchOfCommits DEF PreparePatchForImage
  <2>2. \/ PreparePatchForImage(b, g, s)[p] = tree[d][p]
        \/ PreparePatchForImage(b, g, s)[p] = old[p] /\ tree[c][p] = tree[d][p]
    BY <2>1, PatchFacts DEF BaseApplyPatchCommand, Replaced
  <2> QED
    BY <1>1, <2>2 DEF AsLatest
<1>3. CASE build[b].backend # "docker"
  <2>1. PreparePatchForImage(b, g, s) = AddAndRemoveData(TreePatch(c, d), old, tree[d])
    BY <1>3, PatchOfCommits DEF PreparePatchForImage
  <2>2. \/ PreparePatchForImage(b, g, s)[p] = tree[d][p]
        \/ PreparePatchForImage(b, g, s)[p] = old[p] /\ tree[c][p] = tree[d][p]
        \/ /\ PreparePatchForImage(b, g, s)[p] = old[p] /\ tree[c][p] # tree[d][p]
           /\ tree[d][p] = Absent /\ (tree[c][p] = EmptyFile \/ p \in Binary)
    BY <2>1, PatchFacts DEF AddAndRemoveData, Replaced
  <2>3. \E i \in Invocations : i.backend = "buildah"
    BY <1>3, GitAssumption DEF Invoked
  <2>4. tree[c][p] # tree[d][p] /\ tree[d][p] = Absent => old[p] = tree[c][p]
    BY <1>1 DEF AsLatest, LeftBehind
  <2> QED
    BY <1>1, <2>2, <2>3, <2>4 DEF AsLatest, LeftBehind
<1> QED
  BY <1>2, <1>3

-----------------------------------------------------------------------------
(* The image that a build makes of the stage below.                        *)

LEMMA LabelsOK ==
  ASSUME tree \in Trees, NEW b \in Builds, Invoked(build[b]), NEW s, s.info = Labels(b)
  PROVE  InfoOK(s) /\ \A g \in Mappings : s.info[g].commit = Latest(b, g)
<1> SUFFICES ASSUME NEW g \in Mappings
             PROVE  /\ \E i \in Invocations :
                         s.info[g] = LatestInfo(i, g) /\ s.info[g].commit = i.head[g]
                    /\ s.info[g].vm => /\ IsMerge(s.info[g].commit)
                                       /\ Parents[s.info[g].commit] = <<s.info[g].into, s.info[g].from>>
                    /\ s.info[g].commit = Latest(b, g)
  BY DEF InfoOK
<1>1. s.info[g] = GetLatestCommitInfo(b, g)
  BY DEF Labels
<1>2. s.info[g].commit = Latest(b, g) /\ s.info[g].vm = VirtualMerge(b, g)
  BY <1>1 DEF GetLatestCommitInfo
<1>3. PICK i \in Invocations : build[b].head = i.head /\ build[b].vm = i.vm
  BY DEF Invoked
<1>4. ASSUME s.info[g].vm
      PROVE  IsMerge(s.info[g].commit) /\ Parents[s.info[g].commit] = <<s.info[g].into, s.info[g].from>>
  <2>1. VirtualMerge(b, g)
    BY <1>2, <1>4
  <2>2. IsMerge(Latest(b, g)) /\ Latest(b, g) \in Commits
    BY <2>1, <1>3, GitAssumption DEF VirtualMerge, Latest
  <2>3. Parents[Latest(b, g)] \in Seq(Commits) /\ Len(Parents[Latest(b, g)]) = 2
    BY <2>2, GitAssumption DEF IsMerge
  <2>4. Parents[Latest(b, g)] = <<Parents[Latest(b, g)][1], Parents[Latest(b, g)][2]>>
    BY <2>3
  <2> QED
    BY <1>1, <1>2, <2>1, <2>2, <2>4 DEF GetLatestCommitInfo
<1>5. s.info[g] = LatestInfo(i, g)
  BY <1>1, <1>3 DEF GetLatestCommitInfo, LatestInfo, VirtualMerge, Latest
<1> QED
  BY <1>2, <1>3, <1>4, <1>5 DEF Latest

\* A build at a stage of the chain.
AtChain(r, R) ==
  BuildOK(r, R) /\ r # Idle /\ r.at <= Len(Chain) /\ r.pc \in {"stage", "made"}

LEMMA DigestFits ==
  ASSUME tree \in Trees, NEW b \in Builds, NEW R, AtChain(build[b], R)
  PROVE  Fits(build[b], CalculateDigest(b, Chain[build[b].at], build[b].prev))
<1> DEFINE r == build[b]
           stage == Chain[r.at]
           d == CalculateDigest(b, stage, r.prev)
<1> USE DEF AtChain
<1>1. d = <<stage, d[2], r.prev.digest, GetNextStageDependencies(r.prev)>>
      /\ d[2] = GetDependencies(b, stage, r.prev)
  BY DEF CalculateDigest
<1>2. ASSUME stage \in UserStages PROVE d[2] = Checksum(r, stage)
  <2>1. d[2] = StageDependenciesChecksum(b, stage, r.prev)
    BY <1>1, <1>2, ChainFacts DEF GetDependencies
  <2> QED
    BY <2>1 DEF StageDependenciesChecksum, Checksum, Latest
<1>3. ASSUME stage = "gitLatestPatch"
      PROVE  d[2] = [g \in Mappings |-> TreePatch(r.prev.info[g].commit, r.head[g])]
  <2>1. d[2] = [g \in Mappings |-> Patch(b, g, r.prev)]
    BY <1>1, <1>3, ChainFacts DEF GetDependencies, GitLatestPatchDependencies
  <2>2. r.at > 1
    BY <1>3, ChainFacts DEF BuildOK
  <2>3. Invoked(r) /\ InfoOK(r.prev)
    BY <2>2 DEF BuildOK, ImageOK
  <2>4. \A g \in Mappings : Patch(b, g, r.prev) = TreePatch(r.prev.info[g].commit, r.head[g])
    BY <2>3, PatchOfCommits DEF Latest
  <2> QED
    BY <2>1, <2>4
<1> QED
  BY <1>1, <1>2, <1>3 DEF Fits

\* What PrepareImage makes of it.
LEMMA PreparedOK ==
  ASSUME tree \in Trees, NEW b \in Builds, NEW R, AtChain(build[b], R), NEW n,
         n.info = PrepareImage(b, Chain[build[b].at], build[b].prev).info,
         n.files = PrepareImage(b, Chain[build[b].at], build[b].prev).files
  PROVE  /\ InfoOK(n) /\ FilesOK(n)
         /\ Chain[build[b].at] \in GitStages =>
              \A g \in Mappings : n.info[g].commit = build[b].head[g]
         /\ Chain[build[b].at] \notin GitStages => n.info = build[b].prev.info
<1> DEFINE r == build[b]
           stage == Chain[r.at]
<1> USE DEF AtChain
<1>1. Invoked(r)
  BY DEF BuildOK
<1>2. CASE stage = "gitArchive"
  <2>1. r.at = 1 /\ r.prev = FromImage
    BY <1>2, ChainFacts DEF BuildOK
  <2>2. n.info = Labels(b) /\ n.files = [g \in Mappings |-> PrepareArchiveForImage(b, g, FromImage)]
    <3>1. PrepareImage(b, stage, r.prev) = Archived(b, r.prev)
      BY <1>2, ChainFacts DEF PrepareImage
    <3> QED
      BY <2>1, <3>1 DEF Archived
  <2>3. InfoOK(n) /\ \A g \in Mappings : n.info[g].commit = Latest(b, g)
    BY <1>1, <2>2, LabelsOK
  <2>4. \A g \in Mappings, p \in Paths : n.files[g][p] = tree[Latest(b, g)][p]
    BY <2>2 DEF PrepareArchiveForImage, Replaced, FromImage
  <2> QED
    BY <1>2, <2>3, <2>4 DEF FilesOK, AsLatest, Latest, GitStages
<1>3. CASE stage # "gitArchive"
  <2>1. r.at > 1 /\ InfoOK(r.prev) /\ FilesOK(r.prev)
    BY <1>3, ChainFacts DEF BuildOK, ImageOK
  <2>2. CASE /\ n.info = Labels(b)
             /\ n.files = [g \in Mappings |-> PreparePatchForImage(b, g, r.prev)]
             /\ stage \in GitStages
    <3>1. InfoOK(n) /\ \A g \in Mappings : n.info[g].commit = Latest(b, g)
      BY <1>1, <2>2, LabelsOK
    <3>2. FilesOK(n)
      BY <1>1, <2>1, <2>2, <3>1, PatchedFiles DEF FilesOK
    <3> QED
      BY <2>2, <3>1, <3>2 DEF Latest
  <2>3. CASE /\ n.info = r.prev.info /\ n.files = r.prev.files
             /\ stage \in GitStages => HasPrevBuiltStageHadActualGitMappings(b, r.prev)
    <3>1. InfoOK(n) /\ FilesOK(n)
      BY <2>1, <2>3 DEF InfoOK, FilesOK
    <3>2. stage \in GitStages => \A g \in Mappings : n.info[g].commit = Latest(b, g)
      BY <1>1, <2>1, <2>3, BaseHasFiles DEF HasPrevBuiltStageHadActualGitMappings
    <3> QED
      BY <2>3, <3>1, <3>2 DEF Latest
  <2> QED
    BY <1>3, <2>2, <2>3, ChainFacts DEF PrepareImage, Patched, GitStages
<1> QED
  BY <1>2, <1>3

LEMMA UserStagesStep ==
  ASSUME NEW k \in 1..Len(Chain)
  PROVE  /\ UserStagesTo(k) = UserStagesTo(k - 1) \cup (UserStages \cap {Chain[k]})
         /\ UserStagesTo(0) = {} /\ UserStagesTo(1) = {}
<1>1. 1..k = 1..(k - 1) \cup {k} /\ 1..0 = {} /\ 1..1 = {1}
  BY ChainFacts
<1> QED
  BY <1>1, ChainFacts DEF UserStagesTo

LEMMA NewImageOK ==
  ASSUME tree \in Trees, NEW b \in Builds, NEW R, AtChain(build[b], R),
         NEW n, n = NewImage(b, Chain[build[b].at], build[b].prev)
  PROVE  /\ n = [stage |-> Chain[build[b].at], digest |-> n.digest, ts |-> 0,
                 parent |-> build[b].prev.ts, info |-> n.info, files |-> n.files, ran |-> n.ran]
         /\ ImageOK(n) /\ Fits(build[b], n.digest)
         /\ build[b].at > 1 => On(n, build[b].prev)
<1> DEFINE r == build[b]
           stage == Chain[r.at]
           made == PrepareImage(b, stage, r.prev)
<1>1. /\ n.stage = stage /\ n.digest = CalculateDigest(b, stage, r.prev) /\ n.ts = 0
      /\ n.parent = r.prev.ts /\ n.info = made.info /\ n.files = made.files
      /\ n.ran = IF stage \in UserStages
                 THEN [u \in DOMAIN r.prev.ran \cup {stage} |->
                         IF u = stage THEN [files |-> made.files,
                                            deps |-> GetDependencies(b, stage, r.prev)]
                                      ELSE r.prev.ran[u]]
                 ELSE r.prev.ran
      /\ n = [stage |-> stage, digest |-> n.digest, ts |-> 0, parent |-> r.prev.ts,
              info |-> n.info, files |-> n.files, ran |-> n.ran]
  BY DEF NewImage
<1>2. Fits(r, n.digest) /\ n.digest[1] = n.stage /\ n.digest[2] = GetDependencies(b, stage, r.prev)
  <2>1. Fits(r, CalculateDigest(b, stage, r.prev))
    BY DigestFits
  <2>2. n.digest = <<stage, GetDependencies(b, stage, r.prev), r.prev.digest,
                     GetNextStageDependencies(r.prev)>>
    BY <1>1 DEF CalculateDigest
  <2>3. n.digest[1] = stage /\ n.digest[2] = GetDependencies(b, stage, r.prev)
    BY <2>2
  <2>4. n.stage = stage /\ n.digest = CalculateDigest(b, stage, r.prev)
    BY <1>1
  <2> QED
    BY <2>1, <2>3, <2>4
<1>3. /\ InfoOK(n) /\ FilesOK(n)
      /\ stage \in GitStages => \A g \in Mappings : n.info[g].commit = r.head[g]
      /\ stage \notin GitStages => n.info = r.prev.info
  BY <1>1, PreparedOK
<1>4. /\ r.at \in 1..Len(Chain) /\ PrevOK(r)
      /\ r.at = 1 => r.prev = FromImage
      /\ r.at > 1 => ImageOK(r.prev)
  BY ChainFacts DEF AtChain, BuildOK
<1>5. DOMAIN n.ran = UserStagesTo(r.at)
  <2>1. DOMAIN n.ran = DOMAIN r.prev.ran \cup (UserStages \cap {stage})
    BY <1>1
  <2> QED
    BY <2>1, <1>4, UserStagesStep DEF PrevOK
<1>6. ASSUME NEW u \in DOMAIN n.ran, u # stage
      PROVE  u \in DOMAIN r.prev.ran /\ n.ran[u] = r.prev.ran[u] /\ r.at > 1
  <2>1. u \in UserStagesTo(r.at - 1) /\ u \in DOMAIN r.prev.ran
    BY <1>4, <1>5, <1>6, UserStagesStep DEF PrevOK
  <2>2. r.at > 1
    BY <1>4, <2>1, UserStagesStep, ChainFacts
  <2>3. CASE stage \in UserStages
    BY <1>1, <1>6, <2>1, <2>2, <2>3
  <2>4. CASE stage \notin UserStages
    BY <1>1, <2>1, <2>2, <2>4
  <2> QED
    BY <2>3, <2>4
<1>7. ASSUME NEW u \in DOMAIN n.ran, u = stage
      PROVE  stage \in UserStages /\ n.ran[u].files = n.files /\ n.ran[u].deps = n.digest[2]
  <2>1. stage \in UserStages
    BY <1>5, <1>7 DEF UserStagesTo
  <2>2. n.ran[u] = [files |-> made.files, deps |-> GetDependencies(b, stage, r.prev)]
    BY <1>1, <1>7, <2>1
  <2>3. n.files = made.files
    BY <1>1
  <2> QED
    BY <1>2, <2>1, <2>2, <2>3
<1>8. RanOK(n)
  <2> SUFFICES ASSUME NEW u \in DOMAIN n.ran, NEW g \in Mappings, NEW p \in StageDeps[u]
               PROVE  AsLatest(p, n.ran[u].files[g][p], n.ran[u].deps[g][p])
    BY DEF RanOK
  <2>1. CASE u = stage
    <3>1. stage \in GitStages /\ p \in Paths
      BY <1>7, <2>1, GitAssumption DEF GitStages
    <3>2. n.ran[u].deps = Checksum(r, stage)
      BY <1>2, <1>7, <2>1 DEF Fits
    <3>3. n.ran[u].deps[g][p] = tree[n.info[g].commit][p]
      <4>1. Checksum(r, stage)[g][p] = tree[r.head[g]][p]
        BY <2>1 DEF Checksum
      <4> QED
        BY <1>3, <3>1, <3>2, <4>1
    <3> QED
      BY <1>3, <1>7, <2>1, <3>1, <3>3 DEF FilesOK
  <2>2. CASE u # stage
    BY <1>4, <1>6, <2>2 DEF ImageOK, RanOK
  <2> QED
    BY <2>1, <2>2
<1>9. ImageOK(n)
  BY <1>1, <1>2, <1>3, <1>4, <1>5, <1>8, ChainFacts DEF ImageOK
<1>10. ASSUME r.at > 1 PROVE On(n, r.prev)
  <2>1. n.digest = <<n.stage, n.digest[2], r.prev.digest, GetNextStageDependencies(r.prev)>>
    BY <1>1, <1>2 DEF Fits
  <2>2. \A u \in DOMAIN n.ran :
          IF u = n.stage THEN n.ran[u].deps = n.digest[2]
                         ELSE u \in DOMAIN r.prev.ran /\ n.ran[u].deps = r.prev.ran[u].deps
    BY <1>1, <1>6, <1>7
  <2>3. n.stage \notin GitStages => SameCommits(n, r.prev)
    BY <1>1, <1>3 DEF SameCommits
  <2>4. n.stage = "gitLatestPatch" =>
          n.digest[2] = [g \in Mappings |-> TreePatch(r.prev.info[g].commit, n.info[g].commit)]
    BY <1>1, <1>2, <1>3 DEF Fits, GitStages
  <2> QED
    BY <2>1, <2>2, <2>3, <2>4 DEF On
<1> QED
  BY <1>1, <1>2, <1>9, <1>10

-----------------------------------------------------------------------------
(* What a digest tells of a stage.                                         *)

\* The commits that a stage adds to the next digest are told apart by the
\* mappings, though they are given without their order.
LEMMA CountsTellCommits ==
  ASSUME NEW r, NEW s, InfoOK(r), InfoOK(s), r.stage \in GitStages, s.stage \in GitStages,
         GetNextStageDependencies(r) = GetNextStageDependencies(s), tree \in Trees
  PROVE  SameCommits(r, s)
<1> SUFFICES ASSUME NEW g \in Mappings PROVE r.info[g].commit = s.info[g].commit
  BY DEF SameCommits
<1> DEFINE c == r.info[g].commit
           Of(q) == {f \in Mappings : q.info[f].commit = c}
<1>1. c \in Commits
  BY CommitFacts DEF InfoOK
<1>2. Cardinality(Of(r)) = Cardinality(Of(s))
  BY <1>1 DEF GetNextStageDependencies
<1>3. IsFiniteSet(Of(r)) /\ IsFiniteSet(Of(s))
  BY GitAssumption, FS_Subset
<1>4. Of(r) # {}
  OBVIOUS
<1>5. Of(s) # {}
  BY <1>2, <1>3, <1>4, FS_EmptySet
<1>6. PICK f \in Mappings : s.info[f].commit = c
  BY <1>5
<1>7. f = g
  BY <1>6, MappingsAssumption DEF InfoOK
<1> QED
  BY <1>6, <1>7

\* What the digests and the stages below tell of two stages.
LEMMA SameDigest ==
  ASSUME tree \in Trees, NEW R, RepoOK(R), NEW r, NEW s,
         ImageOK(r), ParentOK(r, R), ImageOK(s), ParentOK(s, R)
  PROVE  Same(r, s)
<1> SUFFICES ASSUME r.digest = s.digest
             PROVE  /\ \A u \in DOMAIN r.ran \cap DOMAIN s.ran : r.ran[u].deps = s.ran[u].deps
                    /\ GetNextStageDependencies(r) = GetNextStageDependencies(s) => SameCommits(r, s)
  BY DEF Same
<1>1. r.stage = s.stage
  BY DEF ImageOK
<1>2. CASE r.stage = "gitArchive"
  <2>1. DOMAIN r.ran = {}
    <3>1. PICK k \in 1..Len(Chain) : r.stage = Chain[k] /\ DOMAIN r.ran = UserStagesTo(k)
      BY ChainFacts DEF ImageOK
    <3>2. k = 1
      BY <1>2, <3>1, ChainFacts
    <3> QED
      BY <3>1, <3>2, UserStagesStep
  <2>2. r.stage \in GitStages
    BY <1>2 DEF GitStages
  <2> QED
    BY <1>1, <2>1, <2>2, CountsTellCommits DEF ImageOK
<1>3. CASE r.stage # "gitArchive"
  <2>1. PICK q \in R : On(r, q)
    BY <1>3 DEF ParentOK
  <2>2. PICK t \in R : On(s, t)
    BY <1>1, <1>3 DEF ParentOK
  <2>3. q.digest = t.digest /\ GetNextStageDependencies(q) = GetNextStageDependencies(t)
    BY <2>1, <2>2 DEF On
  <2>4. /\ \A u \in DOMAIN q.ran \cap DOMAIN t.ran : q.ran[u].deps = t.ran[u].deps
        /\ SameCommits(q, t)
    BY <2>3 DEF RepoOK, Same
  <2>5. \A u \in DOMAIN r.ran \cap DOMAIN s.ran : r.ran[u].deps = s.ran[u].deps
    BY <1>1, <2>1, <2>2, <2>4 DEF On
  <2>6. CASE r.stage \in GitStages
    BY <1>1, <2>5, <2>6, CountsTellCommits DEF ImageOK
  <2>7. CASE r.stage \notin GitStages
    BY <1>1, <2>1, <2>2, <2>4, <2>5, <2>7 DEF On, SameCommits
  <2> QED
    BY <2>6, <2>7
<1> QED
  BY <1>2, <1>3

-----------------------------------------------------------------------------
(* The invariant is preserved.                                             *)

\* A build goes on from the stage s.
Onwards(n, r, s) ==
  /\ n = [x \in Fields |-> n[x]]
  /\ n.pc = "stage" /\ n.at = r.at + 1 /\ n.prev = s /\ n.made = None
  /\ n.head = r.head /\ n.vm = r.vm /\ n.clone = r.clone /\ n.backend = r.backend

LEMMA Advance ==
  ASSUME tree \in Trees, NEW R, RepoOK(R), NEW r, AtChain(r, R), NEW s \in R, Fits(r, s.digest),
         NEW n, Onwards(n, r, s)
  PROVE  BuildOK(n, R)
<1>1. /\ n = [x \in Fields |-> n[x]]
      /\ n.pc = "stage" /\ n.at = r.at + 1 /\ n.prev = s /\ n.made = None
      /\ n.head = r.head /\ n.vm = r.vm /\ n.clone = r.clone /\ n.backend = r.backend
  BY DEF Onwards
<1>2. /\ r.at \in 1..Len(Chain) /\ Invoked(r) /\ PrevOK(r)
      /\ r.at > 1 => r.prev \in R
  BY ChainFacts DEF AtChain, BuildOK, IsRunning
<1>3. Invoked(n)
  BY <1>1, <1>2 DEF Invoked
<1>4. ImageOK(s) /\ ParentOK(s, R)
  BY DEF RepoOK
<1>5. s.stage = Chain[r.at]
  <2>1. s.digest[1] = Chain[r.at]
    BY DEF Fits
  <2> QED
    BY <2>1, <1>4 DEF ImageOK
<1>6. DOMAIN s.ran = UserStagesTo(r.at)
  BY <1>2, <1>4, <1>5, ChainFacts DEF ImageOK
<1>7. \A u : Checksum(n, u) = Checksum(r, u)
  BY <1>1 DEF Checksum
<1>8. PrevOK(n)
  <2>1. CASE r.at = 1
    <3>1. UserStagesTo(1) = {} /\ UserStagesTo(n.at - 1) = UserStagesTo(1) /\ 1..(n.at - 1) = {1}
      BY <1>1, <1>2, <2>1, UserStagesStep
    <3> QED
      BY <1>1, <1>6, <2>1, <3>1, ChainFacts DEF PrevOK
  <2>2. CASE r.at > 1
    <3>1. s.stage # "gitArchive"
      BY <1>2, <1>5, <2>2, ChainFacts
    <3>2. PICK q \in R : On(s, q)
      BY <1>4, <3>1 DEF ParentOK
    <3>3. q.digest = r.prev.digest /\ GetNextStageDependencies(q) = GetNextStageDependencies(r.prev)
      BY <3>2 DEF On, Fits
    <3>4. /\ \A u \in DOMAIN q.ran \cap DOMAIN r.prev.ran : q.ran[u].deps = r.prev.ran[u].deps
          /\ SameCommits(q, r.prev)
      BY <1>2, <2>2, <3>3 DEF RepoOK, Same
    <3>5. ASSUME NEW u \in DOMAIN s.ran PROVE s.ran[u].deps = Checksum(r, u)
      <4>1. CASE u = s.stage
        <5>1. Chain[r.at] \in UserStages
          BY <1>5, <1>6, <4>1, <3>5 DEF UserStagesTo
        <5> QED
          BY <1>5, <3>2, <3>5, <4>1, <5>1 DEF On, Fits
      <4>2. CASE u # s.stage
        <5>1. u \in DOMAIN q.ran /\ s.ran[u].deps = q.ran[u].deps
          BY <3>2, <3>5, <4>2 DEF On
        <5>2. u \in DOMAIN r.prev.ran
          BY <1>2, <1>5, <1>6, <3>5, <4>2, UserStagesStep DEF PrevOK
        <5> QED
          BY <1>2, <3>4, <5>1, <5>2 DEF PrevOK
      <4> QED
        BY <4>1, <4>2
    <3>6. ASSUME NEW l \in 1..r.at, Chain[l] = "gitLatestPatch", NEW g \in Mappings, NEW p \in Paths
          PROVE  tree[s.info[g].commit][p] = tree[r.head[g]][p]
      <4>1. CASE l = r.at
        <5>1. s.digest[2] = [f \in Mappings |-> TreePatch(q.info[f].commit, s.info[f].commit)]
          BY <1>5, <3>2, <3>6, <4>1 DEF On
        <5>2. s.digest[2] = [f \in Mappings |-> TreePatch(r.prev.info[f].commit, r.head[f])]
          BY <3>6, <4>1 DEF Fits
        <5>3. TreePatch(q.info[g].commit, s.info[g].commit) = TreePatch(r.prev.info[g].commit, r.head[g])
          BY <5>1, <5>2
        <5>4. q.info[g].commit = r.prev.info[g].commit
          BY <3>4 DEF SameCommits
        <5> QED
          BY <5>3, <5>4, EqualPatches
      <4>2. CASE l # r.at
        <5>1. l \in 1..(r.at - 1) /\ l < r.at /\ l \in 1..Len(Chain)
          BY <1>2, <3>6, <4>2, ChainFacts
        <5>2. s.stage \notin GitStages
          BY <1>2, <1>5, <3>6, <5>1, ChainFacts
        <5>3. s.info[g].commit = r.prev.info[g].commit
          BY <3>2, <3>4, <5>2 DEF On, SameCommits
        <5> QED
          BY <1>2, <3>6, <5>1, <5>3 DEF PrevOK
      <4> QED
        BY <4>1, <4>2
    <3>7. n.at - 1 = r.at
      BY <1>1, <1>2
    <3> QED
      BY <1>1, <1>6, <1>7, <3>5, <3>6, <3>7 DEF PrevOK
  <2> QED
    BY <1>2, <2>1, <2>2
<1>9. n.at \in 1..(Len(Chain) + 1) /\ n.at # 1
  BY <1>1, <1>2, ChainFacts
<1> QED
  BY <1>1, <1>3, <1>4, <1>8, <1>9 DEF BuildOK

\* A build whose next stage is empty stays on the stage below.
LEMMA Skip ==
  ASSUME tree \in Trees, NEW R, RepoOK(R), NEW b \in Builds, AtChain(build[b], R),
         IsEmpty(b, Chain[build[b].at], build[b].prev), build[b].pc = "stage",
         NEW n, Onwards(n, build[b], build[b].prev)
  PROVE  BuildOK(n, R)
<1> DEFINE r == build[b]
<1>1. /\ n = [x \in Fields |-> n[x]]
      /\ n.pc = "stage" /\ n.at = r.at + 1 /\ n.prev = r.prev /\ n.made = None
      /\ n.head = r.head /\ n.vm = r.vm /\ n.clone = r.clone /\ n.backend = r.backend
  BY DEF Onwards
<1>2. Chain[r.at] \in {"gitCache", "gitLatestPatch"}
  BY DEF IsEmpty
<1>3. r.at \in 1..Len(Chain) /\ r.at > 1 /\ Invoked(r) /\ PrevOK(r) /\ ImageOK(r.prev) /\ r.prev \in R
  BY <1>2, ChainFacts DEF AtChain, BuildOK, IsRunning
<1>4. Invoked(n)
  BY <1>1, <1>3 DEF Invoked
<1>5. UserStagesTo(n.at - 1) = UserStagesTo(r.at - 1)
  <2>1. Chain[r.at] \notin UserStages
    BY <1>2, ChainFacts
  <2>2. UserStagesTo(r.at) = UserStagesTo(r.at - 1) \cup (UserStages \cap {Chain[r.at]})
    BY <1>3, UserStagesStep
  <2>3. n.at - 1 = r.at
    BY <1>1, <1>3
  <2> QED
    BY <2>1, <2>2, <2>3
<1>6. ASSUME Chain[r.at] = "gitLatestPatch", NEW g \in Mappings, NEW p \in Paths
      PROVE  tree[r.prev.info[g].commit][p] = tree[r.head[g]][p]
  <2>1. CASE HasPrevBuiltStageHadActualGitMappings(b, r.prev)
    BY <1>3, <2>1, BaseHasFiles DEF HasPrevBuiltStageHadActualGitMappings, ImageOK, Latest
  <2>2. CASE Patch(b, g, r.prev) = {}
    <3>1. TreePatch(r.prev.info[g].commit, r.head[g]) = {}
      BY <1>3, <2>2, PatchOfCommits DEF ImageOK, Latest
    <3> QED
      BY <3>1 DEF TreePatch
  <2> QED
    BY <1>6, <2>1, <2>2 DEF IsEmpty, GitLatestPatchIsEmpty
<1>7. \A u : Checksum(n, u) = Checksum(r, u)
  BY <1>1 DEF Checksum
<1>8. PrevOK(n)
  <2>1. \A l \in 1..(n.at - 1) : l = r.at \/ l \in 1..(r.at - 1)
    BY <1>1, <1>3
  <2> QED
    BY <1>1, <1>3, <1>5, <1>6, <1>7, <2>1 DEF PrevOK
<1>9. n.at \in 1..(Len(Chain) + 1) /\ n.at # 1
  BY <1>1, <1>3, ChainFacts
<1> QED
  BY <1>1, <1>3, <1>4, <1>8, <1>9 DEF BuildOK

\* A stage that was made on a stage of the repo is added.
LEMMA AddOK ==
  ASSUME tree \in Trees, NEW R, RepoOK(R), NEW n, ImageOK(n), ParentOK(n, R)
  PROVE  RepoOK(R \cup {n})
<1>1. \A s \in R \cup {n} : ImageOK(s) /\ ParentOK(s, R)
  BY DEF RepoOK
<1>2. \A s \in R \cup {n} : ParentOK(s, R \cup {n})
  BY <1>1 DEF ParentOK
<1>3. \A r, s \in R \cup {n} : Same(r, s)
  BY <1>1, SameDigest
<1> QED
  BY <1>1, <1>2, <1>3 DEF RepoOK

\* A stage that no other is on is removed.
LEMMA DeleteOK ==
  ASSUME NEW R, RepoOK(R), NEW d, \A r \in R : r.parent # d.ts
  PROVE  RepoOK(R \ {d})
<1>1. \A s \in R \ {d} : ParentOK(s, R \ {d})
  BY DEF RepoOK, ParentOK
<1> QED
  BY <1>1 DEF RepoOK

\* What BuildOK asks of the repo.
LEMMA BuildInRepo ==
  ASSUME NEW R, NEW Q, NEW r, BuildOK(r, R), r # Idle /\ r.at > 1 /\ IsRunning(r) => r.prev \in Q
  PROVE  BuildOK(r, Q)
BY DEF BuildOK

\* The parts depend on the history, which stays.
LEMMA HistoryStays ==
  ASSUME tree \in Trees, tree' = tree, build' = [b \in Builds |-> build'[b]],
         RepoOK(repo'), \A b \in Builds : BuildOK(build'[b], repo')
  PROVE  IInv'
<1>1. ASSUME NEW s PROVE ImageOK(s)' <=> ImageOK(s)
  BY DEF ImageOK, InfoOK, FilesOK, RanOK
<1>2. ASSUME NEW s, NEW q PROVE On(s, q)' <=> On(s, q)
  BY DEF On, TreePatch
<1>3. ASSUME NEW s, NEW R PROVE ParentOK(s, R)' <=> ParentOK(s, R)
  BY <1>2 DEF ParentOK
<1>4. RepoOK(repo)'
  BY <1>1, <1>3 DEF RepoOK
<1>5. ASSUME NEW r, NEW d PROVE Fits(r, d)' <=> Fits(r, d)
  BY DEF Fits, TreePatch, Checksum
<1>6. ASSUME NEW r PROVE PrevOK(r)' <=> PrevOK(r)
  BY DEF PrevOK, Checksum
<1>7. ASSUME NEW r PROVE MadeOK(r)' <=> MadeOK(r)
  BY <1>1, <1>2, <1>5 DEF MadeOK
<1>8. ASSUME NEW r, NEW R PROVE BuildOK(r, R)' <=> BuildOK(r, R)
  BY <1>1, <1>6, <1>7 DEF BuildOK
<1> QED
  BY <1>4, <1>8 DEF IInv

\* A step of one build, which may add to the repo.
LEMMA OneBuild ==
  ASSUME IInv, tree' = tree, NEW b \in Builds, NEW n, build' = [build EXCEPT ![b] = n],
         RepoOK(repo'), repo \subseteq repo', BuildOK(n, repo')
  PROVE  IInv'
<1>1. build = [c \in Builds |-> build[c]] /\ tree \in Trees
  BY DEF IInv
<1>2. build' = [c \in Builds |-> build'[c]]
  BY <1>1
<1>3. \A c \in Builds : build'[c] = IF c = b THEN n ELSE build[c]
  BY <1>1
<1>4. ASSUME NEW c \in Builds, c # b PROVE BuildOK(build[c], repo')
  <2>1. BuildOK(build[c], repo)
    BY DEF IInv
  <2>2. build[c] # Idle /\ build[c].at > 1 /\ IsRunning(build[c]) => build[c].prev \in repo'
    BY <2>1 DEF BuildOK
  <2> QED
    BY <2>1, <2>2, BuildInRepo
<1>5. \A c \in Builds : BuildOK(build'[c], repo')
  BY <1>3, <1>4
<1> QED
  BY <1>1, <1>2, <1>5, HistoryStays

\* A build that goes on has the form of a build.
LEMMA AtStageOK ==
  ASSUME IInv, NEW b \in Builds, AtStage(b) \/ build[b].pc = "made"
  PROVE  /\ AtChain(build[b], repo) /\ tree \in Trees /\ RepoOK(repo)
         /\ \A s : Onwards(NextStage(b, s), build[b], s)
<1> DEFINE r == build[b]
<1>1. BuildOK(r, repo) /\ tree \in Trees /\ RepoOK(repo)
  BY DEF IInv
<1>2. r # Idle
  BY DEF Idle, AtStage
<1>3. r = [x \in Fields |-> r[x]]
  BY <1>1, <1>2 DEF BuildOK
<1>4. AtChain(r, repo)
  BY <1>1, <1>2 DEF AtChain, AtStage, BuildOK, MadeOK
<1>5. ASSUME NEW s PROVE Onwards(NextStage(b, s), r, s)
  BY <1>3 DEF NextStage, Onwards, Fields
<1> QED
  BY <1>1, <1>4, <1>5

LEMMA SelectedFits ==
  ASSUME IInv, NEW b \in Builds, AtStage(b) \/ build[b].pc = "made",
         NEW s \in Selected(b, StageOf(b), build[b].prev)
  PROVE  s \in repo /\ Fits(build[b], s.digest)
<1>1. s \in repo /\ s.digest = CalculateDigest(b, StageOf(b), build[b].prev)
  BY DEF Selected, SelectSuitableStageDesc, Suitable, GetStageDescSetByDigest
<1> QED
  BY <1>1, AtStageOK, DigestFits DEF StageOf

LEMMA InitInv == Init => IInv
<1> SUFFICES ASSUME Init PROVE IInv
  OBVIOUS
<1>1. RepoOK(repo)
  BY DEF Init, RepoOK
<1>2. \A b \in Builds : BuildOK(build[b], repo)
  BY DEF Init, BuildOK
<1> QED
  BY <1>1, <1>2 DEF Init, IInv

LEMMA StartStep ==
  ASSUME IInv, NEW b \in Builds, NEW i \in Invocations, Start(b, i)
  PROVE  IInv'
<1> DEFINE n == [pc |-> "stage", at |-> 1, prev |-> FromImage, made |-> None, updates |-> 0,
                 head |-> i.head, vm |-> i.vm, clone |-> i.clone, backend |-> i.backend]
<1>1. Invoked(n)
  BY DEF Invoked
<1>2. PrevOK(n)
  <2>1. UserStagesTo(0) = {} /\ DOMAIN FromImage.ran = {} /\ 1..(n.at - 1) = {}
    BY ChainFacts, UserStagesStep DEF FromImage
  <2> QED
    BY <2>1 DEF PrevOK
<1>3. BuildOK(n, repo)
  <2>1. n = [x \in Fields |-> n[x]]
    BY DEF Fields
  <2>2. n.pc = "stage" /\ n.at = 1 /\ n.prev = FromImage
    OBVIOUS
  <2> HIDE DEF n
  <2> QED
    BY <1>1, <1>2, <2>1, <2>2, ChainFacts DEF BuildOK
<1> HIDE DEF n
<1>4. build' = [build EXCEPT ![b] = n] /\ tree' = tree /\ repo' = repo
  BY DEF Start, n
<1> QED
  BY <1>3, <1>4, OneBuild DEF IInv

LEMMA SkipStep ==
  ASSUME IInv, NEW b \in Builds, SkipEmptyStage(b)
  PROVE  IInv'
<1> DEFINE n == NextStage(b, build[b].prev)
<1>1. /\ AtStage(b) /\ build[b].pc = "stage" /\ IsEmpty(b, Chain[build[b].at], build[b].prev)
      /\ build' = [build EXCEPT ![b] = n] /\ tree' = tree /\ repo' = repo
  BY DEF SkipEmptyStage, AtStage, StageOf
<1>2. /\ AtChain(build[b], repo) /\ tree \in Trees /\ RepoOK(repo)
      /\ Onwards(n, build[b], build[b].prev)
  BY <1>1, AtStageOK
<1> HIDE DEF n
<1>3. BuildOK(n, repo)
  BY <1>1, <1>2, Skip
<1> QED
  BY <1>1, <1>2, <1>3, OneBuild

LEMMA UseStep ==
  ASSUME IInv, NEW b \in Builds, UseStage(b) \/ DiscardNewlyBuilt(b)
  PROVE  IInv'
<1>1. AtStage(b) \/ build[b].pc = "made"
  BY DEF UseStage, CalculateStage, DiscardNewlyBuilt
<1>2. PICK s \in Selected(b, StageOf(b), build[b].prev) :
        build' = [build EXCEPT ![b] = NextStage(b, s)] /\ tree' = tree /\ repo' = repo
  BY DEF UseStage, DiscardNewlyBuilt
<1> DEFINE n == NextStage(b, s)
<1>3. s \in repo /\ Fits(build[b], s.digest)
  BY <1>1, SelectedFits
<1>4. /\ AtChain(build[b], repo) /\ tree \in Trees /\ RepoOK(repo)
      /\ Onwards(n, build[b], s)
  BY <1>1, AtStageOK
<1>5. build' = [build EXCEPT ![b] = n]
  BY <1>2
<1> HIDE DEF n
<1>6. BuildOK(n, repo)
  BY <1>3, <1>4, Advance
<1> QED
  BY <1>2, <1>4, <1>5, <1>6, OneBuild

LEMMA BuildStep ==
  ASSUME IInv, NEW b \in Builds, BuildStage(b)
  PROVE  IInv'
<1> DEFINE r == build[b]
           made == NewImage(b, StageOf(b), r.prev)
           n == [r EXCEPT !.pc = "made", !.made = made]
<1>1. AtStage(b) /\ tree' = tree /\ repo' = repo
  BY DEF BuildStage, CalculateStage
<1>2. build' = [build EXCEPT ![b] = n]
  BY DEF BuildStage, IInv
<1>3. AtChain(r, repo) /\ tree \in Trees /\ RepoOK(repo)
  BY <1>1, AtStageOK
<1>4. /\ made = [stage |-> Chain[r.at], digest |-> made.digest, ts |-> 0, parent |-> r.prev.ts,
                 info |-> made.info, files |-> made.files, ran |-> made.ran]
      /\ ImageOK(made) /\ Fits(r, made.digest)
      /\ r.at > 1 => On(made, r.prev)
  BY <1>3, NewImageOK DEF StageOf
<1> HIDE DEF made
<1>5. /\ n = [x \in Fields |-> n[x]]
      /\ n.pc = "made" /\ n.at = r.at /\ n.prev = r.prev /\ n.made = made
      /\ n.head = r.head /\ n.vm = r.vm /\ n.clone = r.clone /\ n.backend = r.backend
  <2>1. r = [x \in Fields |-> r[x]]
    BY <1>3 DEF AtChain, BuildOK
  <2> QED
    BY <2>1 DEF Fields
<1> HIDE DEF n
<1>6. MadeOK(n)
  BY <1>3, <1>4, <1>5 DEF MadeOK, AtChain, Fits, Checksum
<1>7. BuildOK(n, repo)
  <2>1. PrevOK(n) /\ Invoked(n)
    <3>1. PrevOK(r) /\ Invoked(r)
      BY <1>3 DEF AtChain, BuildOK
    <3>2. \A u : Checksum(n, u) = Checksum(r, u)
      BY <1>5 DEF Checksum
    <3> QED
      BY <1>5, <3>1, <3>2 DEF PrevOK, Invoked
  <2> QED
    BY <1>3, <1>5, <1>6, <2>1 DEF AtChain, BuildOK, IsRunning
<1> QED
  BY <1>1, <1>2, <1>3, <1>7, OneBuild

LEMMA StoreStep ==
  ASSUME IInv, NEW b \in Builds, StoreStage(b)
  PROVE  IInv'
<1> DEFINE r == build[b]
           s == [r.made EXCEPT !.ts = clock + 1]
           n == [NextStage(b, s) EXCEPT !.updates = @ + IF s.files # r.prev.files THEN 1 ELSE 0]
           R == repo \cup {s}
<1>1. r.pc = "made" /\ tree' = tree /\ repo' = R
  BY DEF StoreStage
<1>2. build' = [build EXCEPT ![b] = n]
  BY DEF StoreStage
<1>3. AtChain(r, repo) /\ tree \in Trees /\ RepoOK(repo)
  BY <1>1, AtStageOK
<1>4. MadeOK(r)
  BY <1>1, <1>3 DEF AtChain, BuildOK
<1>5. /\ s.stage = r.made.stage /\ s.digest = r.made.digest /\ s.parent = r.made.parent
      /\ s.info = r.made.info /\ s.files = r.made.files /\ s.ran = r.made.ran
  <2>1. PICK stage, digest, ts, parent, info, files, ran :
          r.made = [stage |-> stage, digest |-> digest, ts |-> ts, parent |-> parent,
                    info |-> info, files |-> files, ran |-> ran]
    BY <1>4 DEF MadeOK
  <2> QED
    BY <2>1
<1>6. Onwards(n, r, s)
  <2>1. Onwards(NextStage(b, s), r, s)
    BY <1>1, AtStageOK
  <2> HIDE DEF s
  <2> QED
    BY <2>1 DEF Onwards, Fields
<1> HIDE DEF n, s
<1>7. ImageOK(s)
  BY <1>4, <1>5 DEF MadeOK, ImageOK, InfoOK, FilesOK, RanOK
<1>8. ParentOK(s, repo)
  <2> SUFFICES ASSUME s.stage # "gitArchive" PROVE \E q \in repo : q.ts = s.parent /\ On(s, q)
    BY DEF ParentOK
  <2>1. r.at > 1 /\ r.prev \in repo
    BY <1>1, <1>3, <1>4, <1>5, ChainFacts DEF AtChain, BuildOK, MadeOK, IsRunning
  <2>2. On(s, r.prev)
    BY <1>4, <1>5, <2>1 DEF MadeOK, On, SameCommits
  <2>3. r.prev.ts = s.parent
    BY <1>4, <1>5 DEF MadeOK
  <2> QED
    BY <2>1, <2>2, <2>3
<1>9. RepoOK(R)
  BY <1>3, <1>7, <1>8, AddOK
<1>10. AtChain(r, R)
  BY <1>3, BuildInRepo DEF AtChain, BuildOK
<1>11. Fits(r, s.digest) /\ s \in R
  BY <1>4, <1>5 DEF MadeOK
<1>12. BuildOK(n, R)
  BY <1>3, <1>6, <1>9, <1>10, <1>11, Advance
<1> QED
  BY <1>1, <1>2, <1>9, <1>12, OneBuild

LEMMA EndStep ==
  ASSUME IInv, NEW b \in Builds, FailStage(b) \/ EndBuild(b)
  PROVE  IInv'
<1> DEFINE r == build[b]
<1>1. tree' = tree /\ repo' = repo /\ r.pc = "stage"
  BY DEF FailStage, EndBuild, AtStage
<1>2. PICK z \in {"failed", "done"} :
        /\ build' = [build EXCEPT ![b].pc = z]
        /\ z = "done" => r.at > Len(Chain)
  BY DEF FailStage, EndBuild
<1> DEFINE n == [r EXCEPT !.pc = z]
<1>3. build' = [build EXCEPT ![b] = n]
  BY <1>2 DEF IInv
<1>4. BuildOK(r, repo) /\ r # Idle /\ RepoOK(repo)
  BY <1>1 DEF IInv, Idle
<1>5. /\ n = [x \in Fields |-> n[x]]
      /\ n.pc = z /\ n.at = r.at /\ n.prev = r.prev /\ n.made = r.made
      /\ n.head = r.head /\ n.vm = r.vm /\ n.clone = r.clone /\ n.backend = r.backend
  <2>1. r = [x \in Fields |-> r[x]]
    BY <1>4 DEF BuildOK
  <2> QED
    BY <2>1 DEF Fields
<1> HIDE DEF n
<1>6. BuildOK(n, repo)
  <2>1. PrevOK(n) /\ Invoked(n)
    <3>1. PrevOK(r) /\ Invoked(r)
      BY <1>4 DEF BuildOK
    <3>2. \A u : Checksum(n, u) = Checksum(r, u)
      BY <1>5 DEF Checksum
    <3> QED
      BY <1>5, <3>1, <3>2 DEF PrevOK, Invoked
  <2> QED
    BY <1>1, <1>2, <1>4, <1>5, <2>1, ChainFacts DEF BuildOK, IsRunning
<1> QED
  BY <1>1, <1>3, <1>4, <1>6, OneBuild

LEMMA DeleteStep ==
  ASSUME IInv, NEW s \in repo, DeleteStage(s)
  PROVE  IInv'
<1>1. /\ tree' = tree /\ build' = build /\ repo' = repo \ {s}
      /\ \A r \in repo : r.parent # s.ts
      /\ \A b \in Builds : Running(b) => build[b].prev # s
  BY DEF DeleteStage
<1>2. RepoOK(repo')
  BY <1>1, DeleteOK DEF IInv
<1>3. ASSUME NEW b \in Builds PROVE BuildOK(build[b], repo')
  <2>1. BuildOK(build[b], repo)
    BY DEF IInv
  <2>2. build[b] # Idle /\ build[b].at > 1 /\ IsRunning(build[b]) => build[b].prev \in repo'
    BY <1>1, <2>1 DEF BuildOK, Running, IsRunning
  <2> QED
    BY <2>1, <2>2, BuildInRepo
<1> QED
  BY <1>1, <1>2, <1>3, HistoryStays DEF IInv

\* The invariant holds in every reachable state, of any number of builds.
THEOREM Invariance == Spec => []IInv
<1>1. Init => IInv
  BY InitInv
<1>2. IInv /\ [Next]_vars => IInv'
  <2> SUFFICES ASSUME IInv, [Next]_vars PROVE IInv'
    OBVIOUS
  <2>1. CASE UNCHANGED vars
    BY <2>1, HistoryStays DEF vars, IInv
  <2>2. ASSUME NEW b \in Builds, \E i \in Invocations : Start(b, i) PROVE IInv'
    BY <2>2, StartStep
  <2>3. ASSUME NEW b \in Builds, SkipEmptyStage(b) PROVE IInv'
    BY <2>3, SkipStep
  <2>4. ASSUME NEW b \in Builds, UseStage(b) \/ DiscardNewlyBuilt(b) PROVE IInv'
    BY <2>4, UseStep
  <2>5. ASSUME NEW b \in Builds, BuildStage(b) PROVE IInv'
    BY <2>5, BuildStep
  <2>6. ASSUME NEW b \in Builds, StoreStage(b) PROVE IInv'
    BY <2>6, StoreStep
  <2>7. ASSUME NEW b \in Builds, FailStage(b) \/ EndBuild(b) PROVE IInv'
    BY <2>7, EndStep
  <2>8. ASSUME NEW s \in repo, DeleteStage(s) PROVE IInv'
    BY <2>8, DeleteStep
  <2> QED
    BY <2>1, <2>2, <2>3, <2>4, <2>5, <2>6, <2>7, <2>8 DEF Next
<1> QED
  BY <1>1, <1>2, PTL DEF Spec

\* A build that ends, of an image that has a gitLatestPatch stage, has an image
\* with the files of its own commit (FilesOfHead), whatever stages it reused.
THEOREM ImageHasFiles ==
  ASSUME \E l \in DOMAIN Chain : Chain[l] = "gitLatestPatch"
  PROVE  Spec => []FilesOfHead
<1>1. IInv => FilesOfHead
  <2> SUFFICES ASSUME IInv, NEW b \in Builds, Done(b), NEW g \in Mappings, NEW p \in Paths
               PROVE  AsLatest(p, build[b].prev.files[g][p], tree[Latest(b, g)][p])
    BY DEF FilesOfHead
  <2> DEFINE r == build[b]
  <2>1. BuildOK(r, repo) /\ r # Idle
    BY DEF IInv, Done, Idle
  <2>2. r.at = Len(Chain) + 1 /\ ImageOK(r.prev) /\ PrevOK(r)
    BY <2>1, ChainFacts DEF BuildOK, Done
  <2>3. tree[r.prev.info[g].commit][p] = tree[r.head[g]][p]
    BY <2>2, ChainFacts DEF PrevOK
  <2> QED
    BY <2>2, <2>3 DEF ImageOK, FilesOK, Latest
<1> QED
  BY <1>1, Invariance, PTL

\* The instructions of the user stages in the image of a build ran on the files
\* of its own commit as far as they depend on them (RanOnDependencies).
THEOREM InstructionsRanOnDependencies == Spec => []RanOnDependencies
<1>1. IInv => RanOnDependencies
  <2> SUFFICES ASSUME IInv, NEW b \in Builds, Done(b), NEW u \in UserStages,
                      NEW g \in Mappings, NEW p \in StageDeps[u]
               PROVE  AsLatest(p, build[b].prev.ran[u].files[g][p], tree[Latest(b, g)][p])
    BY DEF RanOnDependencies
  <2> DEFINE r == build[b]
  <2>1. BuildOK(r, repo) /\ r # Idle
    BY DEF IInv, Done, Idle
  <2>2. r.at = Len(Chain) + 1 /\ ImageOK(r.prev) /\ PrevOK(r)
    BY <2>1, ChainFacts DEF BuildOK, Done
  <2>3. u \in DOMAIN r.prev.ran
    BY <2>2, ChainFacts DEF PrevOK, UserStagesTo
  <2>4. r.prev.ran[u].deps[g][p] = tree[Latest(b, g)][p]
    <3>1. r.prev.ran[u].deps = Checksum(r, u)
      BY <2>2, <2>3 DEF PrevOK
    <3>2. Checksum(r, u)[g][p] = tree[r.head[g]][p]
      BY DEF Checksum
    <3> QED
      BY <3>1, <3>2 DEF Latest
  <2> QED
    BY <2>2, <2>3, <2>4 DEF ImageOK, RanOK
<1> QED
  BY <1>1, Invariance, PTL

-----------------------------------------------------------------------------
(* Commits that a clone does not have.                                     *)

\* The hypothesis: the stages with files of git come before the others, or no
\* commit is built both as a virtual merge and not, so that commits in a digest
\* tell the labels.
GitStagesFirst ==
  \A i, j \in DOMAIN Chain : i < j /\ Chain[j] \in GitStages => Chain[i] \in GitStages

VirtualApart ==
  \A i, j \in Invocations, g \in Local : i.head[g] = j.head[g] => i.vm = j.vm

LabelsTold == GitStagesFirst \/ VirtualApart

\* The commit of the stage is an ancestor in the clone of the build.
Ours(r, g, s) ==
  /\ AncestryCommit(s.info[g]) \in r.clone
  /\ AncestryCommit(s.info[g]) \in Ancestors[AncestryCommit(LatestInfo(r, g))]

\* It is, or it is the build's own.
Known(r, g, s) == Ours(r, g, s) \/ s.info[g] = LatestInfo(r, g)

\* A stage that was selected by its labels, or whose digest tells them.
Told(s) == s.stage \in GitStages \/ VirtualApart

CloneOK(r) ==
  r # Idle =>
    /\ r.at > 1 => \E k \in 1..(r.at - 1) : r.prev.stage = Chain[k]
    /\ r.at > 1 /\ Told(r.prev) => \A g \in Mappings : Known(r, g, r.prev)
    /\ r.pc = "made" /\ Told(r.made) => \A g \in Mappings : Known(r, g, r.made)
    /\ r.pc = "failed" /\ r.at > 1 => r.at <= Len(Chain) /\ Chain[r.at] \in GitStages

CloneInv == \A b \in Builds : CloneOK(build[b])

LEMMA OursIsAncestor ==
  ASSUME NEW b \in Builds, NEW g \in Mappings, NEW s
  PROVE  IsOurAncestor(b, g, s) <=> Ours(build[b], g, s)
<1>1. GetLatestCommitInfo(b, g) = LatestInfo(build[b], g)
  BY DEF GetLatestCommitInfo, LatestInfo, VirtualMerge, Latest
<1> QED
  BY <1>1 DEF IsOurAncestor, Ours

LEMMA SameInfo ==
  ASSUME VirtualApart, NEW s, NEW q, InfoOK(s), InfoOK(q), SameCommits(s, q), NEW g \in Mappings
  PROVE  s.info[g] = q.info[g]
<1>1. PICK i \in Invocations : s.info[g] = LatestInfo(i, g) /\ s.info[g].commit = i.head[g]
  BY DEF InfoOK
<1>2. PICK j \in Invocations : q.info[g] = LatestInfo(j, g) /\ q.info[g].commit = j.head[g]
  BY DEF InfoOK
<1>3. i.head[g] = j.head[g] /\ (g \in Local => i.vm = j.vm)
  BY <1>1, <1>2 DEF SameCommits, VirtualApart
<1>4. LatestInfo(i, g) = LatestInfo(j, g)
  BY <1>3 DEF LatestInfo
<1> QED
  BY <1>1, <1>2, <1>4

\* A stage without files of git has the commits of the stage it is selected on.
LEMMA SelectedCommits ==
  ASSUME tree \in Trees, NEW R, RepoOK(R), NEW r, AtChain(r, R), NEW s \in R, Fits(r, s.digest),
         s.stage \notin GitStages
  PROVE  r.at > 1 /\ r.prev \in R /\ SameCommits(s, r.prev)
<1>1. r.at \in 1..Len(Chain) /\ (r.at > 1 => r.prev \in R)
  BY ChainFacts DEF AtChain, BuildOK, IsRunning
<1>2. ImageOK(s) /\ ParentOK(s, R)
  BY DEF RepoOK
<1>3. s.stage = Chain[r.at]
  <2>1. s.digest[1] = Chain[r.at]
    BY DEF Fits
  <2> QED
    BY <2>1, <1>2 DEF ImageOK
<1>4. s.stage # "gitArchive"
  BY DEF GitStages
<1>5. r.at > 1
  BY <1>1, <1>3, <1>4, ChainFacts
<1>6. PICK q \in R : On(s, q)
  BY <1>2, <1>4 DEF ParentOK
<1>7. q.digest = r.prev.digest /\ GetNextStageDependencies(q) = GetNextStageDependencies(r.prev)
  BY <1>6 DEF On, Fits
<1>8. SameCommits(q, r.prev)
  BY <1>1, <1>5, <1>7 DEF RepoOK, Same
<1> QED
  BY <1>1, <1>5, <1>6, <1>8 DEF On, SameCommits

LEMMA OneClone ==
  ASSUME IInv, CloneInv, NEW b \in Builds, NEW n, build' = [build EXCEPT ![b] = n], CloneOK(n)
  PROVE  CloneInv'
<1>1. \A c \in Builds : build'[c] = IF c = b THEN n ELSE build[c]
  BY DEF IInv
<1> QED
  BY <1>1 DEF CloneInv

LEMMA GoesOn ==
  ASSUME NEW r, NEW s, NEW n, Onwards(n, r, s), r.at \in 1..Len(Chain), s.stage = Chain[r.at],
         Told(s) => \A g \in Mappings : Known(r, g, s)
  PROVE  CloneOK(n)
<1>1. /\ n.pc = "stage" /\ n.at = r.at + 1 /\ n.prev = s
      /\ n.head = r.head /\ n.vm = r.vm /\ n.clone = r.clone
  BY DEF Onwards
<1>2. r.at \in 1..(n.at - 1)
  BY <1>1
<1>3. \A g : Known(n, g, s) <=> Known(r, g, s)
  BY <1>1 DEF Known, Ours, LatestInfo
<1> QED
  BY <1>1, <1>2, <1>3 DEF CloneOK

LEMMA SelectedKnown ==
  ASSUME IInv, CloneInv, NEW b \in Builds, AtStage(b) \/ build[b].pc = "made",
         NEW s \in Selected(b, StageOf(b), build[b].prev)
  PROVE  /\ s.stage = Chain[build[b].at]
         /\ Told(s) => \A g \in Mappings : Known(build[b], g, s)
<1>1. s \in repo /\ Fits(build[b], s.digest)
  BY SelectedFits
<1>2. s.stage = Chain[build[b].at]
  <2>1. s.digest[1] = Chain[build[b].at]
    BY <1>1 DEF Fits
  <2> QED
    BY <1>1, <2>1 DEF IInv, RepoOK, ImageOK
<1>3. ASSUME s.stage \in GitStages, NEW g \in Mappings
      PROVE  Known(build[b], g, s)
  <2>1. IsOurAncestor(b, g, s)
    BY <1>2, <1>3 DEF Selected, SelectSuitableStageDesc, Suitable, StageOf
  <2> QED
    BY <2>1, OursIsAncestor DEF Known
<1>4. ASSUME s.stage \notin GitStages, VirtualApart, NEW g \in Mappings
      PROVE  Known(build[b], g, s)
  <2>1. AtChain(build[b], repo) /\ tree \in Trees /\ RepoOK(repo)
    BY AtStageOK
  <2>2. build[b].at > 1 /\ build[b].prev \in repo /\ SameCommits(s, build[b].prev)
    BY <1>1, <1>4, <2>1, SelectedCommits
  <2>3. InfoOK(s) /\ InfoOK(build[b].prev)
    BY <1>1, <2>1, <2>2 DEF RepoOK, ImageOK
  <2>4. s.info[g] = build[b].prev.info[g]
    BY <1>4, <2>2, <2>3, SameInfo
  <2>5. Known(build[b], g, build[b].prev)
    BY <1>4, <2>1, <2>2 DEF CloneInv, CloneOK, Told, AtChain
  <2> QED
    BY <2>4, <2>5 DEF Known, Ours
<1> QED
  BY <1>2, <1>3, <1>4 DEF Told

LEMMA MadeKnown ==
  ASSUME LabelsTold, IInv, CloneInv, NEW b \in Builds, AtStage(b), NEW g \in Mappings, NEW n,
         n.stage = Chain[build[b].at], Told(n),
         n.info = PrepareImage(b, Chain[build[b].at], build[b].prev).info
  PROVE  Known(build[b], g, n)
<1> DEFINE r == build[b]
           stage == Chain[r.at]
<1>1. AtChain(r, repo)
  BY AtStageOK
<1>2. r.at \in 1..Len(Chain) /\ CloneOK(r) /\ r # Idle
  BY <1>1, ChainFacts DEF AtChain, BuildOK, CloneInv
<1>3. CASE n.info = Labels(b)
  BY <1>3 DEF Known, Labels, GetLatestCommitInfo, LatestInfo, VirtualMerge, Latest
<1>4. CASE n.info = r.prev.info /\ stage # "gitArchive"
  <2>1. r.at > 1
    BY <1>2, <1>4, ChainFacts
  <2>2. PICK k \in 1..(r.at - 1) : r.prev.stage = Chain[k]
    BY <1>2, <2>1 DEF CloneOK
  <2>3. Told(r.prev)
    BY <1>2, <2>2, ChainFacts DEF GitStagesFirst, LabelsTold, Told
  <2>4. Known(r, g, r.prev)
    BY <1>2, <2>1, <2>3 DEF CloneOK
  <2> QED
    BY <1>4, <2>4 DEF Known, Ours
<1>5. n.info = Labels(b) \/ (n.info = r.prev.info /\ stage # "gitArchive")
  BY ChainFacts DEF PrepareImage, Patched, Archived
<1> QED
  BY <1>3, <1>4, <1>5

LEMMA ClonesKnown ==
  ASSUME LabelsTold
  PROVE  Spec => [](IInv /\ CloneInv)
<1>1. Init => CloneInv
  BY DEF Init, CloneInv, CloneOK
<1>2. IInv /\ CloneInv /\ [Next]_vars => CloneInv'
  <2> SUFFICES ASSUME IInv, CloneInv, [Next]_vars PROVE CloneInv'
    OBVIOUS
  <2>1. ASSUME NEW b \in Builds, NEW i \in Invocations, Start(b, i) PROVE CloneInv'
    <3> DEFINE n == [pc |-> "stage", at |-> 1, prev |-> FromImage, made |-> None, updates |-> 0,
                     head |-> i.head, vm |-> i.vm, clone |-> i.clone, backend |-> i.backend]
    <3>1. CloneOK(n)
      BY DEF CloneOK
    <3> HIDE DEF n
    <3>2. build' = [build EXCEPT ![b] = n]
      BY <2>1 DEF Start, n
    <3> QED
      BY <3>1, <3>2, OneClone
  <2>2. ASSUME NEW b \in Builds, SkipEmptyStage(b) PROVE CloneInv'
    <3> DEFINE r == build[b]
               n == NextStage(b, r.prev)
    <3>1. AtStage(b) /\ build' = [build EXCEPT ![b] = n]
      BY <2>2 DEF SkipEmptyStage
    <3>2. AtChain(r, repo) /\ Onwards(n, r, r.prev)
      BY <3>1, AtStageOK
    <3> HIDE DEF n
    <3>3. Chain[r.at] \in {"gitCache", "gitLatestPatch"}
      BY <2>2 DEF SkipEmptyStage, IsEmpty, StageOf
    <3>4. r.at \in 1..Len(Chain) /\ r.at > 1 /\ r # Idle /\ CloneOK(r)
      BY <3>2, <3>3, ChainFacts DEF AtChain, BuildOK, CloneInv
    <3>5. \A g : Known(n, g, r.prev) <=> Known(r, g, r.prev)
      BY <3>2 DEF Onwards, Known, Ours, LatestInfo
    <3>6. 1..(r.at - 1) \subseteq 1..(n.at - 1)
      BY <3>2, <3>4 DEF Onwards
    <3>7. CloneOK(n)
      BY <3>2, <3>4, <3>5, <3>6 DEF CloneOK, Onwards
    <3> QED
      BY <3>1, <3>7, OneClone
  <2>3. ASSUME NEW b \in Builds, UseStage(b) \/ DiscardNewlyBuilt(b) PROVE CloneInv'
    <3>1. AtStage(b) \/ build[b].pc = "made"
      BY <2>3 DEF UseStage, CalculateStage, DiscardNewlyBuilt
    <3>2. PICK s \in Selected(b, StageOf(b), build[b].prev) :
            build' = [build EXCEPT ![b] = NextStage(b, s)]
      BY <2>3 DEF UseStage, DiscardNewlyBuilt
    <3>3. AtChain(build[b], repo) /\ Onwards(NextStage(b, s), build[b], s)
      BY <3>1, AtStageOK
    <3>4. build[b].at \in 1..Len(Chain)
      BY <3>3, ChainFacts DEF AtChain, BuildOK
    <3>5. CloneOK(NextStage(b, s))
      BY <3>1, <3>3, <3>4, SelectedKnown, GoesOn
    <3> QED
      BY <3>2, <3>5, OneClone
  <2>4. ASSUME NEW b \in Builds, BuildStage(b) PROVE CloneInv'
    <3> DEFINE r == build[b]
               made == NewImage(b, StageOf(b), r.prev)
               n == [r EXCEPT !.pc = "made", !.made = made]
    <3>1. AtStage(b)
      BY <2>4 DEF BuildStage, CalculateStage
    <3>2. build' = [build EXCEPT ![b] = n]
      BY <2>4 DEF BuildStage, IInv
    <3>3. AtChain(r, repo) /\ CloneOK(r)
      BY <3>1, AtStageOK DEF CloneInv
    <3>4. made.stage = Chain[r.at] /\ made.info = PrepareImage(b, Chain[r.at], r.prev).info
      BY DEF NewImage, StageOf
    <3> HIDE DEF made
    <3>5. ASSUME Told(made), NEW g \in Mappings PROVE Known(r, g, made)
      BY <3>1, <3>4, <3>5, MadeKnown
    <3>6. /\ n.pc = "made" /\ n.at = r.at /\ n.prev = r.prev /\ n.made = made
          /\ n.head = r.head /\ n.vm = r.vm /\ n.clone = r.clone
      <4>1. r = [x \in Fields |-> r[x]]
        BY <3>3 DEF AtChain, BuildOK
      <4> QED
        BY <4>1 DEF Fields
    <3> HIDE DEF n
    <3>7. \A g, s : Known(n, g, s) <=> Known(r, g, s)
      BY <3>6 DEF Known, Ours, LatestInfo
    <3>8. CloneOK(n)
      BY <3>3, <3>5, <3>6, <3>7 DEF CloneOK, AtChain
    <3> QED
      BY <3>2, <3>8, OneClone
  <2>5. ASSUME NEW b \in Builds, StoreStage(b) PROVE CloneInv'
    <3> DEFINE r == build[b]
               s == [r.made EXCEPT !.ts = clock + 1]
               n == [NextStage(b, s) EXCEPT !.updates = @ + IF s.files # r.prev.files THEN 1 ELSE 0]
    <3>1. r.pc = "made" /\ build' = [build EXCEPT ![b] = n]
      BY <2>5 DEF StoreStage
    <3>2. AtChain(r, repo) /\ MadeOK(r) /\ CloneOK(r)
      BY <3>1, AtStageOK DEF AtChain, BuildOK, CloneInv
    <3>3. s.stage = Chain[r.at] /\ s.stage = r.made.stage /\ s.info = r.made.info
      <4>1. r.made.stage = Chain[r.at]
        BY <3>2 DEF MadeOK
      <4>2. PICK stage, digest, ts, parent, info, files, ran :
              r.made = [stage |-> stage, digest |-> digest, ts |-> ts, parent |-> parent,
                        info |-> info, files |-> files, ran |-> ran]
        BY <3>2 DEF MadeOK
      <4> QED
        BY <4>1, <4>2
    <3>4. Onwards(n, r, s)
      <4>1. Onwards(NextStage(b, s), r, s)
        BY <3>1, AtStageOK
      <4> HIDE DEF s
      <4> QED
        BY <4>1 DEF Onwards, Fields
    <3> HIDE DEF n, s
    <3>5. ASSUME Told(s), NEW g \in Mappings PROVE Known(r, g, s)
      <4>1. Known(r, g, r.made)
        BY <3>1, <3>2, <3>3, <3>5 DEF CloneOK, Told, AtChain
      <4> QED
        BY <3>3, <4>1 DEF Known, Ours
    <3>6. r.at \in 1..Len(Chain)
      BY <3>2, ChainFacts DEF AtChain, BuildOK
    <3>7. CloneOK(n)
      BY <3>3, <3>4, <3>5, <3>6, GoesOn
    <3> QED
      BY <3>1, <3>7, OneClone
  <2>6. ASSUME NEW b \in Builds, FailStage(b) \/ EndBuild(b) PROVE CloneInv'
    <3> DEFINE r == build[b]
    <3>1. PICK z \in {"failed", "done"} :
            /\ build' = [build EXCEPT ![b].pc = z]
            /\ z = "failed" => /\ AtStage(b)
                               /\ \/ Fails(b, StageOf(b), r.prev)
                                  \/ CannotBeBuilt(b, StageOf(b), r.prev)
      BY <2>6 DEF FailStage, EndBuild
    <3> DEFINE n == [r EXCEPT !.pc = z]
    <3>2. build' = [build EXCEPT ![b] = n]
      BY <3>1 DEF IInv
    <3>3. BuildOK(r, repo) /\ CloneOK(r) /\ r # Idle
      BY <2>6 DEF IInv, CloneInv, FailStage, EndBuild, AtStage, Idle
    <3>4. z = "failed" => r.at <= Len(Chain) /\ Chain[r.at] \in GitStages
      BY <3>1 DEF AtStage, Fails, CannotBeBuilt, StageOf, GitStages
    <3>5. /\ n.pc = z /\ n.at = r.at /\ n.prev = r.prev
          /\ n.head = r.head /\ n.vm = r.vm /\ n.clone = r.clone
      <4>1. r = [x \in Fields |-> r[x]]
        BY <3>3 DEF BuildOK
      <4> QED
        BY <4>1 DEF Fields
    <3> HIDE DEF n
    <3>6. \A g, s : Known(n, g, s) <=> Known(r, g, s)
      BY <3>5 DEF Known, Ours, LatestInfo
    <3>7. CloneOK(n)
      BY <3>1, <3>3, <3>4, <3>5, <3>6 DEF CloneOK
    <3> QED
      BY <3>2, <3>7, OneClone
  <2>7. ASSUME NEW s \in repo, DeleteStage(s) PROVE CloneInv'
    BY <2>7 DEF DeleteStage, CloneInv
  <2>8. CASE UNCHANGED vars
    BY <2>8 DEF vars, CloneInv
  <2> QED
    BY <2>1, <2>2, <2>3, <2>4, <2>5, <2>6, <2>7, <2>8 DEF Next
<1> QED
  BY <1>1, <1>2, Invariance, PTL DEF Spec

\* Under the hypothesis a build fails for want of a commit only if it is the one
\* that a reused virtual merge was merged into (OnlyMergesMissed).
THEOREM OnlyMergesAreMissed ==
  ASSUME LabelsTold
  PROVE  Spec => []OnlyMergesMissed
<1>1. IInv /\ CloneInv => OnlyMergesMissed
  <2> SUFFICES ASSUME IInv, CloneInv, NEW b \in Builds, build[b].pc = "failed", build[b].at > 1,
                      NEW g \in NoBase(b, build[b].prev)
               PROVE  build[b].prev.info[g].vm /\ build[b].prev.info[g].into \notin build[b].clone
    BY DEF OnlyMergesMissed
  <2> DEFINE r == build[b]
             info == r.prev.info[g]
  <2>1. BuildOK(r, repo) /\ CloneOK(r) /\ r # Idle /\ g \in Mappings
    BY DEF IInv, CloneInv, Idle, NoBase
  <2>2. PICK k \in 1..(r.at - 1) : r.prev.stage = Chain[k]
    BY <2>1 DEF CloneOK
  <2>3. r.at \in 1..Len(Chain) /\ Chain[r.at] \in GitStages
    BY <2>1, ChainFacts DEF CloneOK, BuildOK
  <2>4. Told(r.prev)
    BY <2>2, <2>3, ChainFacts DEF GitStagesFirst, LabelsTold, Told
  <2>5. Known(r, g, r.prev)
    BY <2>1, <2>4 DEF CloneOK
  <2>6. Latest(b, g) \in r.clone
    BY <2>1, GitAssumption DEF BuildOK, Invoked, Latest
  <2>7. CASE info = LatestInfo(r, g)
    <3>1. info.commit = Latest(b, g) /\ info.vm = VirtualMerge(b, g)
      BY <2>7 DEF LatestInfo, Latest, VirtualMerge
    <3>2. ~Remade(b, g, info)
      BY <3>1 DEF Remade
    <3> QED
      BY <2>6, <3>1, <3>2 DEF NoBase, BaseFails, BaseExists, GetBaseCommitForPrevBuiltImage
  <2>8. CASE Ours(r, g, r.prev)
    <3>1. CASE Remade(b, g, info)
      <4>1. info.vm /\ info.from \in r.clone
        BY <2>8, <3>1 DEF Remade, AncestryCommit, Ours
      <4>2. BaseExists(b, g, r.prev)
        BY <3>1 DEF BaseExists, GetBaseCommitForPrevBuiltImage, CreateDetachedMergeCommit
      <4> QED
        BY <4>1, <4>2 DEF NoBase, BaseFails
    <3>2. CASE ~Remade(b, g, info)
      <4>1. info.commit \in r.clone
        BY <2>6, <2>8, <3>2 DEF Remade, AncestryCommit, Ours
      <4> QED
        BY <3>2, <4>1 DEF NoBase, BaseFails, BaseExists, GetBaseCommitForPrevBuiltImage
    <3> QED
      BY <3>1, <3>2
  <2> QED
    BY <2>5, <2>7, <2>8 DEF Known
<1> QED
  BY <1>1, ClonesKnown, PTL

-----------------------------------------------------------------------------
(* Builds of the same commits end with the same stage.                     *)

\* What a stage comes to depends on the commits and the clone of a build.
SameRun(r, n) == n.head = r.head /\ n.vm = r.vm /\ n.clone = r.clone

\* Two builds of the same commits from the same clone.
LEMMA RunsAlike ==
  ASSUME NEW a \in Builds, NEW b \in Builds, SameRun(build[a], build[b]), NEW stage, NEW image
  PROVE  /\ IsEmpty(a, stage, image) <=> IsEmpty(b, stage, image)
         /\ CalculateDigest(a, stage, image) = CalculateDigest(b, stage, image)
<1>1. \A g : Latest(a, g) = Latest(b, g)
  BY DEF SameRun, Latest
<1>2. \A g, info : Remade(a, g, info) <=> Remade(b, g, info)
  BY DEF SameRun, Latest, VirtualMerge, Remade
<1>3. \A g : GetBaseCommitForPrevBuiltImage(a, g, image) = GetBaseCommitForPrevBuiltImage(b, g, image)
  BY <1>2 DEF GetBaseCommitForPrevBuiltImage, CreateDetachedMergeCommit
<1>4. \A g : /\ BaseFails(a, g, image) <=> BaseFails(b, g, image)
             /\ BaseExists(a, g, image) <=> BaseExists(b, g, image)
  BY <1>2, <1>3 DEF SameRun, BaseFails, BaseExists
<1>5. HasPrevBuiltStageHadActualGitMappings(a, image)
      <=> HasPrevBuiltStageHadActualGitMappings(b, image)
  BY <1>1, <1>3, <1>4 DEF HasPrevBuiltStageHadActualGitMappings
<1>6. \A g : Patch(a, g, image) = Patch(b, g, image)
  <2> SUFFICES ASSUME NEW g PROVE Patch(a, g, image) = Patch(b, g, image)
    OBVIOUS
  <2>1. /\ Latest(a, g) = Latest(b, g)
        /\ GetBaseCommitForPrevBuiltImage(a, g, image) = GetBaseCommitForPrevBuiltImage(b, g, image)
    BY <1>1, <1>3
  <2> QED
    BY <2>1, Zenon DEF Patch
<1>7. GitMappingsPatchSize(a, image) = GitMappingsPatchSize(b, image)
  <2>1. {{g} \X Patch(a, g, image) : g \in Mappings} = {{g} \X Patch(b, g, image) : g \in Mappings}
    BY <1>6
  <2>2. (\A g \in Mappings : BaseExists(a, g, image)) <=> (\A g \in Mappings : BaseExists(b, g, image))
    BY <1>4
  <2> QED
    BY <2>1, <2>2, Zenon DEF GitMappingsPatchSize
<1>8. IsEmpty(a, stage, image) <=> IsEmpty(b, stage, image)
  BY <1>5, <1>6, <1>7 DEF IsEmpty, GitCacheIsEmpty, GitLatestPatchIsEmpty
<1>9. /\ StageDependenciesChecksum(a, stage, image) = StageDependenciesChecksum(b, stage, image)
      /\ GitCacheDependencies(a, image) = GitCacheDependencies(b, image)
      /\ GitLatestPatchDependencies(a, image) = GitLatestPatchDependencies(b, image)
  BY <1>1, <1>6, <1>7 DEF StageDependenciesChecksum, GitCacheDependencies, GitLatestPatchDependencies
<1>10. GetDependencies(a, stage, image) = GetDependencies(b, stage, image)
  BY <1>9 DEF GetDependencies
<1>11. CalculateDigest(a, stage, image) = CalculateDigest(b, stage, image)
  BY <1>10 DEF CalculateDigest, GetNextStageDependencies
<1> QED
  BY <1>8, <1>11

\* A build does not change them.
LEMMA RunStays ==
  ASSUME NEW b \in Builds, SameRun(build[b], build'[b]), tree' = tree, NEW stage, NEW image
  PROVE  /\ IsEmpty(b, stage, image)' <=> IsEmpty(b, stage, image)
         /\ CalculateDigest(b, stage, image)' = CalculateDigest(b, stage, image)
<1>1. \A g : Latest(b, g)' = Latest(b, g)
  BY DEF SameRun, Latest
<1>2. \A g, info : Remade(b, g, info)' <=> Remade(b, g, info)
  BY DEF SameRun, Latest, VirtualMerge, Remade
<1>3. \A g : GetBaseCommitForPrevBuiltImage(b, g, image)' = GetBaseCommitForPrevBuiltImage(b, g, image)
  BY <1>2 DEF GetBaseCommitForPrevBuiltImage, CreateDetachedMergeCommit
<1>4. \A g : /\ BaseFails(b, g, image)' <=> BaseFails(b, g, image)
             /\ BaseExists(b, g, image)' <=> BaseExists(b, g, image)
  BY <1>2, <1>3 DEF SameRun, BaseFails, BaseExists
<1>5. HasPrevBuiltStageHadActualGitMappings(b, image)'
      <=> HasPrevBuiltStageHadActualGitMappings(b, image)
  BY <1>1, <1>3, <1>4 DEF HasPrevBuiltStageHadActualGitMappings
<1>6. \A g : Patch(b, g, image)' = Patch(b, g, image)
  <2> SUFFICES ASSUME NEW g PROVE Patch(b, g, image)' = Patch(b, g, image)
    OBVIOUS
  <2>1. /\ Latest(b, g)' = Latest(b, g)
        /\ GetBaseCommitForPrevBuiltImage(b, g, image)' = GetBaseCommitForPrevBuiltImage(b, g, image)
    BY <1>1, <1>3
  <2> QED
    BY <2>1, Zenon DEF Patch
<1>7. GitMappingsPatchSize(b, image)' = GitMappingsPatchSize(b, image)
  <2>1. {{g} \X Patch(b, g, image)' : g \in Mappings} = {{g} \X Patch(b, g, image) : g \in Mappings}
    BY <1>6
  <2>2. (\A g \in Mappings : BaseExists(b, g, image)') <=> (\A g \in Mappings : BaseExists(b, g, image))
    BY <1>4
  <2> QED
    BY <2>1, <2>2, Zenon DEF GitMappingsPatchSize
<1>8. IsEmpty(b, stage, image)' <=> IsEmpty(b, stage, image)
  BY <1>5, <1>6, <1>7 DEF IsEmpty, GitCacheIsEmpty, GitLatestPatchIsEmpty
<1>9. /\ StageDependenciesChecksum(b, stage, image)' = StageDependenciesChecksum(b, stage, image)
      /\ GitCacheDependencies(b, image)' = GitCacheDependencies(b, image)
      /\ GitLatestPatchDependencies(b, image)' = GitLatestPatchDependencies(b, image)
  BY <1>1, <1>6, <1>7 DEF StageDependenciesChecksum, GitCacheDependencies, GitLatestPatchDependencies
<1>10. GetDependencies(b, stage, image)' = GetDependencies(b, stage, image)
  BY <1>9 DEF GetDependencies
<1>11. CalculateDigest(b, stage, image)' = CalculateDigest(b, stage, image)
  BY <1>10 DEF CalculateDigest, GetNextStageDependencies
<1> QED
  BY <1>8, <1>11

\* What a lookup finds suitable.
Suit(b, stage, image, s) ==
  /\ s.digest = CalculateDigest(b, stage, image) /\ image.ts <= s.ts
  /\ stage \in GitStages => \A g \in Mappings : Ours(build[b], g, s)

LEMMA SelectedIs ==
  ASSUME NEW b \in Builds, NEW stage, NEW image
  PROVE  Selected(b, stage, image) =
           {s \in repo : /\ Suit(b, stage, image, s)
                         /\ \A r \in repo : Suit(b, stage, image, r) => s.ts <= r.ts}
<1> DEFINE Found == GetStageDescSetByDigest(CalculateDigest(b, stage, image), image.ts)
<1>1. \A s : s \in Found <=> /\ s \in repo /\ s.digest = CalculateDigest(b, stage, image)
                             /\ image.ts <= s.ts
  BY DEF GetStageDescSetByDigest
<1> HIDE DEF Found
<1>2. \A s : s \in Suitable(b, stage, Found) <=> s \in repo /\ Suit(b, stage, image, s)
  BY <1>1, OursIsAncestor DEF Suitable, Suit
<1>3. Selected(b, stage, image) =
        {s \in Suitable(b, stage, Found) : \A r \in Suitable(b, stage, Found) : s.ts <= r.ts}
  BY DEF Selected, SelectSuitableStageDesc, Found
<1> QED
  BY <1>2, <1>3

\* The same in the next state.
LEMMA SelectedIsNext ==
  ASSUME NEW b \in Builds, NEW stage, NEW image
  PROVE  Selected(b, stage, image)' =
           {s \in repo' : /\ Suit(b, stage, image, s)'
                          /\ \A r \in repo' : Suit(b, stage, image, r)' => s.ts <= r.ts}
<1>1. \A g : GetLatestCommitInfo(b, g)' = LatestInfo(build'[b], g)
  BY DEF GetLatestCommitInfo, LatestInfo, VirtualMerge, Latest
<1>2. \A g, s : IsOurAncestor(b, g, s)' <=> Ours(build'[b], g, s)
  BY <1>1 DEF IsOurAncestor, Ours
<1> DEFINE Fine == Suitable(b, stage, GetStageDescSetByDigest(CalculateDigest(b, stage, image), image.ts))'
<1>3. Selected(b, stage, image)' = {s \in Fine : \A r \in Fine : s.ts <= r.ts}
  BY DEF Selected, SelectSuitableStageDesc
<1>4. \A s : s \in Fine <=> s \in repo' /\ Suit(b, stage, image, s)'
  BY <1>2 DEF Suitable, Suit, GetStageDescSetByDigest
<1> HIDE DEF Fine
<1> QED
  BY <1>3, <1>4

LEMMA SuitAlike ==
  ASSUME NEW a \in Builds, NEW b \in Builds, SameRun(build[a], build[b]),
         NEW stage, NEW image, NEW s
  PROVE  Suit(a, stage, image, s) <=> Suit(b, stage, image, s)
<1>1. CalculateDigest(a, stage, image) = CalculateDigest(b, stage, image)
  BY RunsAlike
<1>2. \A g : Ours(build[a], g, s) <=> Ours(build[b], g, s)
  BY DEF SameRun, Ours, LatestInfo
<1> QED
  BY <1>1, <1>2 DEF Suit

LEMMA SuitStays ==
  ASSUME NEW b \in Builds, SameRun(build[b], build'[b]), tree' = tree,
         NEW stage, NEW image, NEW s
  PROVE  Suit(b, stage, image, s)' <=> Suit(b, stage, image, s)
<1>1. CalculateDigest(b, stage, image)' = CalculateDigest(b, stage, image)
  BY RunStays
<1>2. \A g : Ours(build'[b], g, s) <=> Ours(build[b], g, s)
  BY DEF SameRun, Ours, LatestInfo
<1> QED
  BY <1>1, <1>2 DEF Suit

\* Times tell stages apart.
TimeInv ==
  /\ clock \in Nat /\ deletes \in Nat
  /\ \A s \in repo : s.ts \in 1..clock
  /\ \A r, s \in repo : r.ts = s.ts => r = s

\* A new image is of the stage that the build has calculated.
MadeInv ==
  \A b \in Builds : build[b].pc = "made" =>
    /\ ~IsEmpty(b, Chain[build[b].at], build[b].prev)
    /\ build[b].made.digest = CalculateDigest(b, Chain[build[b].at], build[b].prev)

\* From the stage p of the k-th a lookup would lead to q.
Went(b, k, p, q) ==
  IF IsEmpty(b, Chain[k], p) THEN q = p ELSE q \in Selected(b, Chain[k], p)

\* The stages that a build went through are those that a lookup would find now.
PathOf(b, path) ==
  /\ path[0] = FromImage /\ path[build[b].at - 1] = build[b].prev
  /\ \A k \in 1..(build[b].at - 1) : Went(b, k, path[k - 1], path[k])

PathInv ==
  deletes = 0 => \A b \in Builds : build[b] # Idle => \E path : PathOf(b, path)

\* The repo stays or gets a stage of a later time.
Grows ==
  \/ repo' = repo
  \/ \E s : s.ts = clock + 1 /\ repo' = repo \cup {s}

LEMMA SelectedStays ==
  ASSUME TimeInv, Grows, tree' = tree, NEW b \in Builds, SameRun(build[b], build'[b]),
         NEW stage, NEW image, NEW q \in Selected(b, stage, image)
  PROVE  q \in Selected(b, stage, image)'
<1>1. \A s : Suit(b, stage, image, s)' <=> Suit(b, stage, image, s)
  BY SuitStays
<1>2. /\ q \in repo /\ Suit(b, stage, image, q)
      /\ \A r \in repo : Suit(b, stage, image, r) => q.ts <= r.ts
  BY SelectedIs
<1>3. q \in repo' /\ \A r \in repo' : Suit(b, stage, image, r) => q.ts <= r.ts
  BY <1>2 DEF Grows, TimeInv
<1>4. Selected(b, stage, image)' =
        {s \in repo' : /\ Suit(b, stage, image, s)'
                       /\ \A r \in repo' : Suit(b, stage, image, r)' => s.ts <= r.ts}
  BY SelectedIsNext
<1> QED
  BY <1>1, <1>2, <1>3, <1>4

LEMMA WentStays ==
  ASSUME TimeInv, Grows, tree' = tree, NEW b \in Builds, SameRun(build[b], build'[b]),
         NEW k, NEW p, NEW q, Went(b, k, p, q)
  PROVE  Went(b, k, p, q)'
<1>1. IsEmpty(b, Chain[k], p)' <=> IsEmpty(b, Chain[k], p)
  BY RunStays
<1>2. q \in Selected(b, Chain[k], p) => q \in Selected(b, Chain[k], p)'
  BY SelectedStays
<1> QED
  BY <1>1, <1>2 DEF Went

LEMMA LeastNatural ==
  ASSUME NEW S \in SUBSET Nat, S # {}
  PROVE  \E n \in S : \A m \in S : n <= m
<1> DEFINE Less == {p \in Nat \X Nat : p[1] < p[2]}
<1>1. IsWellFoundedOn(Less, Nat)
  BY NatLessThanWellFounded, Zenon DEF OpToRel
<1>2. PICK n \in S : \A m \in S : ~(<<m, n>> \in Less)
  BY <1>1, WFMin, Zenon
<1>3. \A m \in S : ~(m < n)
  BY <1>2
<1> QED
  BY <1>3

\* A stage that is stored because none was found is found from then on.
LEMMA StoredIsSelected ==
  ASSUME TimeInv, tree' = tree, NEW b \in Builds, SameRun(build[b], build'[b]),
         NEW stage, NEW image, Selected(b, stage, image) = {}, image.ts \in 0..clock,
         NEW n, n.ts = clock + 1, repo' = repo \cup {n}, Suit(b, stage, image, n)
  PROVE  n \in Selected(b, stage, image)'
<1> DEFINE Times == {s.ts : s \in {r \in repo : Suit(b, stage, image, r)}}
<1>1. Times = {}
  <2> SUFFICES ASSUME Times # {} PROVE FALSE
    OBVIOUS
  <2>1. Times \in SUBSET Nat
    BY DEF TimeInv
  <2>2. PICK t \in Times : \A m \in Times : t <= m
    BY <2>1, LeastNatural
  <2>3. PICK s \in repo : Suit(b, stage, image, s) /\ t = s.ts
    BY <2>2
  <2>4. s \in Selected(b, stage, image)
    BY <2>2, <2>3, SelectedIs
  <2> QED
    BY <2>4
<1>2. \A r \in repo' : Suit(b, stage, image, r) => r = n
  BY <1>1
<1>3. \A s : Suit(b, stage, image, s)' <=> Suit(b, stage, image, s)
  BY SuitStays
<1>4. Selected(b, stage, image)' =
        {s \in repo' : /\ Suit(b, stage, image, s)'
                       /\ \A r \in repo' : Suit(b, stage, image, r)' => s.ts <= r.ts}
  BY SelectedIsNext
<1>5. n.ts <= n.ts
  BY DEF TimeInv
<1> QED
  BY <1>2, <1>3, <1>4, <1>5

LEMMA SelectedOnce ==
  ASSUME TimeInv, NEW b \in Builds, NEW stage, NEW image,
         NEW q \in Selected(b, stage, image), NEW s \in Selected(b, stage, image)
  PROVE  q = s
<1>1. /\ q \in repo /\ s \in repo /\ q.ts <= s.ts /\ s.ts <= q.ts
  BY SelectedIs
<1>2. q.ts \in Int /\ s.ts \in Int
  BY <1>1 DEF TimeInv
<1> QED
  BY <1>1, <1>2 DEF TimeInv

LEMMA PathStays ==
  ASSUME TimeInv, Grows, tree' = tree, NEW b \in Builds, SameRun(build[b], build'[b]),
         build'[b].at = build[b].at, build'[b].prev = build[b].prev, NEW path, PathOf(b, path)
  PROVE  PathOf(b, path)'
<1>1. \A k \in 1..(build[b].at - 1) : Went(b, k, path[k - 1], path[k])'
  BY WentStays DEF PathOf
<1> QED
  BY <1>1 DEF PathOf

LEMMA PathGoesOn ==
  ASSUME TimeInv, Grows, tree' = tree, NEW b \in Builds, SameRun(build[b], build'[b]),
         build[b].at \in 1..Len(Chain), build'[b].at = build[b].at + 1, NEW path, PathOf(b, path),
         NEW k, NEW p, NEW q, k = build[b].at, p = build[b].prev, q = build'[b].prev,
         Went(b, k, p, q)'
  PROVE  \E new : PathOf(b, new)'
<1> DEFINE new == [l \in 0..k |-> IF l = k THEN q ELSE path[l]]
<1>1. k \in Nat \ {0} /\ build'[b].at - 1 = k
  BY ChainFacts
<1>2. new[0] = FromImage /\ new[k] = q /\ new[k - 1] = p
  BY <1>1 DEF PathOf
<1>3. ASSUME NEW l \in 1..k PROVE Went(b, l, new[l - 1], new[l])'
  <2>1. CASE l = k
    BY <1>2, <2>1
  <2>2. CASE l # k
    <3>1. l \in 1..(build[b].at - 1)
      BY <1>1, <1>3, <2>2
    <3>2. Went(b, l, path[l - 1], path[l])'
      BY <3>1, WentStays DEF PathOf
    <3>3. new[l - 1] = path[l - 1] /\ new[l] = path[l]
      BY <1>1, <1>3, <2>2
    <3> QED
      BY <3>2, <3>3
  <2> QED
    BY <2>1, <2>2
<1> HIDE DEF new
<1>4. PathOf(b, new)'
  BY <1>1, <1>2, <1>3 DEF PathOf
<1> QED
  BY <1>4

\* A step of one build.
LEMMA OnePath ==
  ASSUME IInv, TimeInv, PathInv, Grows, tree' = tree, deletes' = deletes, NEW b \in Builds, NEW n,
         build' = [build EXCEPT ![b] = n], deletes = 0 => \E path : PathOf(b, path)'
  PROVE  PathInv'
<1> SUFFICES ASSUME deletes = 0, NEW c \in Builds, build'[c] # Idle
             PROVE  \E path : PathOf(c, path)'
  BY DEF PathInv
<1>1. CASE c = b
  BY <1>1
<1>2. CASE c # b
  <2>1. build'[c] = build[c]
    BY <1>2 DEF IInv
  <2>2. PICK path : PathOf(c, path)
    BY <2>1 DEF PathInv
  <2>3. PathOf(c, path)'
    BY <2>1, <2>2, PathStays DEF SameRun
  <2> QED
    BY <2>3
<1> QED
  BY <1>1, <1>2

LEMMA OneMade ==
  ASSUME IInv, MadeInv, tree' = tree, NEW b \in Builds, NEW n, build' = [build EXCEPT ![b] = n],
         n.pc = "made" =>
           /\ SameRun(build[b], n) /\ n.at = build[b].at /\ n.prev = build[b].prev
           /\ ~IsEmpty(b, Chain[build[b].at], build[b].prev)
           /\ n.made.digest = CalculateDigest(b, Chain[build[b].at], build[b].prev)
  PROVE  MadeInv'
<1>1. \A c \in Builds : build'[c] = IF c = b THEN n ELSE build[c]
  BY DEF IInv
<1> SUFFICES ASSUME NEW c \in Builds, build'[c].pc = "made", NEW stage, NEW image,
                    stage = Chain[build'[c].at], image = build'[c].prev
             PROVE  /\ ~IsEmpty(c, stage, image)'
                    /\ build'[c].made.digest = CalculateDigest(c, stage, image)'
  BY DEF MadeInv
<1>2. SameRun(build[c], build'[c]) /\ stage = Chain[build[c].at] /\ image = build[c].prev
  BY <1>1 DEF SameRun
<1>3. ~IsEmpty(c, stage, image) /\ build'[c].made.digest = CalculateDigest(c, stage, image)
  BY <1>1, <1>2 DEF MadeInv
<1> QED
  BY <1>2, <1>3, RunStays

\* What is stored is the image that the build has made.
LEMMA StoredIs ==
  ASSUME IInv, NEW b \in Builds, build[b].pc = "made",
         NEW s, s = [build[b].made EXCEPT !.ts = clock + 1]
  PROVE  /\ s.stage = Chain[build[b].at] /\ s.stage = build[b].made.stage
         /\ s.digest = build[b].made.digest /\ s.info = build[b].made.info
         /\ s.files = build[b].made.files /\ s.ts = clock + 1
<1>1. MadeOK(build[b])
  BY AtStageOK DEF AtChain, BuildOK
<1>2. PICK stage, digest, ts, parent, info, files, ran :
        build[b].made = [stage |-> stage, digest |-> digest, ts |-> ts, parent |-> parent,
                         info |-> info, files |-> files, ran |-> ran]
  BY <1>1 DEF MadeOK
<1>3. build[b].made.stage = Chain[build[b].at]
  BY <1>1 DEF MadeOK
<1> QED
  BY <1>2, <1>3

\* The second parents of virtual merges, the commits that are merged, are in
\* the clones.
MergedInClone ==
  \A i \in Invocations : i.vm => \A g \in Local : Parents[i.head[g]][2] \in i.clone

LEMMA KnownIsOurs ==
  ASSUME MergedInClone, NEW r, Invoked(r), NEW g \in Mappings, NEW s, Known(r, g, s)
  PROVE  Ours(r, g, s)
<1> SUFFICES ASSUME s.info[g] = LatestInfo(r, g) PROVE Ours(r, g, s)
  BY DEF Known
<1>1. PICK i \in Invocations : r.head = i.head /\ r.vm = i.vm /\ r.clone = i.clone
  BY DEF Invoked
<1>2. AncestryCommit(LatestInfo(r, g)) \in r.clone
  <2>1. CASE g \in Local /\ r.vm
    BY <1>1, <2>1 DEF MergedInClone, AncestryCommit, LatestInfo
  <2>2. CASE ~(g \in Local /\ r.vm)
    BY <1>1, <2>2, GitAssumption DEF AncestryCommit, LatestInfo
  <2> QED
    BY <2>1, <2>2
<1>3. r.clone \subseteq Commits
  BY <1>1, GitAssumption
<1> QED
  BY <1>2, <1>3, GitAssumption DEF Ours

PathsInv == TimeInv /\ MadeInv /\ PathInv

LEMMA PathsStart ==
  ASSUME IInv, PathsInv, NEW b \in Builds, NEW i \in Invocations, Start(b, i)
  PROVE  PathsInv'
<1> DEFINE n == [pc |-> "stage", at |-> 1, prev |-> FromImage, made |-> None, updates |-> 0,
                 head |-> i.head, vm |-> i.vm, clone |-> i.clone, backend |-> i.backend]
           path == [k \in 0..0 |-> FromImage]
<1>1. n.pc = "stage" /\ n.at = 1 /\ n.prev = FromImage
  OBVIOUS
<1> HIDE DEF n
<1>2. /\ build' = [build EXCEPT ![b] = n]
      /\ tree' = tree /\ repo' = repo /\ clock' = clock /\ deletes' = deletes
  BY DEF Start, n
<1>3. build'[b] = n
  BY <1>2 DEF IInv
<1>4. path[0] = FromImage /\ n.at - 1 = 0 /\ 1..(n.at - 1) = {}
  BY <1>1
<1> HIDE DEF path
<1>5. PathOf(b, path)'
  BY <1>1, <1>3, <1>4 DEF PathOf
<1>6. TimeInv'
  BY <1>2 DEF PathsInv, TimeInv
<1>7. MadeInv'
  BY <1>1, <1>2, OneMade DEF PathsInv
<1>8. PathInv'
  BY <1>2, <1>5, OnePath DEF PathsInv, Grows
<1> QED
  BY <1>6, <1>7, <1>8 DEF PathsInv

\* A build goes on from the stage that the lookup of the next state finds.
LEMMA PathsOnwards ==
  ASSUME IInv, PathsInv, NEW b \in Builds, AtStage(b) \/ build[b].pc = "made", NEW q, NEW n,
         Onwards(n, build[b], q), build' = [build EXCEPT ![b] = n], tree' = tree,
         deletes' = deletes, Grows, NEW k, NEW p, k = build[b].at, p = build[b].prev,
         Went(b, k, p, q)'
  PROVE  MadeInv' /\ PathInv'
<1>1. /\ n.pc = "stage" /\ n.at = build[b].at + 1 /\ n.prev = q /\ SameRun(build[b], n)
  BY DEF Onwards, SameRun
<1>2. build'[b] = n
  BY DEF IInv
<1>3. AtChain(build[b], repo)
  BY AtStageOK
<1>4. build[b].at \in 1..Len(Chain) /\ build[b] # Idle
  BY <1>3, ChainFacts DEF AtChain, BuildOK
<1>5. deletes = 0 => \E path : PathOf(b, path)'
  <2> SUFFICES ASSUME deletes = 0 PROVE \E path : PathOf(b, path)'
    OBVIOUS
  <2>1. PICK path : PathOf(b, path)
    BY <1>4 DEF PathsInv, PathInv
  <2> QED
    BY <1>1, <1>2, <1>4, <2>1, PathGoesOn DEF PathsInv
<1> QED
  BY <1>1, <1>5, OneMade, OnePath DEF PathsInv

LEMMA PathsSkip ==
  ASSUME IInv, PathsInv, NEW b \in Builds, SkipEmptyStage(b)
  PROVE  PathsInv'
<1> DEFINE n == NextStage(b, build[b].prev)
<1>1. /\ AtStage(b) /\ IsEmpty(b, Chain[build[b].at], build[b].prev)
      /\ build' = [build EXCEPT ![b] = n]
      /\ tree' = tree /\ repo' = repo /\ clock' = clock /\ deletes' = deletes
  BY DEF SkipEmptyStage, StageOf
<1>2. Onwards(n, build[b], build[b].prev)
  BY <1>1, AtStageOK
<1> HIDE DEF n
<1>3. SameRun(build[b], build'[b])
  BY <1>1, <1>2 DEF Onwards, SameRun, IInv
<1>4. ASSUME NEW k, NEW p, k = build[b].at, p = build[b].prev PROVE Went(b, k, p, p)'
  <2>1. Went(b, k, p, p)
    BY <1>1, <1>4 DEF Went
  <2> QED
    BY <1>1, <1>3, <2>1, WentStays DEF PathsInv, Grows
<1>5. MadeInv' /\ PathInv'
  BY <1>1, <1>2, <1>4, PathsOnwards DEF Grows
<1>6. TimeInv'
  BY <1>1 DEF PathsInv, TimeInv
<1> QED
  BY <1>5, <1>6 DEF PathsInv

LEMMA PathsUse ==
  ASSUME IInv, PathsInv, NEW b \in Builds, UseStage(b) \/ DiscardNewlyBuilt(b)
  PROVE  PathsInv'
<1>1. AtStage(b) \/ build[b].pc = "made"
  BY DEF UseStage, CalculateStage, DiscardNewlyBuilt
<1>2. PICK q \in Selected(b, StageOf(b), build[b].prev) :
        /\ build' = [build EXCEPT ![b] = NextStage(b, q)]
        /\ tree' = tree /\ repo' = repo /\ clock' = clock /\ deletes' = deletes
  BY DEF UseStage, DiscardNewlyBuilt
<1>3. ~IsEmpty(b, Chain[build[b].at], build[b].prev)
  BY DEF UseStage, CalculateStage, DiscardNewlyBuilt, PathsInv, MadeInv, StageOf
<1> DEFINE n == NextStage(b, q)
<1>4. Onwards(n, build[b], q) /\ build' = [build EXCEPT ![b] = n]
  BY <1>1, <1>2, AtStageOK
<1> HIDE DEF n
<1>5. SameRun(build[b], build'[b])
  BY <1>4 DEF Onwards, SameRun, IInv
<1>6. ASSUME NEW k, NEW p, k = build[b].at, p = build[b].prev PROVE Went(b, k, p, q)'
  <2>1. Went(b, k, p, q)
    BY <1>2, <1>3, <1>6 DEF Went, StageOf
  <2> QED
    BY <1>2, <1>5, <2>1, WentStays DEF PathsInv, Grows
<1>7. MadeInv' /\ PathInv'
  BY <1>1, <1>2, <1>4, <1>6, PathsOnwards DEF Grows
<1>8. TimeInv'
  BY <1>2 DEF PathsInv, TimeInv
<1> QED
  BY <1>7, <1>8 DEF PathsInv

\* A build does not change its place.
LEMMA PathsStay ==
  ASSUME IInv, PathsInv, NEW b \in Builds, BuildStage(b) \/ FailStage(b) \/ EndBuild(b)
  PROVE  PathsInv'
<1> DEFINE r == build[b]
<1>1. r # Idle /\ tree' = tree /\ repo' = repo /\ clock' = clock /\ deletes' = deletes
  BY DEF BuildStage, CalculateStage, FailStage, EndBuild, AtStage, Idle
<1>2. r = [x \in Fields |-> r[x]]
  BY <1>1 DEF IInv, BuildOK
<1>3. PICK n : /\ build' = [build EXCEPT ![b] = n]
               /\ SameRun(r, n) /\ n.at = r.at /\ n.prev = r.prev
               /\ n.pc = "made" =>
                    /\ ~IsEmpty(b, Chain[r.at], r.prev)
                    /\ n.made.digest = CalculateDigest(b, Chain[r.at], r.prev)
  <2>1. CASE BuildStage(b)
    <3> DEFINE made == NewImage(b, StageOf(b), r.prev)
               n == [r EXCEPT !.pc = "made", !.made = made]
    <3>1. build' = [build EXCEPT ![b] = n] /\ ~IsEmpty(b, Chain[r.at], r.prev)
      BY <2>1 DEF BuildStage, CalculateStage, StageOf, IInv
    <3>2. made.digest = CalculateDigest(b, Chain[r.at], r.prev)
      BY DEF NewImage, StageOf
    <3> HIDE DEF made
    <3>3. SameRun(r, n) /\ n.at = r.at /\ n.prev = r.prev /\ n.made = made
      BY <1>2 DEF SameRun, Fields
    <3> HIDE DEF n
    <3> QED
      BY <3>1, <3>2, <3>3
  <2>2. CASE FailStage(b) \/ EndBuild(b)
    <3>1. PICK z \in {"failed", "done"} : build' = [build EXCEPT ![b].pc = z]
      BY <2>2 DEF FailStage, EndBuild
    <3> DEFINE n == [r EXCEPT !.pc = z]
    <3>2. build' = [build EXCEPT ![b] = n]
      BY <3>1 DEF IInv
    <3>3. SameRun(r, n) /\ n.at = r.at /\ n.prev = r.prev /\ n.pc # "made"
      BY <1>2 DEF SameRun, Fields
    <3> HIDE DEF n
    <3> QED
      BY <3>2, <3>3
  <2> QED
    BY <2>1, <2>2
<1>4. build'[b] = n
  BY <1>3 DEF IInv
<1>5. deletes = 0 => \E path : PathOf(b, path)'
  BY <1>1, <1>3, <1>4, PathStays DEF PathsInv, PathInv, Grows
<1>6. MadeInv'
  BY <1>1, <1>3, OneMade DEF PathsInv
<1>7. PathInv'
  BY <1>1, <1>3, <1>5, OnePath DEF PathsInv, Grows
<1>8. TimeInv'
  BY <1>1 DEF PathsInv, TimeInv
<1> QED
  BY <1>6, <1>7, <1>8 DEF PathsInv

LEMMA PathsStore ==
  ASSUME MergedInClone, IInv, CloneInv, PathsInv, NEW b \in Builds, StoreStage(b)
  PROVE  PathsInv'
<1> DEFINE r == build[b]
<1>0. PICK q : q = [r.made EXCEPT !.ts = clock + 1]
  OBVIOUS
<1> DEFINE n == [NextStage(b, q) EXCEPT !.updates = @ + IF q.files # r.prev.files THEN 1 ELSE 0]
<1>1. /\ r.pc = "made" /\ build' = [build EXCEPT ![b] = n] /\ Selected(b, Chain[r.at], r.prev) = {}
      /\ tree' = tree /\ repo' = repo \cup {q} /\ clock' = clock + 1 /\ deletes' = deletes
  BY <1>0 DEF StoreStage, StageOf
<1>2. AtChain(r, repo) /\ CloneOK(r)
  BY <1>1, AtStageOK DEF CloneInv
<1>3. /\ q.stage = Chain[r.at] /\ q.stage = r.made.stage /\ q.digest = r.made.digest
      /\ q.info = r.made.info /\ q.ts = clock + 1
  BY <1>0, <1>1, StoredIs
<1>4. Onwards(n, r, q)
  <2>1. Onwards(NextStage(b, q), r, q)
    BY <1>1, AtStageOK
  <2> QED
    BY <2>1 DEF Onwards, Fields
<1> HIDE DEF n
<1>5. r # Idle /\ Invoked(r) /\ r.at \in 1..Len(Chain)
  BY <1>2, ChainFacts DEF AtChain, BuildOK
<1>6. r.prev.ts \in 0..clock
  <2>1. CASE r.at = 1
    BY <1>2, <2>1 DEF AtChain, BuildOK, FromImage, PathsInv, TimeInv
  <2>2. CASE r.at > 1
    <3>1. r.prev \in repo
      BY <1>2, <2>2 DEF AtChain, BuildOK, IsRunning
    <3> QED
      BY <3>1 DEF PathsInv, TimeInv
  <2> QED
    BY <1>5, <2>1, <2>2
<1>7. Suit(b, Chain[r.at], r.prev, q)
  <2>1. q.digest = CalculateDigest(b, Chain[r.at], r.prev)
    BY <1>1, <1>3 DEF PathsInv, MadeInv
  <2>2. ASSUME Chain[r.at] \in GitStages, NEW g \in Mappings PROVE Ours(r, g, q)
    <3>1. Known(r, g, r.made)
      BY <1>1, <1>2, <1>3, <1>5, <2>2 DEF CloneOK, Told
    <3>2. Ours(r, g, r.made)
      BY <1>5, <3>1, KnownIsOurs
    <3> QED
      BY <1>3, <3>2 DEF Ours
  <2>3. r.prev.ts <= q.ts
    BY <1>3, <1>6 DEF PathsInv, TimeInv
  <2> QED
    BY <2>1, <2>2, <2>3 DEF Suit
<1>8. SameRun(r, build'[b])
  BY <1>1, <1>4 DEF Onwards, SameRun, IInv
<1>9. ASSUME NEW k, NEW p, k = r.at, p = r.prev PROVE Went(b, k, p, q)'
  <2>1. ~IsEmpty(b, Chain[k], p)
    BY <1>1, <1>9 DEF PathsInv, MadeInv
  <2>2. ~IsEmpty(b, Chain[k], p)'
    BY <1>1, <1>8, <2>1, RunStays
  <2>3. q \in Selected(b, Chain[k], p)'
    BY <1>1, <1>3, <1>6, <1>7, <1>8, <1>9, StoredIsSelected DEF PathsInv
  <2> QED
    BY <2>2, <2>3 DEF Went
<1>10. Grows
  BY <1>1, <1>3 DEF Grows
<1>11. MadeInv' /\ PathInv'
  BY <1>1, <1>4, <1>9, <1>10, PathsOnwards
<1>12. TimeInv'
  BY <1>1, <1>3 DEF PathsInv, TimeInv
<1> QED
  BY <1>11, <1>12 DEF PathsInv

LEMMA PathsDelete ==
  ASSUME IInv, PathsInv, NEW s \in repo, DeleteStage(s)
  PROVE  PathsInv'
<1>1. /\ repo' = repo \ {s} /\ deletes' = deletes + 1 /\ tree' = tree /\ clock' = clock
      /\ build' = build
  BY DEF DeleteStage
<1>2. TimeInv' /\ deletes' # 0
  BY <1>1 DEF PathsInv, TimeInv
<1>3. MadeInv'
  BY <1>1, RunStays DEF PathsInv, MadeInv, SameRun
<1> QED
  BY <1>2, <1>3 DEF PathsInv, PathInv

LEMMA PathsUnchanged ==
  ASSUME PathsInv, UNCHANGED vars
  PROVE  PathsInv'
<1>1. tree' = tree /\ repo' = repo /\ clock' = clock /\ deletes' = deletes /\ build' = build
  BY DEF vars
<1>2. TimeInv'
  BY <1>1 DEF PathsInv, TimeInv
<1>3. MadeInv'
  BY <1>1, RunStays DEF PathsInv, MadeInv, SameRun
<1>4. PathInv'
  BY <1>1, PathStays DEF PathsInv, PathInv, SameRun, Grows
<1> QED
  BY <1>2, <1>3, <1>4 DEF PathsInv

LEMMA SamePaths ==
  ASSUME TimeInv, NEW a \in Builds, NEW b \in Builds, SameRun(build[a], build[b]),
         build[a].at = build[b].at, build[a].at \in Nat \ {0},
         NEW p, NEW q, PathOf(a, p), PathOf(b, q)
  PROVE  build[a].prev = build[b].prev
<1> DEFINE end == build[a].at - 1
           Bad == {k \in 0..end : p[k] # q[k]}
<1>1. Bad = {}
  <2> SUFFICES ASSUME Bad # {} PROVE FALSE
    OBVIOUS
  <2>1. Bad \in SUBSET Nat
    OBVIOUS
  <2>2. PICK k \in Bad : \A l \in Bad : k <= l
    BY <2>1, LeastNatural
  <2>3. k # 0
    BY <2>2 DEF PathOf
  <2>4. k \in 1..end /\ k - 1 \in 0..end /\ ~(k <= k - 1)
    BY <2>2, <2>3
  <2>5. p[k - 1] = q[k - 1]
    BY <2>2, <2>4
  <2>6. Went(a, k, p[k - 1], p[k]) /\ Went(b, k, p[k - 1], q[k])
    BY <2>4, <2>5 DEF PathOf
  <2> DEFINE stage == Chain[k]
             image == p[k - 1]
  <2>7. IsEmpty(a, stage, image) <=> IsEmpty(b, stage, image)
    BY RunsAlike
  <2>8. Selected(a, stage, image) = Selected(b, stage, image)
    <3>1. \A s : Suit(a, stage, image, s) <=> Suit(b, stage, image, s)
      BY SuitAlike
    <3> HIDE DEF stage, image
    <3> DEFINE Best(x) == {s \in repo : /\ Suit(x, stage, image, s)
                                       /\ \A r \in repo : Suit(x, stage, image, r) => s.ts <= r.ts}
    <3>2. Best(a) = Best(b)
      BY <3>1
    <3>3. Selected(a, stage, image) = Best(a) /\ Selected(b, stage, image) = Best(b)
      BY SelectedIs
    <3> QED
      BY <3>2, <3>3
  <2>9. p[k] = q[k]
    BY <2>6, <2>7, <2>8, SelectedOnce DEF Went
  <2> QED
    BY <2>2, <2>9
<1>2. end \in 0..end
  OBVIOUS
<1> QED
  BY <1>1, <1>2 DEF PathOf

LEMMA PathsKnown ==
  ASSUME LabelsTold, MergedInClone
  PROVE  Spec => [](IInv /\ PathsInv)
<1>1. Init => PathsInv
  <2> SUFFICES ASSUME Init PROVE PathsInv
    OBVIOUS
  <2>1. \A b \in Builds : build[b] = Idle /\ build[b].pc # "made"
    BY DEF Init, Idle
  <2> QED
    BY <2>1 DEF Init, PathsInv, TimeInv, MadeInv, PathInv
<1>2. IInv /\ CloneInv /\ PathsInv /\ [Next]_vars => PathsInv'
  BY PathsStart, PathsSkip, PathsUse, PathsStay, PathsStore, PathsDelete, PathsUnchanged DEF Next
<1> QED
  BY <1>1, <1>2, ClonesKnown, PTL DEF Spec

\* Where the labels can be told and the clones have the merged commits, builds
\* of the same commits end with the same stage, whatever builds of whatever
\* commits run beside or between them (Reproducible).
THEOREM BuildsAreReproducible ==
  ASSUME LabelsTold, MergedInClone
  PROVE  Spec => []Reproducible
<1>1. IInv /\ PathsInv => Reproducible
  <2> SUFFICES ASSUME IInv, PathsInv, deletes = 0, NEW a \in Builds, NEW b \in Builds,
                      Done(a), Done(b), build[a].head = build[b].head,
                      build[a].vm = build[b].vm, build[a].clone = build[b].clone
               PROVE  build[a].prev = build[b].prev
    BY DEF Reproducible
  <2>1. /\ build[a] # Idle /\ build[b] # Idle
        /\ build[a].at = Len(Chain) + 1 /\ build[b].at = Len(Chain) + 1
    BY DEF IInv, BuildOK, Done, Idle
  <2>2. PICK p : PathOf(a, p)
    BY <2>1 DEF PathsInv, PathInv
  <2>3. PICK q : PathOf(b, q)
    BY <2>1 DEF PathsInv, PathInv
  <2> QED
    BY <2>1, <2>2, <2>3, SamePaths, ChainFacts DEF PathsInv, SameRun
<1> QED
  BY <1>1, PathsKnown, PTL

-----------------------------------------------------------------------------
(* A build changes the files of git once.                                  *)

AtHead(r, s) == \A g \in Mappings : s.info[g].commit = r.head[g]

Formed(files) == files = [g \in Mappings |-> [p \in Paths |-> files[g][p]]]

\* The commits of the stage q are ancestors of those of s.
Descends(s, q) ==
  \A g \in Mappings : AncestryCommit(q.info[g]) \in Ancestors[AncestryCommit(s.info[g])]

StageKin(s, R) ==
  /\ Formed(s.files)
  /\ s.stage \in GitStages \ {"gitArchive"} => \A q \in R : q.ts = s.parent => Descends(s, q)

\* A new image that changes files is on top of the build's commits, and what is
\* on top of them changes no files.
MadeKin(r) ==
  /\ Formed(r.made.files)
  /\ r.made.files # r.prev.files => AtHead(r, r.made)
  /\ r.at > 1 /\ AtHead(r, r.prev) => AtHead(r, r.made) /\ r.made.files = r.prev.files
  /\ Chain[r.at] \in GitStages \ {"gitArchive"} => Descends(r.made, r.prev)

KinInv ==
  /\ \A s \in repo : StageKin(s, repo)
  /\ \A b \in Builds : build[b].pc = "made" => MadeKin(build[b])

\* Another commit than the build's that counts as the same for the selection.
Shared(r, R) ==
  \E s \in R, g \in Mappings :
    /\ s.stage \in GitStages
    /\ s.info[g].commit # r.head[g]
    /\ AncestryCommit(s.info[g]) = AncestryCommit(LatestInfo(r, g))

Once(r) ==
  \/ r.updates = 0
  \/ r.updates = 1 /\ r.at > 1 /\ AtHead(r, r.prev)

OnceInv ==
  deletes = 0 =>
    \A b \in Builds : build[b] # Idle => Once(build[b]) \/ Shared(build[b], repo)

\* An empty patch changes nothing.
LEMMA NothingPatched ==
  ASSUME tree \in Trees, NEW b \in Builds, Invoked(build[b]), NEW s, InfoOK(s), Formed(s.files),
         AtHead(build[b], s), NEW g \in Mappings
  PROVE  PreparePatchForImage(b, g, s) = s.files[g]
<1>1. Patch(b, g, s) = {}
  <2>1. Patch(b, g, s) = TreePatch(Latest(b, g), Latest(b, g))
    BY PatchOfCommits DEF AtHead, Latest
  <2> QED
    BY <2>1 DEF TreePatch
<1>2. s.files[g] = [p \in Paths |-> s.files[g][p]]
  BY DEF Formed
<1>3. \A new : Replaced(s.files[g], {}, new) = s.files[g]
  BY <1>2 DEF Replaced
<1>4. Changed({}) = {} /\ PathsToRemove({}) = {} /\ ~HasBinary({})
  BY DEF Changed, PathsToRemove, HasBinary
<1>5. \A new : BaseApplyPatchCommand({}, s.files[g], new) = s.files[g]
  BY <1>3, <1>4 DEF BaseApplyPatchCommand
<1>6. \A new : AddAndRemoveData({}, s.files[g], new) = s.files[g]
  <2>1. \A new : {p \in Changed({}) : new[p] # Absent} \cup PathsToRemove({}) = {}
    BY <1>4
  <2> QED
    BY <1>3, <2>1 DEF AddAndRemoveData
<1> QED
  BY <1>1, <1>5, <1>6 DEF PreparePatchForImage

LEMMA AncestryOfHead ==
  ASSUME NEW i \in Invocations, NEW g \in Mappings
  PROVE  AncestryCommit(LatestInfo(i, g)) \in Commits
<1>1. i.head[g] \in Commits
  BY GitAssumption
<1>2. ASSUME g \in Local, i.vm PROVE Parents[i.head[g]][2] \in Commits
  <2>1. Parents[i.head[g]] \in Seq(Commits) /\ Len(Parents[i.head[g]]) = 2
    BY <1>1, <1>2, GitAssumption DEF IsMerge
  <2> QED
    BY <2>1
<1> QED
  BY <1>1, <1>2 DEF AncestryCommit, LatestInfo

LEMMA MadeKinOK ==
  ASSUME VirtualApart, IInv, CloneInv, KinInv, NEW b \in Builds, AtStage(b), NEW n,
         n.made = NewImage(b, Chain[build[b].at], build[b].prev),
         n.at = build[b].at, n.prev = build[b].prev, n.head = build[b].head
  PROVE  MadeKin(n)
<1> DEFINE r == build[b]
           stage == Chain[r.at]
           made == NewImage(b, stage, r.prev)
           image == PrepareImage(b, stage, r.prev)
<1>1. AtChain(r, repo) /\ tree \in Trees /\ RepoOK(repo)
  BY AtStageOK
<1>2. /\ r.at \in 1..Len(Chain) /\ CloneOK(r) /\ r # Idle /\ Invoked(r)
      /\ r.at = 1 => r.prev = FromImage
      /\ r.at > 1 => r.prev \in repo
  BY <1>1, ChainFacts DEF AtChain, BuildOK, CloneInv, IsRunning
<1>3. made.info = image.info /\ made.files = image.files
  BY DEF NewImage
<1> HIDE DEF made
<1>4. /\ stage \in GitStages => \A g \in Mappings : made.info[g].commit = r.head[g]
      /\ stage \notin GitStages => made.info = r.prev.info
  BY <1>1, <1>3, PreparedOK
<1>5. r.at > 1 => InfoOK(r.prev) /\ Formed(r.prev.files) /\ \A g \in Mappings : Known(r, g, r.prev)
  BY <1>1, <1>2 DEF RepoOK, ImageOK, KinInv, StageKin, CloneOK, Told
<1>6. \/ /\ r.at = 1 /\ stage \in GitStages
         /\ made.files = [g \in Mappings |-> PrepareArchiveForImage(b, g, r.prev)]
      \/ /\ r.at > 1 /\ stage \in GitStages /\ made.info = Labels(b)
         /\ made.files = [g \in Mappings |-> PreparePatchForImage(b, g, r.prev)]
      \/ r.at > 1 /\ made.info = r.prev.info /\ made.files = r.prev.files
  <2>1. CASE stage = "gitArchive"
    <3>1. r.at = 1 /\ image = Archived(b, r.prev)
      BY <1>2, <2>1, ChainFacts DEF PrepareImage
    <3> QED
      BY <1>3, <2>1, <3>1 DEF Archived, GitStages
  <2>2. CASE stage # "gitArchive"
    <3>1. r.at > 1
      BY <1>2, <2>2, ChainFacts
    <3>2. \/ image = Patched(b, r.prev) /\ stage \in GitStages
          \/ image = [info |-> r.prev.info, files |-> r.prev.files]
      BY <2>2, ChainFacts DEF PrepareImage, GitStages
    <3> QED
      BY <1>3, <3>1, <3>2 DEF Patched
  <2> QED
    BY <2>1, <2>2
<1>7. Formed(made.files)
  <2>1. \A g : /\ PrepareArchiveForImage(b, g, r.prev)
                    = [p \in Paths |-> PrepareArchiveForImage(b, g, r.prev)[p]]
               /\ PreparePatchForImage(b, g, r.prev)
                    = [p \in Paths |-> PreparePatchForImage(b, g, r.prev)[p]]
    BY DEF PrepareArchiveForImage, PreparePatchForImage, BaseApplyPatchCommand, AddAndRemoveData,
           Replaced
  <2>2. CASE r.at > 1 /\ made.files = r.prev.files
    BY <1>5, <2>2
  <2>3. CASE made.files = [g \in Mappings |-> PrepareArchiveForImage(b, g, r.prev)]
    <3>1. \A g \in Mappings : made.files[g] = [p \in Paths |-> made.files[g][p]]
      BY <2>1, <2>3
    <3> HIDE DEF made, image, stage, r
    <3>2. made.files = [g \in Mappings |-> made.files[g]]
      BY <2>3
    <3> QED
      BY <3>1, <3>2 DEF Formed
  <2>4. CASE made.files = [g \in Mappings |-> PreparePatchForImage(b, g, r.prev)]
    <3>1. \A g \in Mappings : made.files[g] = [p \in Paths |-> made.files[g][p]]
      BY <2>1, <2>4
    <3> HIDE DEF made, image, stage, r
    <3>2. made.files = [g \in Mappings |-> made.files[g]]
      BY <2>4
    <3> QED
      BY <3>1, <3>2 DEF Formed
  <2> QED
    BY <1>6, <2>2, <2>3, <2>4
<1>8. made.files # r.prev.files => AtHead(r, made)
  BY <1>4, <1>6 DEF AtHead
<1>9. ASSUME r.at > 1, AtHead(r, r.prev) PROVE AtHead(r, made) /\ made.files = r.prev.files
  <2>1. AtHead(r, made)
    BY <1>4, <1>9 DEF AtHead
  <2>2. \A g \in Mappings : PreparePatchForImage(b, g, r.prev) = r.prev.files[g]
    BY <1>1, <1>2, <1>5, <1>9, NothingPatched
  <2>3. r.prev.files = [g \in Mappings |-> r.prev.files[g]]
    BY <1>5, <1>9 DEF Formed
  <2> QED
    BY <1>6, <1>9, <2>1, <2>2, <2>3
<1>10. ASSUME stage \in GitStages \ {"gitArchive"} PROVE Descends(made, r.prev)
  <2> SUFFICES ASSUME NEW g \in Mappings
               PROVE  AncestryCommit(r.prev.info[g]) \in Ancestors[AncestryCommit(made.info[g])]
    BY DEF Descends
  <2>1. r.at > 1
    BY <1>2, <1>10, ChainFacts
  <2>2. CASE made.info = Labels(b)
    <3>1. made.info[g] = LatestInfo(r, g)
      BY <2>2 DEF Labels, GetLatestCommitInfo, LatestInfo, VirtualMerge, Latest
    <3>2. PICK i \in Invocations : r.head = i.head /\ r.vm = i.vm
      BY <1>2 DEF Invoked
    <3>3. LatestInfo(r, g) = LatestInfo(i, g)
      BY <3>2 DEF LatestInfo
    <3>4. AncestryCommit(LatestInfo(r, g)) \in Commits
      BY <3>3, AncestryOfHead
    <3> QED
      BY <1>5, <2>1, <3>1, <3>4, GitAssumption DEF Known, Ours
  <2>3. CASE made.info = r.prev.info
    <3>1. PICK i \in Invocations : r.prev.info[g] = LatestInfo(i, g)
      BY <1>5, <2>1 DEF InfoOK
    <3> QED
      BY <2>3, <3>1, AncestryOfHead, GitAssumption
  <2> QED
    BY <1>6, <2>1, <2>2, <2>3
<1>11. n.made = made
  BY DEF made
<1> QED
  BY <1>7, <1>8, <1>9, <1>10, <1>11 DEF MadeKin, AtHead

LEMMA OneKin ==
  ASSUME IInv, KinInv, repo' = repo, NEW b \in Builds, NEW n, build' = [build EXCEPT ![b] = n],
         n.pc = "made" => MadeKin(n)
  PROVE  KinInv'
<1>1. \A c \in Builds : build'[c] = IF c = b THEN n ELSE build[c]
  BY DEF IInv
<1>2. \A c \in Builds : build'[c].pc = "made" => MadeKin(build'[c])
  BY <1>1 DEF KinInv
<1> QED
  BY <1>2 DEF KinInv

LEMMA OneOnce ==
  ASSUME IInv, OnceInv, repo \subseteq repo', deletes' = deletes, NEW b \in Builds, NEW n,
         build' = [build EXCEPT ![b] = n],
         deletes = 0 => Once(n) \/ Shared(n, repo')
  PROVE  OnceInv'
<1>1. \A c \in Builds : build'[c] = IF c = b THEN n ELSE build[c]
  BY DEF IInv
<1>2. \A r : Shared(r, repo) => Shared(r, repo')
  BY DEF Shared
<1>3. deletes = 0 =>
        \A c \in Builds : build'[c] # Idle => Once(build'[c]) \/ Shared(build'[c], repo')
  BY <1>1, <1>2 DEF OnceInv
<1> QED
  BY <1>3 DEF OnceInv

LEMMA SharedStays ==
  ASSUME NEW r, NEW n, n.head = r.head, n.vm = r.vm, NEW R
  PROVE  Shared(n, R) <=> Shared(r, R)
<1>1. \A g : LatestInfo(n, g) = LatestInfo(r, g)
  BY DEF LatestInfo
<1> QED
  BY <1>1 DEF Shared

\* A stage that is selected on top of the build's commits is of these commits,
\* or of others that count as the same.
LEMMA SelectedAtHead ==
  ASSUME VirtualApart, IInv, TimeInv, KinInv, NEW b \in Builds, AtStage(b) \/ build[b].pc = "made",
         build[b].at > 1, AtHead(build[b], build[b].prev),
         NEW s \in Selected(b, StageOf(b), build[b].prev)
  PROVE  AtHead(build[b], s) \/ Shared(build[b], repo)
<1> DEFINE r == build[b]
<1>1. AtChain(r, repo) /\ tree \in Trees /\ RepoOK(repo)
  BY AtStageOK
<1>2. r.at \in 1..Len(Chain) /\ Invoked(r) /\ r.prev \in repo
  BY <1>1, ChainFacts DEF AtChain, BuildOK, IsRunning
<1>3. s \in repo /\ Fits(r, s.digest)
  BY SelectedFits
<1>4. ImageOK(s) /\ ParentOK(s, repo)
  BY <1>1, <1>3 DEF RepoOK
<1>5. s.stage = Chain[r.at]
  <2>1. s.digest[1] = Chain[r.at]
    BY <1>3 DEF Fits
  <2> QED
    BY <2>1, <1>4 DEF ImageOK
<1>6. CASE s.stage \notin GitStages
  BY <1>1, <1>3, <1>6, SelectedCommits DEF SameCommits, AtHead
<1>7. CASE s.stage \in GitStages
  <2> SUFFICES ASSUME NEW g \in Mappings
               PROVE  AncestryCommit(s.info[g]) = AncestryCommit(LatestInfo(r, g))
    BY <1>3, <1>7 DEF AtHead, Shared
  <2>1. s.stage # "gitArchive"
    BY <1>2, <1>5, ChainFacts
  <2>2. PICK q \in repo : q.ts = s.parent /\ On(s, q)
    BY <1>4, <2>1 DEF ParentOK
  <2>3. Descends(s, q)
    BY <1>3, <1>7, <2>1, <2>2 DEF KinInv, StageKin
  <2>4. q.digest = r.prev.digest /\ GetNextStageDependencies(q) = GetNextStageDependencies(r.prev)
    BY <1>3, <2>2 DEF On, Fits
  <2>5. SameCommits(q, r.prev)
    BY <1>1, <1>2, <2>4 DEF RepoOK, Same
  <2>6. PICK i \in Invocations : r.head = i.head /\ r.vm = i.vm
    BY <1>2 DEF Invoked
  <2>7. PICK j \in Invocations : q.info[g] = LatestInfo(j, g) /\ q.info[g].commit = j.head[g]
    BY <1>1, <2>2 DEF RepoOK, ImageOK, InfoOK
  <2>8. PICK k \in Invocations : s.info[g] = LatestInfo(k, g)
    BY <1>4 DEF ImageOK, InfoOK
  <2>9. i.head[g] = j.head[g] /\ (g \in Local => i.vm = j.vm)
    BY <2>5, <2>6, <2>7 DEF SameCommits, AtHead, VirtualApart
  <2>10. LatestInfo(i, g) = LatestInfo(j, g) /\ LatestInfo(i, g) = LatestInfo(r, g)
    BY <2>6, <2>9 DEF LatestInfo
  <2>11. AncestryCommit(LatestInfo(i, g)) \in Ancestors[AncestryCommit(LatestInfo(k, g))]
    BY <2>3, <2>7, <2>8, <2>10 DEF Descends
  <2>12. IsOurAncestor(b, g, s)
    BY <1>5, <1>7 DEF Selected, SelectSuitableStageDesc, Suitable, StageOf
  <2>13. AncestryCommit(LatestInfo(k, g)) \in Ancestors[AncestryCommit(LatestInfo(i, g))]
    BY <2>8, <2>10, <2>12, OursIsAncestor DEF Ours
  <2>14. AncestryCommit(LatestInfo(i, g)) = AncestryCommit(LatestInfo(k, g))
    BY <2>11, <2>13, AncestryOfHead, HistoryAssumption
  <2> QED
    BY <2>8, <2>10, <2>14
<1> QED
  BY <1>6, <1>7

UpdatesInv == KinInv /\ OnceInv

LEMMA UpdatesStart ==
  ASSUME IInv, UpdatesInv, NEW b \in Builds, NEW i \in Invocations, Start(b, i)
  PROVE  UpdatesInv'
<1> DEFINE n == [pc |-> "stage", at |-> 1, prev |-> FromImage, made |-> None, updates |-> 0,
                 head |-> i.head, vm |-> i.vm, clone |-> i.clone, backend |-> i.backend]
<1>1. n.pc = "stage" /\ n.updates = 0
  OBVIOUS
<1> HIDE DEF n
<1>2. build' = [build EXCEPT ![b] = n] /\ repo' = repo /\ deletes' = deletes
  BY DEF Start, n
<1>3. Once(n)
  BY <1>1 DEF Once
<1> QED
  BY <1>1, <1>2, <1>3, OneKin, OneOnce DEF UpdatesInv

\* A build goes on without a stage of its own.
LEMMA UpdatesOnwards ==
  ASSUME VirtualApart, IInv, TimeInv, UpdatesInv, NEW b \in Builds,
         SkipEmptyStage(b) \/ UseStage(b) \/ DiscardNewlyBuilt(b)
  PROVE  UpdatesInv'
<1> DEFINE r == build[b]
<1>1. (AtStage(b) \/ r.pc = "made") /\ repo' = repo /\ deletes' = deletes
  BY DEF SkipEmptyStage, UseStage, CalculateStage, DiscardNewlyBuilt
<1>2. PICK s : /\ build' = [build EXCEPT ![b] = NextStage(b, s)]
               /\ s \in {r.prev} \cup Selected(b, StageOf(b), r.prev)
               /\ SkipEmptyStage(b) => s = r.prev
  BY DEF SkipEmptyStage, UseStage, DiscardNewlyBuilt
<1> DEFINE n == NextStage(b, s)
<1>3. AtChain(r, repo)
  BY <1>1, AtStageOK
<1>4. r # Idle /\ r.at \in 1..Len(Chain) /\ r = [x \in Fields |-> r[x]]
  BY <1>3, ChainFacts DEF AtChain, BuildOK
<1>5. /\ n.pc = "stage" /\ n.at = r.at + 1 /\ n.prev = s /\ n.updates = r.updates
      /\ n.head = r.head /\ n.vm = r.vm
  BY <1>4 DEF NextStage, Fields
<1>6. build' = [build EXCEPT ![b] = n]
  BY <1>2
<1> HIDE DEF n
<1>7. r.at > 1 /\ AtHead(r, r.prev) => AtHead(r, s) \/ Shared(r, repo)
  BY <1>1, <1>2, SelectedAtHead DEF UpdatesInv
<1>8. Once(r) => Once(n) \/ Shared(n, repo)
  BY <1>4, <1>5, <1>7, SharedStays DEF Once, AtHead
<1>9. deletes = 0 => Once(n) \/ Shared(n, repo')
  BY <1>1, <1>4, <1>5, <1>8, SharedStays DEF UpdatesInv, OnceInv
<1> QED
  BY <1>1, <1>5, <1>6, <1>9, OneKin, OneOnce DEF UpdatesInv

\* A build does not change its place.
LEMMA UpdatesStay ==
  ASSUME VirtualApart, IInv, CloneInv, UpdatesInv, NEW b \in Builds,
         BuildStage(b) \/ FailStage(b) \/ EndBuild(b)
  PROVE  UpdatesInv'
<1> DEFINE r == build[b]
<1>1. r # Idle /\ repo' = repo /\ deletes' = deletes
  BY DEF BuildStage, CalculateStage, FailStage, EndBuild, AtStage, Idle
<1>2. r = [x \in Fields |-> r[x]]
  BY <1>1 DEF IInv, BuildOK
<1>3. PICK n : /\ build' = [build EXCEPT ![b] = n]
               /\ n.at = r.at /\ n.prev = r.prev /\ n.updates = r.updates
               /\ n.head = r.head /\ n.vm = r.vm
               /\ n.pc = "made" => AtStage(b) /\ n.made = NewImage(b, Chain[r.at], r.prev)
  <2>1. CASE BuildStage(b)
    <3> DEFINE made == NewImage(b, Chain[r.at], r.prev)
               n == [r EXCEPT !.pc = "made", !.made = made]
    <3>1. build' = [build EXCEPT ![b] = n] /\ AtStage(b)
      BY <2>1 DEF BuildStage, CalculateStage, StageOf, IInv
    <3> HIDE DEF made
    <3>2. /\ n.at = r.at /\ n.prev = r.prev /\ n.updates = r.updates
          /\ n.head = r.head /\ n.vm = r.vm /\ n.made = made
      BY <1>2 DEF Fields
    <3> HIDE DEF n
    <3> QED
      BY <3>1, <3>2 DEF made
  <2>2. CASE FailStage(b) \/ EndBuild(b)
    <3>1. PICK z \in {"failed", "done"} : build' = [build EXCEPT ![b].pc = z]
      BY <2>2 DEF FailStage, EndBuild
    <3> DEFINE n == [r EXCEPT !.pc = z]
    <3>2. build' = [build EXCEPT ![b] = n]
      BY <3>1 DEF IInv
    <3>3. /\ n.at = r.at /\ n.prev = r.prev /\ n.updates = r.updates
          /\ n.head = r.head /\ n.vm = r.vm /\ n.pc # "made"
      BY <1>2 DEF Fields
    <3> HIDE DEF n
    <3> QED
      BY <3>2, <3>3
  <2> QED
    BY <2>1, <2>2
<1>4. n.pc = "made" => MadeKin(n)
  BY <1>3, MadeKinOK DEF UpdatesInv
<1>5. Once(r) => Once(n)
  BY <1>3 DEF Once, AtHead
<1>6. deletes = 0 => Once(n) \/ Shared(n, repo')
  BY <1>1, <1>3, <1>5, SharedStays DEF UpdatesInv, OnceInv
<1> QED
  BY <1>1, <1>3, <1>4, <1>6, OneKin, OneOnce DEF UpdatesInv

LEMMA UpdatesStore ==
  ASSUME IInv, TimeInv, UpdatesInv, NEW b \in Builds, StoreStage(b)
  PROVE  UpdatesInv'
<1> DEFINE r == build[b]
<1>0. PICK q : q = [r.made EXCEPT !.ts = clock + 1]
  OBVIOUS
<1> DEFINE more == IF q.files # r.prev.files THEN 1 ELSE 0
           n == [NextStage(b, q) EXCEPT !.updates = @ + more]
<1>1. /\ r.pc = "made" /\ build' = [build EXCEPT ![b] = n]
      /\ repo' = repo \cup {q} /\ deletes' = deletes
  BY <1>0 DEF StoreStage
<1>2. AtChain(r, repo) /\ MadeOK(r) /\ RepoOK(repo)
  BY <1>1, AtStageOK DEF AtChain, BuildOK
<1>3. /\ q.stage = Chain[r.at] /\ q.info = r.made.info /\ q.files = r.made.files
      /\ q.ts = clock + 1
  BY <1>0, <1>1, StoredIs
<1>4. q.parent = r.prev.ts
  BY <1>0, <1>2 DEF MadeOK
<1>5. /\ r # Idle /\ r.at \in 1..Len(Chain) /\ r = [x \in Fields |-> r[x]]
      /\ r.at > 1 => r.prev \in repo
  BY <1>2, ChainFacts DEF AtChain, BuildOK, IsRunning
<1>6. /\ n.pc = "stage" /\ n.at = r.at + 1 /\ n.prev = q /\ n.updates = r.updates + more
      /\ n.head = r.head /\ n.vm = r.vm
  <2> HIDE DEF more
  <2> QED
    BY <1>5 DEF NextStage, Fields
<1> HIDE DEF n
<1>7. MadeKin(r)
  BY <1>1 DEF UpdatesInv, KinInv
<1>8. StageKin(q, repo')
  <2>1. Formed(q.files)
    BY <1>3, <1>7 DEF MadeKin
  <2>2. ASSUME q.stage \in GitStages \ {"gitArchive"}, NEW s \in repo', s.ts = q.parent
        PROVE  Descends(q, s)
    <3>1. r.prev \in repo
      BY <1>3, <1>5, <2>2, ChainFacts
    <3>2. s = r.prev
      BY <1>1, <1>3, <1>4, <2>2, <3>1 DEF TimeInv
    <3> QED
      BY <1>3, <1>7, <2>2, <3>2 DEF MadeKin, Descends
  <2> QED
    BY <2>1, <2>2 DEF StageKin
<1>9. ASSUME NEW s \in repo PROVE StageKin(s, repo')
  <2>1. StageKin(s, repo)
    BY DEF UpdatesInv, KinInv
  <2>2. s.stage # "gitArchive" => s.parent # q.ts
    <3> SUFFICES ASSUME s.stage # "gitArchive" PROVE s.parent # q.ts
      OBVIOUS
    <3>1. PICK t \in repo : t.ts = s.parent
      BY <1>2 DEF RepoOK, ParentOK
    <3> QED
      BY <1>3, <3>1 DEF TimeInv
  <2> QED
    BY <1>1, <2>1, <2>2 DEF StageKin
<1>10. KinInv'
  <2>1. \A c \in Builds : build'[c] = IF c = b THEN n ELSE build[c]
    BY <1>1 DEF IInv
  <2>2. \A c \in Builds : build'[c].pc = "made" => MadeKin(build'[c])
    BY <1>6, <2>1 DEF UpdatesInv, KinInv
  <2>3. \A s \in repo' : StageKin(s, repo')
    BY <1>1, <1>8, <1>9
  <2> QED
    BY <2>2, <2>3 DEF KinInv
<1>11. Once(r) => Once(n)
  <2>1. more \in {0, 1} /\ (more = 1 <=> r.made.files # r.prev.files)
    BY <1>3
  <2> HIDE DEF more
  <2>2. AtHead(r, r.made) => AtHead(n, n.prev)
    BY <1>3, <1>6 DEF AtHead
  <2>3. n.at > 1
    BY <1>5, <1>6
  <2> QED
    BY <1>6, <1>7, <2>1, <2>2, <2>3 DEF Once, MadeKin
<1>12. deletes = 0 => Once(n) \/ Shared(n, repo')
  <2>1. Shared(r, repo) => Shared(n, repo')
    BY <1>1, <1>6, SharedStays DEF Shared
  <2> QED
    BY <1>5, <1>11, <2>1 DEF UpdatesInv, OnceInv
<1>13. OnceInv'
  BY <1>1, <1>12, OneOnce DEF UpdatesInv
<1> QED
  BY <1>10, <1>13 DEF UpdatesInv

LEMMA UpdatesDelete ==
  ASSUME IInv, TimeInv, UpdatesInv, NEW s \in repo, DeleteStage(s)
  PROVE  UpdatesInv'
<1>1. repo' = repo \ {s} /\ deletes' = deletes + 1 /\ build' = build
  BY DEF DeleteStage
<1>2. KinInv'
  BY <1>1 DEF UpdatesInv, KinInv, StageKin
<1>3. deletes' # 0
  BY <1>1 DEF TimeInv
<1> QED
  BY <1>1, <1>2, <1>3 DEF UpdatesInv, OnceInv

LEMMA TimesTold == Spec => [](IInv /\ TimeInv)
<1>1. Init => TimeInv
  BY DEF Init, TimeInv
<1>2. IInv /\ TimeInv /\ [Next]_vars => TimeInv'
  <2> SUFFICES ASSUME IInv, TimeInv, [Next]_vars PROVE TimeInv'
    OBVIOUS
  <2>1. CASE repo' = repo /\ clock' = clock /\ deletes' = deletes
    BY <2>1 DEF TimeInv
  <2>2. ASSUME NEW b \in Builds, StoreStage(b) PROVE TimeInv'
    <3>1. PICK s : s = [build[b].made EXCEPT !.ts = clock + 1]
      OBVIOUS
    <3>2. /\ build[b].pc = "made" /\ repo' = repo \cup {s}
          /\ clock' = clock + 1 /\ deletes' = deletes
      BY <2>2, <3>1 DEF StoreStage
    <3>3. s.ts = clock + 1
      BY <3>1, <3>2, StoredIs
    <3> QED
      BY <3>2, <3>3 DEF TimeInv
  <2>3. ASSUME NEW s \in repo, DeleteStage(s) PROVE TimeInv'
    BY <2>3 DEF DeleteStage, TimeInv
  <2> QED
    BY <2>1, <2>2, <2>3
    DEF Next, vars, Start, SkipEmptyStage, UseStage, BuildStage, DiscardNewlyBuilt, FailStage, EndBuild
<1> QED
  BY <1>1, <1>2, Invariance, PTL DEF Spec

LEMMA UpdatesInvariant ==
  ASSUME VirtualApart
  PROVE  Spec => [](IInv /\ UpdatesInv)
<1>1. Init => UpdatesInv
  <2> SUFFICES ASSUME Init PROVE UpdatesInv
    OBVIOUS
  <2>1. \A b \in Builds : build[b] = Idle /\ build[b].pc # "made"
    BY DEF Init, Idle
  <2> QED
    BY <2>1 DEF Init, UpdatesInv, KinInv, OnceInv
<1>2. IInv /\ CloneInv /\ TimeInv /\ UpdatesInv /\ [Next]_vars => UpdatesInv'
  <2>1. ASSUME UpdatesInv, UNCHANGED vars PROVE UpdatesInv'
    BY <2>1 DEF vars, UpdatesInv, KinInv, OnceInv
  <2> QED
    BY <2>1, UpdatesStart, UpdatesOnwards, UpdatesStay, UpdatesStore, UpdatesDelete DEF Next
<1>3. LabelsTold
  BY DEF LabelsTold
<1> QED
  BY <1>1, <1>2, <1>3, ClonesKnown, TimesTold, PTL DEF Spec

\* Where no commit is built both as a virtual merge and not, a build changes the
\* files of git in at most one stage or has met a commit that counts as its own
\* (UpdatedOnce), as long as nothing is deleted.
THEOREM FilesUpdatedOnce ==
  ASSUME VirtualApart
  PROVE  Spec => [](deletes = 0 => UpdatedOnce)
<1>1. IInv /\ UpdatesInv => (deletes = 0 => UpdatedOnce)
  <2> SUFFICES ASSUME IInv, UpdatesInv, deletes = 0, NEW b \in Builds, build[b] # Idle,
                      ~(build[b].updates <= 1)
               PROVE  \E s \in repo, g \in Mappings :
                        /\ s.stage \in GitStages
                        /\ s.info[g].commit # Latest(b, g)
                        /\ AncestryCommit(s.info[g]) = AncestryCommit(GetLatestCommitInfo(b, g))
    BY DEF UpdatedOnce
  <2>1. Shared(build[b], repo)
    BY DEF UpdatesInv, OnceInv, Once
  <2>2. \A g : GetLatestCommitInfo(b, g) = LatestInfo(build[b], g)
    BY DEF GetLatestCommitInfo, LatestInfo, VirtualMerge, Latest
  <2> QED
    BY <2>1, <2>2 DEF Shared, Latest
<1> QED
  BY <1>1, UpdatesInvariant, PTL

=============================================================================
