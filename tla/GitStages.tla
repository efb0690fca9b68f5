----------------------------- MODULE GitStages -----------------------------
(***************************************************************************)
(* The stages of a stapel image that bring files of git into it            *)
(* (pkg/build/stage).  gitArchive holds the files of the commit it was     *)
(* built from; a user stage, gitCache and gitLatestPatch hold a patch from *)
(* the commit in the labels of the stage below to the current one.  None   *)
(* of their digests has the current commit in it: builds of other commits  *)
(* share the stages as long as what the digest does depend on is the same  *)
(* and the commit of a stage is an ancestor of the current one.            *)
(*                                                                         *)
(* Several builds run on one repo of stages.  That a stage is looked up    *)
(* again and published in one step is what StagePublish shows of the       *)
(* publication.  A user stage does not change files of git, and no mapping *)
(* changes between a file and a directory.                                 *)
(***************************************************************************)
EXTENDS Integers, Sequences, FiniteSets

CONSTANTS
  None,
  Builds,
  Chain,         \* the stages of the image in their order
  UserStages,    \* of them, those with instructions: install, setup
  Mappings,      \* git mappings, 1..N
  Local,         \* those of the local repo
  Commits,
  Parents,       \* of each commit; <<into, from>> of a merge commit
  Ancestors,     \* of each commit, itself included
  Invocations,   \* how builds are run: [head, vm, clone, backend], the commit of
                 \* each mapping, whether it is a virtual merge, the commits in
                 \* the clone, and "docker" or "buildah"
  Paths, Contents, Absent, EmptyFile,
  Binary,        \* paths of binary files
  Trees,         \* histories: of each commit, its files
  StageDeps,     \* of each user stage, the paths it depends on
  PatchSizeStep, \* in changed files
  MaxRunning, MaxDeletes   \* bounds

Files == [Paths -> Contents \cup {Absent, EmptyFile}]
IsMerge(c) == Len(Parents[c]) = 2

\* Stages that know their commits, and that are told apart by them.
GitStages == {"gitArchive", "gitCache", "gitLatestPatch"} \cup UserStages

\* The order in which stapel.go makes the stages from gitArchive on.
ChainInOrder ==
  /\ Chain \in Seq(STRING) /\ Chain # <<>>
  /\ Chain[1] = "gitArchive"
  /\ \A i, j \in DOMAIN Chain : Chain[i] = Chain[j] => i = j
  /\ \A i, j \in DOMAIN Chain : Chain[i] = "gitLatestPatch" /\ i < j => Chain[j] \notin GitStages
  /\ UserStages \subseteq {Chain[i] : i \in DOMAIN Chain}
  /\ UserStages \cap {"from", "gitArchive", "gitCache", "gitLatestPatch"} = {}

ASSUME GitAssumption ==
  /\ ChainInOrder
  /\ Mappings \subseteq Nat /\ IsFiniteSet(Mappings) /\ Local \subseteq Mappings
  /\ None \notin Commits
  /\ Parents \in [Commits -> Seq(Commits)]
  /\ Ancestors \in [Commits -> SUBSET Commits]
  /\ \A c \in Commits : c \in Ancestors[c]
  /\ \A i \in Invocations :
       /\ i.head \in [Mappings -> Commits] /\ i.clone \in SUBSET Commits
       /\ \A g \in Mappings : i.head[g] \in i.clone
       /\ i.vm \in BOOLEAN /\ (i.vm => \A g \in Local : IsMerge(i.head[g]))
       /\ i.backend \in {"docker", "buildah"}
  /\ Trees \subseteq [Commits -> Files]
  /\ StageDeps \in [UserStages -> SUBSET Paths]
  /\ PatchSizeStep \in Nat \ {0}
  /\ MaxRunning \in Nat /\ MaxDeletes \in Nat

\* git makes the same merge of the same commits.
ASSUME MergeAssumption ==
  \A tree \in Trees, c, d \in Commits :
    IsMerge(c) /\ Parents[c] = Parents[d] => tree[c] = tree[d]

\* No commit is an ancestor of its ancestors.
ASSUME HistoryAssumption ==
  \A c, d \in Commits : c \in Ancestors[d] /\ d \in Ancestors[c] => c = d

\* The digest of a next stage has the commits of the mappings without telling
\* which is whose: commits of different mappings are different.
ASSUME MappingsAssumption ==
  \A i, j \in Invocations, g, f \in Mappings : g # f => i.head[g] # j.head[f]

VARIABLES
  tree,     \* the history
  repo,     \* the stages in the repo
  clock,    \* the time of the last publication
  build,    \* of each build, what it is at
  deletes   \* stages deleted so far

vars == <<tree, repo, clock, build, deletes>>

\* The stage below gitArchive, which is the same for all the builds.
FromImage ==
  [stage |-> "from", digest |-> <<>>, ts |-> 0, parent |-> 0, info |-> <<>>,
   files |-> [g \in Mappings |-> [p \in Paths |-> Absent]], ran |-> [u \in {} |-> None]]

Idle == [pc |-> "idle"]
Running(b) == build[b].pc \in {"stage", "made"}

Init ==
  /\ tree \in Trees
  /\ repo = {}
  /\ clock = 0
  /\ build = [b \in Builds |-> Idle]
  /\ deletes = 0

-----------------------------------------------------------------------------
(* Commits of a build and of a stage.                                      *)

Latest(b, g) == build[b].head[g]
VirtualMerge(b, g) == g \in Local /\ build[b].vm

GetLatestCommitInfo(b, g) ==
  [commit |-> Latest(b, g), vm |-> VirtualMerge(b, g),
   from |-> IF VirtualMerge(b, g) THEN Parents[Latest(b, g)][2] ELSE None,
   into |-> IF VirtualMerge(b, g) THEN Parents[Latest(b, g)][1] ELSE None]

\* Its own commit, of a virtual merge the one that is merged.
AncestryCommit(info) == IF info.vm THEN info.from ELSE info.commit

\* The virtual merge of the stage has to be made again.
Remade(b, g, info) ==
  info.vm /\ ~(VirtualMerge(b, g) /\ Latest(b, g) = info.commit)

CreateDetachedMergeCommit(info) ==
  [commit |-> None, files |-> tree[CHOOSE c \in Commits : Parents[c] = <<info.into, info.from>>]]

GetBaseCommitForPrevBuiltImage(b, g, image) ==
  LET info == image.info[g] IN
  IF Remade(b, g, info) THEN CreateDetachedMergeCommit(info)
  ELSE [commit |-> info.commit, files |-> tree[info.commit]]

BaseFails(b, g, image) ==
  LET info == image.info[g] IN
  Remade(b, g, info) /\ ~({info.from, info.into} \subseteq build[b].clone)

BaseExists(b, g, image) ==
  GetBaseCommitForPrevBuiltImage(b, g, image).commit \in build[b].clone \cup {None}

HasPrevBuiltStageHadActualGitMappings(b, image) ==
  \A g \in Mappings :
    /\ ~BaseFails(b, g, image)
    /\ GetBaseCommitForPrevBuiltImage(b, g, image).commit = Latest(b, g)

-----------------------------------------------------------------------------
(* The patch from the commit of the stage below to the current one.        *)

Patch(b, g, image) ==
  LET base == GetBaseCommitForPrevBuiltImage(b, g, image).files
      latest == tree[Latest(b, g)]
  IN {<<p, base[p], latest[p]>> : p \in {q \in Paths : base[q] # latest[q]}}

Changed(patch) == {change[1] : change \in patch}
HasBinary(patch) == Changed(patch) \cap Binary # {}

\* The parser of the diff takes a deletion from the line "--- a/", which git
\* does not write for an empty or a binary file.
PathsToRemove(patch) ==
  {change[1] : change \in {c \in patch : c[3] = Absent /\ c[2] # EmptyFile /\ c[1] \notin Binary}}

GitMappingsPatchSize(b, image) ==
  IF \A g \in Mappings : BaseExists(b, g, image)
  THEN Cardinality(UNION {{g} \X Patch(b, g, image) : g \in Mappings})
  ELSE 0

\* git apply does not find what the patch is to change.
PatchDoesNotApply(b, image) ==
  /\ build[b].backend = "docker"
  /\ \E g \in Mappings :
       LET patch == Patch(b, g, image) IN
       /\ ~HasBinary(patch)
       /\ \E change \in patch : image.files[g][change[1]] # change[2]

Replaced(files, paths, new) == [p \in Paths |-> IF p \in paths THEN new[p] ELSE files[p]]

\* Docker applies the patch; if a file in it is binary, it removes the files
\* that the patch names and unpacks the archive of the commit.
BaseApplyPatchCommand(patch, old, new) ==
  Replaced(old, Changed(patch) \cup IF HasBinary(patch) THEN {p \in Paths : new[p] # Absent} ELSE {}, new)

\* Buildah unpacks the files that the patch names from the archive of the
\* commit, and removes those that the parser of the diff took for deleted.
AddAndRemoveData(patch, old, new) ==
  Replaced(old, {p \in Changed(patch) : new[p] # Absent} \cup PathsToRemove(patch), new)

PreparePatchForImage(b, g, image) ==
  LET patch == Patch(b, g, image) IN
  IF build[b].backend = "docker"
  THEN BaseApplyPatchCommand(patch, image.files[g], tree[Latest(b, g)])
  ELSE AddAndRemoveData(patch, image.files[g], tree[Latest(b, g)])

PrepareArchiveForImage(b, g, image) ==
  LET new == tree[Latest(b, g)] IN
  Replaced(image.files[g], {p \in Paths : new[p] # Absent}, new)

-----------------------------------------------------------------------------
(* What the stages make of it.                                             *)

\* Mutant: the digest of a stage is all that the next one depends on.
NextDependenciesOfDigest(image) == <<>>

\* The commits of the stage, for the digest of the next one.
GetNextStageDependencies(image) ==
  IF image.stage \in GitStages
  THEN [c \in Commits |-> Cardinality({g \in Mappings : image.info[g].commit = c})]
  ELSE <<>>

\* Mutant: the files of the commit of the stage below.
ChecksumOfBase(b, stage, image) ==
  [g \in Mappings |-> [p \in StageDeps[stage] |-> tree[image.info[g].commit][p]]]

StageDependenciesChecksum(b, stage, image) ==
  [g \in Mappings |-> [p \in StageDeps[stage] |-> tree[Latest(b, g)][p]]]

GitCacheDependencies(b, image) == GitMappingsPatchSize(b, image) \div PatchSizeStep
GitLatestPatchDependencies(b, image) == [g \in Mappings |-> Patch(b, g, image)]

GetDependencies(b, stage, image) ==
  CASE stage \in UserStages -> StageDependenciesChecksum(b, stage, image)
    [] stage = "gitCache" -> GitCacheDependencies(b, image)
    [] stage = "gitLatestPatch" -> GitLatestPatchDependencies(b, image)
    [] OTHER -> <<>>

CalculateDigest(b, stage, image) ==
  <<stage, GetDependencies(b, stage, image), image.digest, GetNextStageDependencies(image)>>

GitCacheIsEmpty(b, image) ==
  \/ HasPrevBuiltStageHadActualGitMappings(b, image)
  \/ GitMappingsPatchSize(b, image) < PatchSizeStep

GitLatestPatchIsEmpty(b, image) ==
  \/ HasPrevBuiltStageHadActualGitMappings(b, image)
  \/ \A g \in Mappings : Patch(b, g, image) = {}

IsEmpty(b, stage, image) ==
  \/ stage = "gitCache" /\ GitCacheIsEmpty(b, image)
  \/ stage = "gitLatestPatch" /\ GitLatestPatchIsEmpty(b, image)

\* Mappings whose files have no commit to make a patch from.
NoBase(b, image) ==
  {g \in Mappings : BaseFails(b, g, image) \/ ~BaseExists(b, g, image)}

GitMappingIsEmpty(b, g) == \A p \in Paths : tree[Latest(b, g)][p] = Absent

\* An error before the digest of the stage is known.
Fails(b, stage, image) ==
  \/ stage = "gitArchive" /\ \E g \in Mappings : GitMappingIsEmpty(b, g)
  \/ /\ stage = "gitCache"
     /\ \E g \in Mappings : BaseFails(b, g, image)
                            /\ \A f \in Mappings : f < g => BaseExists(b, f, image)
  \/ stage = "gitLatestPatch" /\ NoBase(b, image) # {}

\* An error in the preparation or the build of the new image.
CannotBeBuilt(b, stage, image) ==
  /\ stage \in GitStages \ {"gitArchive"}
  /\ NoBase(b, image) # {} \/ PatchDoesNotApply(b, image)

Labels(b) == [g \in Mappings |-> GetLatestCommitInfo(b, g)]

Patched(b, image) ==
  [info |-> Labels(b), files |-> [g \in Mappings |-> PreparePatchForImage(b, g, image)]]

Archived(b, image) ==
  [info |-> Labels(b), files |-> [g \in Mappings |-> PrepareArchiveForImage(b, g, image)]]

PrepareImage(b, stage, image) ==
  CASE stage = "gitArchive" -> Archived(b, image)
    [] stage \in {"gitCache", "gitLatestPatch"} -> Patched(b, image)
    [] stage \in UserStages /\ ~HasPrevBuiltStageHadActualGitMappings(b, image) -> Patched(b, image)
    [] OTHER -> [info |-> image.info, files |-> image.files]

\* The new image; its time is known when it is published.
NewImage(b, stage, image) ==
  LET made == PrepareImage(b, stage, image) IN
  [stage |-> stage, digest |-> CalculateDigest(b, stage, image), ts |-> 0, parent |-> image.ts,
   info |-> made.info, files |-> made.files,
   ran |-> IF stage \in UserStages
           THEN [u \in DOMAIN image.ran \cup {stage} |->
                   IF u = stage THEN [files |-> made.files, deps |-> GetDependencies(b, stage, image)]
                                ELSE image.ran[u]]
           ELSE image.ran]

-----------------------------------------------------------------------------
(* Lookup and selection.                                                   *)

\* Mutant: whether the commit of the stage is in the clone is not asked.
IsAncestorOnly(b, g, image) ==
  AncestryCommit(image.info[g]) \in Ancestors[AncestryCommit(GetLatestCommitInfo(b, g))]

\* Mutant: any commit of the clone will do.
IsInClone(b, g, image) == AncestryCommit(image.info[g]) \in build[b].clone

IsOurAncestor(b, g, image) ==
  /\ AncestryCommit(image.info[g]) \in build[b].clone
  /\ AncestryCommit(image.info[g]) \in Ancestors[AncestryCommit(GetLatestCommitInfo(b, g))]

Suitable(b, stage, images) ==
  IF stage \in GitStages
  THEN {s \in images : \A g \in Mappings : IsOurAncestor(b, g, s)} ELSE images

\* Mutant: the newest.
SelectNewest(b, stage, images) ==
  LET suitable == Suitable(b, stage, images) IN
  {s \in suitable : \A r \in suitable : r.ts <= s.ts}

SelectSuitableStageDesc(b, stage, images) ==
  LET suitable == Suitable(b, stage, images) IN
  {s \in suitable : \A r \in suitable : s.ts <= r.ts}

GetStageDescSetByDigest(digest, prevTs) ==
  {s \in repo : s.digest = digest /\ prevTs <= s.ts}

Selected(b, stage, image) ==
  SelectSuitableStageDesc(b, stage,
    GetStageDescSetByDigest(CalculateDigest(b, stage, image), image.ts))

-----------------------------------------------------------------------------
(* A build goes through the stages of the image.                           *)

StageOf(b) == Chain[build[b].at]
AtStage(b) == build[b].pc = "stage" /\ build[b].at <= Len(Chain)
NextStage(b, image) == [build[b] EXCEPT !.pc = "stage", !.at = @ + 1, !.prev = image, !.made = None]

Start(b, i) ==
  /\ build[b] = Idle
  /\ Cardinality({c \in Builds : Running(c)}) < MaxRunning
  /\ build' = [build EXCEPT ![b] =
       [pc |-> "stage", at |-> 1, prev |-> FromImage, made |-> None, updates |-> 0,
        head |-> i.head, vm |-> i.vm, clone |-> i.clone, backend |-> i.backend]]
  /\ UNCHANGED <<tree, repo, clock, deletes>>

SkipEmptyStage(b) ==
  /\ AtStage(b)
  /\ ~Fails(b, StageOf(b), build[b].prev)
  /\ IsEmpty(b, StageOf(b), build[b].prev)
  /\ build' = [build EXCEPT ![b] = NextStage(b, build[b].prev)]
  /\ UNCHANGED <<tree, repo, clock, deletes>>

\* The stage is not empty and its digest can be calculated.
CalculateStage(b) ==
  /\ AtStage(b)
  /\ ~Fails(b, StageOf(b), build[b].prev)
  /\ ~IsEmpty(b, StageOf(b), build[b].prev)

UseStage(b) ==
  /\ CalculateStage(b)
  /\ \E s \in Selected(b, StageOf(b), build[b].prev) :
       build' = [build EXCEPT ![b] = NextStage(b, s)]
  /\ UNCHANGED <<tree, repo, clock, deletes>>

BuildStage(b) ==
  /\ CalculateStage(b)
  /\ Selected(b, StageOf(b), build[b].prev) = {}
  /\ ~CannotBeBuilt(b, StageOf(b), build[b].prev)
  /\ build' = [build EXCEPT ![b].pc = "made", ![b].made = NewImage(b, StageOf(b), build[b].prev)]
  /\ UNCHANGED <<tree, repo, clock, deletes>>

\* Under the lock of the digest: the stage was published meanwhile.
DiscardNewlyBuilt(b) ==
  /\ build[b].pc = "made"
  /\ \E s \in Selected(b, StageOf(b), build[b].prev) :
       build' = [build EXCEPT ![b] = NextStage(b, s)]
  /\ UNCHANGED <<tree, repo, clock, deletes>>

StoreStage(b) ==
  LET stored == [build[b].made EXCEPT !.ts = clock + 1] IN
  /\ build[b].pc = "made"
  /\ Selected(b, StageOf(b), build[b].prev) = {}
  /\ repo' = repo \cup {stored}
  /\ clock' = clock + 1
  /\ build' = [build EXCEPT ![b] =
       [NextStage(b, stored) EXCEPT !.updates = @ + IF stored.files # build[b].prev.files THEN 1 ELSE 0]]
  /\ UNCHANGED <<tree, deletes>>

FailStage(b) ==
  /\ AtStage(b)
  /\ \/ Fails(b, StageOf(b), build[b].prev)
     \/ /\ CalculateStage(b)
        /\ Selected(b, StageOf(b), build[b].prev) = {}
        /\ CannotBeBuilt(b, StageOf(b), build[b].prev)
  /\ build' = [build EXCEPT ![b].pc = "failed"]
  /\ UNCHANGED <<tree, repo, clock, deletes>>

EndBuild(b) ==
  /\ build[b].pc = "stage" /\ build[b].at > Len(Chain)
  /\ build' = [build EXCEPT ![b].pc = "done"]
  /\ UNCHANGED <<tree, repo, clock, deletes>>

\* A cleanup deletes a stage that no other stage and no running build is on;
\* StageFetch has the stages deleted under a build.
DeleteStage(s) ==
  /\ deletes < MaxDeletes
  /\ \A r \in repo : r.parent # s.ts
  /\ \A b \in Builds : Running(b) => build[b].prev # s
  /\ repo' = repo \ {s}
  /\ deletes' = deletes + 1
  /\ UNCHANGED <<tree, clock, build>>

Next ==
  \/ \E b \in Builds :
       \/ \E i \in Invocations : Start(b, i)
       \/ SkipEmptyStage(b) \/ UseStage(b) \/ BuildStage(b) \/ DiscardNewlyBuilt(b)
       \/ StoreStage(b) \/ FailStage(b) \/ EndBuild(b)
  \/ \E s \in repo : DeleteStage(s)

Spec == Init /\ [][Next]_vars

-----------------------------------------------------------------------------

\* State of the builds and of the stages.
TypeOK ==
  /\ tree \in Trees
  /\ clock \in Nat /\ deletes \in 0..MaxDeletes
  /\ \A s \in repo :
       /\ s.stage \in {Chain[i] : i \in DOMAIN Chain}
       /\ s.ts \in 1..clock /\ s.parent \in 0..(s.ts - 1)
       /\ s.files \in [Mappings -> Files]
       /\ DOMAIN s.ran \subseteq UserStages
  /\ \A b \in Builds :
       \/ build[b] = Idle
       \/ /\ build[b].pc \in {"stage", "made", "done", "failed"}
          /\ build[b].at \in 1..(Len(Chain) + 1)
          /\ build[b].head \in {i.head : i \in Invocations}
          /\ (build[b].made = None) = (build[b].pc # "made")

Done(b) == build[b].pc = "done"

\* The file is there although deleted: Buildah could not know that it is.
LeftBehind(p, content, latest) ==
  /\ latest = Absent /\ (content = EmptyFile \/ p \in Binary)
  /\ \E i \in Invocations : i.backend = "buildah"

AsLatest(p, content, latest) == content = latest \/ LeftBehind(p, content, latest)

\* Whatever stages of other commits a build has reused, the image it ends with
\* has the files of its own commit, except for empty and binary files that
\* Buildah left behind (git_mapping.go, git_latest_patch.go).
FilesOfHead ==
  \A b \in Builds : Done(b) =>
    \A g \in Mappings, p \in Paths :
      AsLatest(p, build[b].prev.files[g][p], tree[Latest(b, g)][p])

\* The instructions of a user stage in the image of a build have run on the
\* files of the build's commit as far as the stage depends on them, also when
\* the stage was built for another commit (user.go getStageDependenciesChecksum),
\* with the same exception for deleted files that Buildah leaves.
RanOnDependencies ==
  \A b \in Builds : Done(b) =>
    \A u \in UserStages, g \in Mappings : \A p \in StageDeps[u] :
      AsLatest(p, build[b].prev.ran[u].files[g][p], tree[Latest(b, g)][p])

\* Builds of the same commits from the same clones end with the same stage, in
\* whatever order they and others ran, unless stages were deleted
\* (base.go selectAncestorStageDescByGitMappings).
Reproducible ==
  deletes = 0 =>
    \A a, b \in Builds :
      (/\ Done(a) /\ Done(b)
       /\ build[a].head = build[b].head /\ build[a].vm = build[b].vm
       /\ build[a].clone = build[b].clone /\ build[a].backend = build[b].backend)
      => build[a].prev = build[b].prev

\* A build changes the files of git in at most one of the stages it builds,
\* for all that come after are on top of its commit.  The exception is a commit
\* that builds have also merged virtually: the commit and its merges reuse the
\* stages of one another (base.go selectAncestorStageDescByGitMappings).
UpdatedOnce ==
  \A b \in Builds : build[b] # Idle =>
    \/ build[b].updates <= 1
    \/ \E s \in repo, g \in Mappings :
         /\ s.stage \in GitStages
         /\ s.info[g].commit # Latest(b, g)
         /\ AncestryCommit(s.info[g]) = AncestryCommit(GetLatestCommitInfo(b, g))

\* A build does not fail for a commit that its clone does not have, except for
\* the commit that a reused virtual merge was merged into.
OnlyMergesMissed ==
  \A b \in Builds : build[b].pc = "failed" /\ build[b].at > 1 =>
    \A g \in NoBase(b, build[b].prev) :
      LET info == build[b].prev.info[g] IN info.vm /\ info.into \notin build[b].clone
=============================================================================
