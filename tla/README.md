# Verification of werf's build core

werf builds images stage by stage, publishes every stage to a container registry
under a tag made of a digest and a timestamp, and reuses stages that any other
builder has published. There is no database: the registry is the only shared
state, locks come from a separate service, and everything else is cached, in the
process, on the host or in git. This directory holds TLA+ models of the parts of
werf where that is hard, the TLC runs that check them, and TLAPS proofs about most
of them.

* [Inventory](#inventory)
* [Modules and the code](#modules-and-the-code)
* [Runs](#runs)
* [Bounds](#bounds)
* [Fairness](#fairness)
* [Proofs](#proofs)
* [Where the code and its documentation disagree](#where-the-code-and-its-documentation-disagree)
* [What is not modelled](#what-is-not-modelled)
* [Plan](#plan)

To repeat a check: `tlc -config PublishGit.cfg MCStagePublish`; the proofs about a
module `M` are in `MProofs` (those about `ClientElection` in `ParallelTasksProofs`, those
about `GitData` in `CleanupProofs`), and `tlapm MProofs.tla` checks them. `PROJECT.json` lists, for each
definition, the lines it stands for, and for each property a mutation of the model
that breaks it.

## Inventory

| Component | State it keeps | Operations | What is hard | What makes it correct |
|---|---|---|---|---|
| Stage publication (`pkg/build/build_phase.go`, `conveyor.go`) | stages in the repo, distributed lock per digest, in-process mutex per digest | look up, select, build, lock, look up again, store, unlock; copy from a secondary storage | builders on many hosts and images in one process interleave; builders die with the lock | one stage per digest and commit, all builders use it, no tag changes its meaning, nobody waits for ever |
| Stapel git stages (`pkg/build/stage`) | the commits in the labels of stages, their files | archive, patch, checksum of dependencies, digest, selection by ancestry | no digest has the current commit in it; stages of several commits are stacked | an image has the files of its own commit, and its instructions ran on the files they depend on |
| Tag-list cache (`pkg/docker_registry/docker_registry_with_cache.go`) | the last list of tags per repo, the running query | list tags, with or without cache | answers are shared between tasks and stored out of order | an old list must not lead to a second stage |
| Storage manager and repo storage (`pkg/storage`) | stages and rejection records in the repo, manifest cache on the host, cache repos, final repo, image metadata, custom tags | describe, select, fetch, reject, copy, link, tag, delete | images disappear between a check and a pull; retries meet stale caches | only lost stages are rejected, a chain of stages stays ordered, the retry ends |
| Planning (`pkg/config`, `pkg/dockerfile`, `pkg/build/image`, `conveyor.go`) | images, sets of images, a queue of Dockerfile stages | validate, select, group, map to platforms and stages, build set by set | graphs, several platforms, stages met at several levels | an image is built after what it is made from, each once, and planning ends |
| Task runner (`pkg/util/parallel`) | workers with output files, a printer, an error group | run numbered tasks on N workers, print in order | goroutines, cancellation, first error wins | every task once, failures reported, output complete |
| Synchronization service (`pkg/storage/synchronization`) | client-ID records in the repo, locks per client ID in the server | choose a client ID, lock, unlock | read-then-post without atomicity, clocks | everybody uses the same locks |
| Cleanup (`pkg/cleaning`) | protected stages, metadata, imports, custom tags | protect by Kubernetes, git history, age and keep list, protect relatives; delete the rest | works on a snapshot while builders publish; may stop anywhere | what is used, new or needed stays; nothing useless stays |
| Git-history policies (`pkg/cleaning/git_history_based_cleanup`) | reached stages, stop commits, hit commits | choose references, scan their history | early ends and stop commits, records deleted by the last cleanup | what the policies promise is kept, and again next time |
| Host cleaning (`pkg/host_cleaning`, `pkg/storage/lrumeta`) | local images, containers and locks, access times | prune, remove the least recently used | races with builds that use an image; unsigned usage | an image in use is not removed, the oldest go first and no more than needed |
| Work trees (`pkg/true_git`) | one work tree per repository, the record of its commit, the service branch | archive, patch, merge, commit of dev mode | kills between git commands | whoever uses the tree finds the commit it asked for |
| Git data (`pkg/git_repo`, `gitdata`) | archives, patches, clones with their access times | get, make, clone, collect | a path is used after the lock is released | a file handed out stays; a clone is whole |
| Container backends, registries, giterminism, deploy, helpers | – | adapters, parsing, I/O | – | – |

How they interact: the configuration becomes sets of images (`ImagePlan`); the
conveyor runs `DoTasks` (`ParallelTasks`) over the images of a set; each task goes
through the stages of its image (`GitStages`) and calls the build phase for each
(`StagePublish`), which asks the storage manager for descriptions and images
(`StageFetch`) and takes a lock from the synchronization service
(`ClientElection`). Stages with files of git read archives and patches from the
cache of the host (`GitData`), which makes them in a work tree (`WorkTree`). An
unusable image unwinds all of this with `ErrUnexpectedStagesStorageState` and the
retry wrapper starts a new conveyor. `Cleanup`, which asks `GitHistory` what to keep,
and `HostCleanup` change the registry and the host at any moment.

`PROJECT.json` lists the main hazards at their lines, with the properties meant to
catch them. Others that were met, none of which a property is about: rejections are
recognised by timestamp alone (`repo_stages_storage.go:249`); `DoTasks` leaves workers
running when one of them cannot be created (`parallel.go:55`); the first caller of a
project gets a Kubernetes locker without retries (`lock_manager/kubernetes.go:72`);
`SharedHostImagesLocks` is appended to without a lock (`storage_manager.go:367`), and
`baseImagesRepoErrCache` is written under a mutex of another name than the one it is
read under (`conveyor.go:217`); the list of final stages (`storage_manager.go:633`) and
the check for a link of a commit (`build_phase.go:478`) read cached lists.

## Modules and the code

One module per component, an `MC` module with its instances and eight modules
`...Proofs`, three of which are about two components each: the names of `ClientElection`,
`GitData` and `GitHistory` (`ElectionSpec`, `DataSpec`, `HistorySpec`) differ from the usual
ones for this. `StagePublish`
extends `Stages` and is shown to implement `StageStore`. The other modules meet at
a fact that one shows and the other takes for granted: `GitStages` looks up and
publishes a stage in one step, which is what `StageStore` says of `StagePublish`;
`StageFetch` and `GitStages` have stages deleted as `Cleanup` deletes them;
`Cleanup` leaves open which stages git history reaches, which is the result of
`GitHistory`; `WorkTree` and `GitData` share the lock `git_data_manager`, which each
models by letting its collector run only between requests.

### Stages, StagePublish, StageStore

A task is one call of `BuildPhase.onImageStage`. Its program counter follows the
code: `Begin` takes the digest mutex in `calculateStage`; `LookupCached`, `Query`,
`ListTags`, `Deliver` and `ReceiveLookup` are the first lookup, in which the
storage manager asks the registry only if the cached list gives nothing;
`ScanSecondary` and `CopyFromSecondary` are the search of secondary storages;
`Build` holds no lock; `LockStage`, the second lookup (`Query` ... `Recheck`),
`StoreImage` and `Unlock` are `atomicBuildStageImage`. Queries go through one
`flight` per process, as with singleflight: whoever asks while one is running joins
it, also after the registry has fixed the answer. `QueryFails`, `BuildFails`,
`LockFails` and `StoreFails` are the error paths, with the releases that the
deferred functions make, and the one they do not make: a lookup that fails leaves the
digest mutex locked. `ReceiveLookup` stores its answer as the list of the process, even if
a later query has stored a younger one meanwhile. A failed store may have left its tag.
`Crash` ends all tasks of a process and keeps their locks until `LeaseExpires`.

A stage is a record of digest, timestamp, commit and the timestamp of its parent.
For a stage that depends on git `Ancestors[c]` holds the commits whose stages `c`
may reuse; for any other stage it holds all commits. A timestamp is the clock of the
host: `now` advances with each store, since a push takes longer than a millisecond, and
`Skew` puts a host ahead. Another host may thus give a digest an earlier timestamp than
one that is there, or the same, in which case the tag is overwritten.

Two history variables let the properties say how a stage came. `ledger` has an entry for
every publication: by whom, when, and whether the builder `looked` (the registry
listed its tags for the second lookup while the builder had the lock), was `blind` (the second
lookup was switched off, or joined a query that had been answered before), `copied` from a
secondary storage, or copied over itself (`recopied`); the stages of the start have entries
too. `looked` is the set of tasks in the first case. From them:

* `CouldUse(r, s)`: the builder of `r` might have used `s` instead; `BroughtUnseen`: the
  task published blind or by a copy; `CameAfter`: `s` came after what `r`'s tag names.
* `OutOfTurn(ledger, s, r)`: `s` came after `r` without being younger, which only a copy or a
  host whose clock is behind can do.

The four safety properties hold for all but the stages that came unseen or out of turn, each
saying which of the two matters to it. In particular a builder that has looked never
publishes a twin, whatever other builders do with copies, shared queries or clocks.
`EveryTaskEnds` excepts a task that waits for a mutex which a failed task has left locked.

`StageStore` is what a user is promised: one step that looks at the whole repo and
gives a suitable stage than which only later comers are older; if there is none it adds a new
one, and a builder that is blind or copies may add one anyway.
`StagePublish` implements it with `repo`, `used` and `ledger` as they are.

### StageFetch

One process per builder of an image of `Len` stages, whose digests are their
positions. The action names follow `FetchStage` and `doFetchStage`. The model
keeps the list of tags of the process across a retry, and the manifest cache of
the host for ever, as the code does. `DeleteImage` and `DeleteRecord` are the two
requests of `DeleteStage`; `LoseLayers` is what `IsErrBrokenImage` recognises.
Publication is one step here, which is what `StagePublish` is about. The variables
`issued`, `dead` and `losses` only record history. The clock starts after the stages
that are there at the start (`FetchAssumption`).

### ParallelTasks

`DoTasks` with its workers, the error group, the printer, the swap and the second
print. The number of tasks and the limit are chosen in `Init`, so a run covers all
of them. A line of output is represented by the worker that wrote it. Writing to
the file after its deferred close in `NewWorkerFails` has no effect.

### ClientElection

`GetHttpClientID` and the handlers of the server, one set of locks per client ID.
Records are read in the order of the registry's list of tags (`Rank`), which
decides between equal timestamps. `PostTime` is the longest time from the timestamp
of a record to its appearance.

### GitStages

Builds with a head commit, a clone and a backend each walk through the stages of
one stapel image. For each stage `IsEmpty`, `CalculateDigest`,
`SelectSuitableStageDesc` and `PrepareImage` follow the functions of those names,
with their errors (`Fails`, `CannotBeBuilt`). A stage carries the labels (the commit
of each mapping, and of a virtual merge its parents), the files of the image, and,
for user stages, the files their instructions ran on with the ones in the digest. `Patch` is computed per path
from the trees of two commits; Docker applies it with `git apply`, which fails on a
path that is not as the patch expects (`PatchDoesNotApply`), and Buildah copies the
changed files and removes `PathsToRemove`. `BuildStage`, `DiscardNewlyBuilt` and
`StoreStage` are the build and both ends of the second lookup.

### GitHistory

`ApplyPolicy` chooses references policy by policy. The references are scanned one after
another, tags first and the oldest first (`ScanOrder`): `ScanReference` puts the head on
the first level, `ScanCommit` handles one commit of a level, `ScanParents` goes on to the
next level, and `ScanReferenceHistory` saves what the scan leaves after the limit.
`CleanupImageMetadata` keeps the records that were hit, and some of the rest when
deletions fail; then a cleanup starts again from what is left (`Again`). `Promised` is the declarative reading of the
policies that the scan is checked against.

### Cleanup

The phases follow `cleanupManager.run`: list, Kubernetes, git history, age and keep
list, relatives, custom tags, metadata, stages, imports, final repo. Each deletion
may fail, and `RunAgain` starts another cleanup wherever the last one was cut short.
Image metadata links a stage, an image and a commit. `ScanReferencesHistory` handles one
image of `werf.yaml` that has a record of a listed stage (`ToScan`): what it hits is
protected, and its other records are to be deleted, one by one beside the scans of other
images (`RmImageMetadata`), where a failure is passed over. At last the records of
images that are not in `werf.yaml` go (`CleanupNonexistentImageMetadata`). An image whose
recorded stages are all gone is not visited, so its records stay (`Orphaned`).
The build publishes or reuses a stage (`Build`), copies (`PublishFinalImage`) and links
it (`PublishImageGitMetadata`), moves the custom tag (`AddStageCustomTag`), registers
it (`RegisterStageCustomTag`), and may deploy (`Deploy`).
With `byManifest` a tag is deleted with everything that has its manifest. A build may
move several custom tags one after another and deploy after any of them.
`CleanupAssumption` says that an image index has no parent, imports or dependencies of
its own, since its description is read without them (`docker_registry/api.go:148`).
The recursive walk from a protected stage over its relatives is written as the smallest
set closed under them (`Handled`).

### HostCleanup

The builds lock a tag (shared), look whether the image is there, pull it, record
the access, and run a container under a lock of its own. The cleaner measures,
prunes volumes, images and containers by reports that are subtracted modulo
`2^Width`, sorts the images by access and removes them in batches, trying each lock
and releasing it before the removal. `accessed` records when each tag was really
accessed; the access of an image is the latest of the tags that it still has.

### ImagePlan

`Validate`, `Select`, `Group` (a round of `GroupImagesByIndependentSets`), the mapping
of images and Dockerfile stages with its queue (`TakeImage`, `MapImage`, `MapStage`),
the merge of the sets of several platforms (`MergeStages`, `NextGroup`), and the
batches of `doImages`, whose images start and end in any order (`StartImage`,
`EndImage`, `EndSet`, `EndImages`). Configurations are enumerated: graphs of images, staged
Dockerfiles, platforms and patterns of the command line.

### WorkTree

`prepareWorkTree` step by step: look at the record, remove it, switch, clean,
update submodules, write the record; then the use of the tree by archives, patches
(with their retry), merges and the service branch of dev mode. `Kill` is enabled at
every step, and a command may fail at every step. The collector may be killed
within the directory.

### GitData

`GetArchiveFile` and `CreateArchiveFile` (patches are alike), `Remote.Clone` in two
parts, `RunGC`. Metadata is written before the data is renamed into place and may
be torn by a kill. So may the record of access to a clone, which is written in a step of
its own (`SeeClone`) after the clone was found, by every process that uses it:
`ListAndRemoveInvalid` then removes the clone, or the temporary one, at once and whatever
its age. `held` records when a process was given a path, and `clonedAt` the
access that is recorded in the clone that it was given; a clone made under two names at
a time may have none. `lost` are the processes whose clone was removed because
another one was killed while it recorded its access. A
time of access that is missing reads as time zero, as `GetWerfLastRunAtV1_1`
expects of the same function.

## Runs

| Run | States | Shows |
|---|---|---|
| `publish_git` | 351 000 | two images of one process and an image of another host, three commits, one digest, an old stage that suits one task, a fourth image that shares the queries of the second host, the clock of the first host ahead, failures and crashes: `PublishedOnce`, `EveryoneReuses`, `SelectionStable`, `TagNeverOverwritten`, and that the protocol implements `StageStore` |
| `publish_secondary` | 318 000 | two images of a process copy a stage from a secondary storage that another host, which builds the same digest, has not got, next to a build of another digest without second lookup; the digest mutex is waited for, and leaked: `PublishedOnce`, `EveryTaskEnds` |
| `fetch` | 425 000 | a build and a command that runs the image, on two hosts with a cache repo and warm or cold manifest caches, while an image is deleted or broken: `ChainOrdered`, `NotResurrected`, `RejectsOnlyLost`, `BuildsEnd` |
| `tasks` | 579 000 | up to three tasks, with and without limit: `TasksOnce` (and never more than the limit at a time), `ErrorsSurface` (and no worker is left running), `AllPrinted` (and the failed worker comes last), `DoTasksReturns` |
| `election` | 219 000 | three processes of a new project: `Agreement`, `ExclusiveOnceSettled` |
| `git_stages` | 732 000 | three builds of a main branch, a branch, its virtual merge and a library, from complete and incomplete clones, with both backends, while a stage is deleted: `FilesOfHead`, `RanOnDependencies`, `Reproducible` (builds of one commit end with one stage), `UpdatedOnce`, `OnlyMergesMissed` (a build fails only where a virtual merge cannot be made again) |
| `history` | 1 543 000 | two branches and a tag over lines, forks and merges of four commits, five sets of policies, two cleanups: `PromisedAreKept` (and nothing is kept without a reason), `CleanupIsIdempotent` |
| `cleanup` | 7 389 000 | a cleanup beside a build, and cleanups cut short and run again: `UsedStagesStay`, `RelativesStay`, `NewStagesStay`, `NothingDangles` |
| `host` | 578 000 | two builds, killed or not, beside a cleanup of two images, one with two tags: `LockedImagesStay`, `LeastRecentlyUsedFirst`, `RemovesOnlyAboveTarget`, `CleanupEnds` |
| `plan` | 677 000 | configurations of up to three images, staged Dockerfiles of up to four stages, two platforms: `NeededBuiltFirst`, `PlanIsExact`, `BuildEnds` |
| `worktree` | 628 000 | two processes, three requests, a kill at any step, failing commands, edits of the user: `PreparedIsCommit` (its submodules included), `ServiceCommitIsSource`, `EveryRequestEnds` |
| `gitdata` | 672 000 | two processes, two keys and a clone under two names, kills and two collections over time: `FilesAtHand`, `ClonesWhole` |

Every module has a `TypeOK`. They are not listed with the runs, which are about what
could really go wrong, but hold in each of them; they are there for the proofs.

Where a property has an exception, its comment names the code that makes it
necessary; without the exception TLC gives a counterexample. These are listed under
[disagreements](#where-the-code-and-its-documentation-disagree).

## Bounds

* `StagePublish`: four tasks of two processes; three build one digest, two of them in one
  process, so that there is somebody to wait for the mutex, somebody to race for the lock
  and somebody who comes later; the fourth shares a query with one of them. One host is
  ahead by `Skew`, which is enough to give a stage an earlier time than one that is there, or
  the same; one process has a secondary storage. The model has no bound on time; every task
  stores at most once.
* `StageFetch`: two stages (a parent and a child are what ordering and fetching
  are about), two processes, `MaxLosses` images deleted or broken, `MaxTs` values
  of the clock, large enough that every rebuild that the losses can cause gets a
  timestamp. The safety properties were also run with two losses.
* `ParallelTasks`: `MaxTasks`, `Limits` and `MaxLines`. Two workers with one line
  per task are enough for a printer that stands before, at or after the failed
  worker; three tasks on two workers leave a remainder, and the limits -1 and 0
  mean none. The sharing out of tasks was also run with five tasks on up to three
  workers.
* `ClientElection`: three processes (two that post and one that reads in between),
  `MaxTime` bounds when processes may start, `PostTime < Sleep`.
* `GitStages`: three builds, `MaxRunning` of them at a time, one deletion
  (`MaxDeletes`). Two builds leave stages of different commits behind, also of
  diverged ones, and the third stacks its own on them. The trees are chosen so that a
  file comes back to an earlier content, a deleted file is empty, one is binary, and
  the dependency of the user stage changes with and without the rest. Builds are
  interchangeable before they start, hence the symmetry.
* `GitHistory`: four commits are enough for a merge with a fork, two stages for a
  limit of one to choose; a stage has at most `MaxCommits` records; two rounds.
* `Cleanup`: every kind of relation between stages once (parent, import, dependency,
  platform), tags that are right, moved, or left behind, two images of which one is no
  more in `werf.yaml`, records of an image none, one or all of which are of stages
  that are gone, two rounds.
* `HostCleanup`: two images, three tags; sizes are such that removing one of them is
  enough or not, and `Width` and a report larger than the volume make the usage wrap.
* `ImagePlan`: all graphs of three images, Dockerfiles in which a stage is needed at
  two levels, with other images around them.
* `WorkTree`, `GitData`: three requests, so that what two leave behind meets a third,
  and one kill. `KeepFor` is one unit of `MaxTime` two, so an entry is young, old, or
  old and accessed again.

Symmetry is used in `git_stages` only: elsewhere processes differ in commit, host or
place.

## Fairness

Weak fairness of the steps of each live task, process or goroutine: the Go
scheduler runs a runnable goroutine, a registry request or a git command returns,
and a free lock is granted to somebody who waits. Failure, crash, kill, deletion and
cancellation are never forced: they are outside the fair actions, or alternatives
within one that the fairness does not choose. `LeaseExpires` is fair because lockgate
gives locks a lease; host locks are released by the kernel when their holder dies.
`Tick` is not fair in `HostCleanup`, where nothing waits for the clock. `ParallelTasks`
also assumes that a task function returns, without which `DoTasks` cannot.
`ClientElection`, `GitHistory`, `Cleanup`, `GitStages` and `GitData` have no liveness
property and no fairness. Deadlock is checked except where the bounds on
requests or builds end the run.

## Proofs

TLC looks at small instances; the theorems hold for all values of the constants that
satisfy the `ASSUME`s, that is, for any number of tasks, processes, stages, tags or
files and any bounds. Properties are seldom inductive, so each proof module defines an
invariant that is, usually `IInv`, shows that `Init` implies it and every action keeps
it, with a lemma for each action or group of actions, and takes the properties from it;
TLC found no violation of these invariants on the instances of the runs either (of that
of `ImagePlan`, which is stated with unbounded quantifiers, of its finite parts only).

| Module | Theorem | Property | Hypothesis |
|---|---|---|---|
| `StagePublishProofs` | `TypeCorrect` | `TypeOK` | – |
| | `OnlyOneLayer` | `PublishedOnce` | – |
| | `AllReuse` | `EveryoneReuses` | – |
| | `NoOverwrite` | `TagNeverOverwritten` | – |
| | `StableSelection` | `SelectionStable` | – |
| | `Refinement` | `ImplementsStageStore` | – |
| `StageFetchProofs` | `ChainsOrdered` | `ChainOrdered` | – |
| | `DeadStayDead` | `NotResurrected` | – |
| | `OnlyLostRejected` | `RejectsOnlyLost` | – |
| `ParallelTasksProofs` | `EachTaskOnce` | `TasksOnce` | – |
| | `FailuresReported` | `ErrorsSurface` | – |
| | `EverythingPrinted` | `AllPrinted` | – |
| | `AllAgree` | `Agreement` of `ClientElection` | `SleepsLongEnough` |
| | `Exclusion` | `ExclusiveOnceSettled` of `ClientElection` | `SleepsLongEnough` |
| `ImagePlanProofs` | `BuiltInOrder` | `NeededBuiltFirst` | – |
| | `PlansAreExact` | `PlanIsExact` | – |
| `GitStagesProofs` | `ImageHasFiles` | `FilesOfHead` | the image has a `gitLatestPatch` stage |
| | `InstructionsRanOnDependencies` | `RanOnDependencies` | – |
| | `OnlyMergesAreMissed` | `OnlyMergesMissed` | `LabelsTold` |
| | `BuildsAreReproducible` | `Reproducible` | `LabelsTold`, `MergedInClone` |
| | `FilesUpdatedOnce` | `UpdatedOnce` while nothing is deleted | `VirtualApart` |
| `CleanupProofs` | `UsedStay` | `UsedStagesStay` | – |
| | `RelativesProtected` | `RelativesStay` | – |
| | `NewStay` | `NewStagesStay` | – |
| | `NoRecordsDangle` | `NothingDangles` | – |
| | `TypeCorrect` | `DataTypeOK` of `GitData` | – |
| | `HandedOutStays` | `FilesAtHand` of `GitData` | – |
| | `CloneIsWhole` | `ClonesWhole` of `GitData` | – |
| `HostCleanupProofs` | `UsedImagesStay` | `LockedImagesStay` | – |
| | `OldestImagesFirst` | `LeastRecentlyUsedFirst` | – |
| | `FreesOnlyAboveTarget` | `RemovesOnlyAboveTarget` | – |
| `WorkTreeProofs` | `PreparedTrees` | `PreparedIsCommit` | – |
| | `ServiceCommits` | `ServiceCommitIsSource` | – |
| | `HistoryTyped` | `HistoryTypeOK` of `GitHistory` | – |
| | `PromisesHold` | `PromisedAreKept` of `GitHistory` | – |
| | `CleanupSettles` | `CleanupIsIdempotent` of `GitHistory` | – |

The theorem `Invariance` of a module, where there is one, states its `IInv` (and, of `Cleanup`,
`UnlinkInv`).

### StagePublish

The theorems have no hypothesis: any number of digests in a process, shared queries,
secondary storages, processes without the second lookup and skewed clocks are all
covered. What these do to a promise is in the property as an exception. `IInv` has,
besides the types,

* `LockInv`: from `LockStage` to `Unlock` a task holds the lock of its digest, so no
  two tasks of a digest are in the critical part;
* `FlightInv`: those who wait for a query belong to its process;
* `LookedInv`, `FreshInv`: a task has looked only after it got the lock; the list that it
  is given is complete for its digest, since nobody else can publish the digest
  meanwhile; hence nothing is in the repo that it could use when it stores. This gives
  `PublishedOnce`;
* `LedgerInv`, `RepoLogged`, `UniqueTags`: entries come from the past, copies are older
  than every new stage, and a new stage is no younger than its builder's clock was; a tag
  names one stage;
* `NamedInv`: the name of a stage that is about to be stored was read under the lock, so it
  is younger, on the clock of its builder, than the publications of the digest so far;
* `ListsInv`: every list of tags anywhere, however old, is a *snapshot*: it lacks no
  stage that is older than one it has, unless that came out of turn. This is why an old
  list can be used for the first lookup;
* `UsedInv`: a stage is set only at the end of a task; and `PublishedOnce` and
  `EveryoneReuses` themselves.

The heart is `NewOutOfTurn`: a publication that is not younger than a stage of its digest is a
copy, or its builder's clock is behind the one of that stage; no other way is left by
`NamedInv` and `LedgerInv`. Refinement and the action properties follow from it with
`IInv` and one step.

### StageFetch

`RepoInv`: an ID is issued once and with the time of the clock, so what was deleted
does not come back. `PositionInv` and `OrderInv`: a chain has issued stages up to the
position of its process, none older than the one below, since a lookup asks for stages
no older than the parent and a new stage is as young as the clock. `DeadInv`: the list
of tags that a process keeps was made after its start and has none of the stages that
were gone then. `LostInv`: what a process is about to reject is deleted or broken, or
rejected already.

### ParallelTasks

The shares of the workers are intervals: `calculateTaskId(w, i)` is `i` plus the sum of
the shares of the workers before `w`, which has a closed form in the quotient and the
remainder, and the lemmas on it show that the intervals tile the tasks. `WorkerInv` and
`StartedInv` relate a worker to the tasks it has started, `CallInv` and `ErrorInv` the
phases of the call, the error group and the cancellation. `PrinterInv` says in which
order the printer takes the workers, in its first run and in the second, where the
failed one may have been swapped to the end, and that it leaves a worker only when that has
nothing to show; `LastInv` that lines of the failed worker come last.

### ClientElection

At the end of `ParallelTasksProofs`; it is what the one lock of a digest in `StagePublish`
rests on. `SleepsLongEnough`: `Skew[p] + PostTime < Skew[q] + Sleep` for all `p`, `q`; the sleep
between the post and the second read is longer than a post takes, also by clocks that
differ. The code has no such bound: a post that takes longer than the sleep, or clocks
that are further apart, break the agreement, as TLC shows. The heart is `DecidedInv`: the
client ID of whoever counts belongs to a record that is the oldest there is *and that no
post to come will precede*: posts on their way and processes about to post have younger
timestamps. `RecordTimesInv` bounds these timestamps.

### GitStages

The parts of `IInv` are about stages and records of builds; of the variables only the
history is in them. `FilesOK`: the files of a stage are those of the commits in its
labels, but for what Buildah left behind (`AsLatest`); a patch, made by either backend from
a base that may be a virtual merge made again, keeps it (`PatchedFiles`). `RanOK`: the
instructions of a user stage ran on the files in its digest. `ParentOK`: every stage was
made on a stage that is still there and whose digest and commits are in its own digest.
`Same` is the heart: stages of one digest have the same dependencies of their user stages,
and what they add to the next digest tells their commits apart, although the commits are
counted without their order (`CountsTellCommits`, by `MappingsAssumption`). Hence a build
that takes a stage of somebody else, on another stage with the digest of its own, stands
where it would stand had it built the stage itself (`Advance`): the user stages below ran
on what this build has of their dependencies, and above `gitLatestPatch` the commits have
the files of its own, since equal patches from one commit lead to equal files (`PrevOK`).

An artifact has no `gitLatestPatch` stage (`IsGitAfterPatchDisabled`), and its image keeps
the files of the commit that its last git stage was built from; hence the hypothesis of `ImageHasFiles`.
`LabelsTold` is `GitStagesFirst` or `VirtualApart`. `GitStagesFirst` says that no stage of
imports or dependencies comes between the git stages: such a stage is selected without a
look at the commits in its labels, so the labels may name a virtual merge that the clone
has not got. `VirtualApart` says that no commit is built both as a virtual merge and
otherwise; then the labels do not matter. `CloneInv`: the commit of a reused git stage is in
the clone or the build's own.

`Reproducible` compares the ends of two builds, and the state does not keep how a build got
there. `PathsInv` puts the way back: as long as nothing is deleted, the stages a build went
through are those that a lookup in the repo *as it is now* would find, one after another
(`PathInv`). A stage that is selected stays selected as the repo grows, since times are unique
and a later stage is younger (`TimeInv`), and a new stage is the one that would be selected for
its own build (`MadeInv`). Two builds of the same commits thus go through one path: at the least
place where they differed both would have been selected (`SamePaths`). `MergedInClone` says that
a clone has the commit that is merged virtually in it; without it one build may find a
stage of that commit and another, whose clone lacks the other parent, fail.

`UpdatesInv` counts the stages in which a build changes files: after the first change the
stage at hand has the commit of the build, or the repo has a stage of another commit of the
same ancestry commit (`OnceInv`), because the commits of a stage are descendants of those of
its parent (`KinInv`) and no commit is an ancestor of its ancestors (`HistoryAssumption`). The
witness of the exception may itself be deleted, after two deletions: hence `deletes = 0` in
`FilesUpdatedOnce`.

### ImagePlan

The properties are about a Dockerfile that is planned as it is written (`AsWritten`, the
exceptions being two differences below); of a configuration they assume what its
validation and its types ensure (`ConfigsAssumption`). `Inv` has a part for each phase.

* `Rounds`: while images are grouped, what is not left to handle is in the groups with all
  that it needs, and no image needs one of its own group or of a later one (`Grouped`). A
  round takes the images whose relatives are all grouped, so this is kept.
* `Mapping`: while groups are mapped, the builder holds the images of the pairs of image
  and platform that are settled, each once, in sets in which everything an image needs
  comes before it, those of earlier groups in its first `curSetInd` sets (`Holds`).
  `MergeImagesSets` lays the sets of one image over those of the group from `curSetInd`
  on; since images of a group do not need each other the order stays (`MergeHolds`).
* `Walk`: while the stages of a Dockerfile are walked. The queue has items of the level of
  the last set and of the one after it (`WalkLevels`). What a stage in a set is made from is in an earlier set,
  or queued with a level that will take it there (`WalkNeeds`): a stage met again at a
  deeper level is removed from its set and appended to a later one, which `ret`, prepended to
  in the code, has earlier (`AppendMoves`). No set is left empty by such a move, because every
  set has a stage that keeps a stage of the next one in its place (`WalkUsers`).
* `Ready` and `Progress`: when the walk is over (`WalkEnds`), the sets are those of the
  plan, the batches before the current one are built, and what a running image asks
  `GetImage` for was found.

The library's `FlattenSeq` is a recursive function; what it computes (`FlattenIs`) and
that each element keeps its place in the order (`Flattens`) is again proved by a least
counterexample.

### Cleanup

`KeepInv`: until deletion begins, what the cleanup manages is in the repo, and what it
protects stays. `WalkInv` is the argument on relatives: what has been walked over is
protected and closed under ancestors (and under sources as long as no stage is kept by
git history), and what is protected has been walked over or belongs to a reason whose
walk is still to come, in whatever order. `TagInv` follows a custom tag and its record
through the steps of the build and the cleanup, `NewInv` what can be known of a stage
that was published after the listing, `RecordInv` which custom tags and imports are left
to delete. `UnlinkInv` follows the image metadata: of an image that was scanned a linked stage is
protected or its record is about to go, and after the policy this is so of every record
but the orphaned ones.
`TagsNameTheirStage` in the properties excludes the difference on custom tags below.

### HostCleanup

Three invariants. `LockInv`: while the cleaner is about to remove a tag, everyone who has
it locked came after the test of the lock (`WindowInv`). `OrderInv`: the records are those
of the accesses (`RecordsInv`), the list is sorted by them (`ListInv`), and what was
removed stands before the image at hand (`RemovedInv`). `UsageInv`: the volume is used as far as
the cleaner has counted, or further, and while a batch is removed the images left in it but the last
do not take it down to the target (`VolumeInv`); for this the list has each image once
(`PlaceInv`), and tags that the cleaner has not come to are still there (`PendingInv`). Sizes are
summed over sets, a fold; what is needed of it (a sum over an interval splits, and grows with
the interval) is proved by induction in the form of a least counterexample, which the
provers can do since it takes no operator as a parameter.

### WorkTree

`LockInv`: one process is past the lock. `RecordInv`: the record, if there, names what
the tree holds. `Progress`: from before a process touches the tree until after, the
record is away, and what the process has made of the tree so far. A kill may happen at
any step, since the invariant holds between any two.

### GitData

At the end of `CleanupProofs`.
`WriterInv`: who writes an entry holds its lock. `HeldInv` and `SeenInv`: a path that was
handed out less than three hours ago is there, is not about to be removed, and its
metadata is as young as the path; and a clone in which a live process that is not `lost`
has recorded its access is there, with an access no older or with a cut-off record; these
hold because the collector decides while it alone holds the lock of the git data.
`OneCloner`: one process at a time clones, and what it has written is in the temporary
directory.

### GitHistory

At the end of `WorkTreeProofs`. The properties themselves say when the dates and the records
leave a cleanup no choice (`DistinctAges`, `DistinctDates`, `Unambiguous`); the theorems have no
other hypothesis.

* `PolicyInv`: the references selected so far are those the policies select as `werf.yaml`
  states them, each with the limit of the last one (`PolicySelects`: of references of
  different ages, the first `last` are those with fewer than `last` younger ones).
* `ScanInv`: what was found are commits of the reference with a record that is sought. As long
  as no stop commit is left, either every commit of the history was scanned or is still to be
  visited (`Covered`), or all stages that are sought were found (`AllFound`); and in a line the
  scan goes from the youngest commit to the oldest (`InLine`). So at the end of a scan
  the newest commit of every promised stage was found (`ScanFinds`), although it ended early.
* `StopInv`: a stop commit is left only when every stage that has a record is reached. Hence a
  later scan that it cuts short has nothing left to save.
* `KeptInv`: what the policies promise for the references already scanned is reached;
  `AskedInv`: what is reached, a selected reference asks for.

`CleanupIsIdempotent` compares two cleanups of which the second has fewer records. `Kept` gives
the stages kept for a reference in terms of the records, and `SavedInv` says that a cleanup
saves those and hits each on its newest commit (`FullyHit`), or has saved all there are.
A record that was hit is not deleted, and without the others `Kept` is the same
(`DeletingChangesNothing`, `KeptStable`): a stage that is kept has its newest record still, and
one that is not kept can only lose records. `StableInv` carries this from the first cleanup
to the later ones.

### Only model-checked

* All liveness (`BuildsEnd`, `DoTasksReturns`, `EveryRequestEnds`, `CleanupEnds`,
  `BuildEnds`, `EveryTaskEnds`), which is out of the prover's reach.

## Where the code and its documentation disagree

Met while modelling. Those that bear on a property appear as an exception in it, or, where
this is said, as a choice of constants that leaves the case out; each was seen as a TLC
counterexample with the exception or the choice removed, unless it says otherwise.

Publication and fetching:

* `docs/pages_en/usage/build/process.md:93` promises that only one layer is
  published. The lookup under the lock goes through singleflight and may be given the
  answer to an older query of another image of the process; a stage that was published
  in between gets a twin (`docker_registry_with_cache.go:72`; the builder is "blind" in
  `PublishedOnce` and `EveryoneReuses`).
* The same promise: a stage of a secondary storage is copied under the lock, but
  without another look at the primary storage (`build_phase.go:740`; "copied" in the same
  properties, and in `OutOfTurn`).
* `process.md:40` promises that a tag is never overwritten. The loop that should look
  for a free timestamp continues the wrong loop (`storage_manager.go:961`), so
  uniqueness rests on the clocks (`Behind`, the exception in `TagNeverOverwritten` and
  `SelectionStable`).
* When the lookup fails the digest mutex stays locked, and another image with that
  digest waits for it beyond any cancellation (`build_phase.go:606`), which
  `pkg/util/parallel/parallel.go:27` promises (the exception in `EveryTaskEnds`).
* `process.md:94` says that the process continues until all layers are built. A command
  that fetches the last stage at the end retries for ever when it is lost: the cached
  list has the stage and not the rejection.
* Rejections are matched by timestamp (`repo_stages_storage.go:249`), so a rejected
  stage of another digest hides a stage created in the same millisecond (read, not
  run).
* A process that reads the client-ID records between two posts uses other locks than
  the rest (`http_client_id.go:25`; `process.md:437`).
* The comment in `DoTasks` (`parallel.go:103-112`) describes what is printed after a
  signal or a failure. After a signal nothing more is printed if all tasks end well
  (the exception in `AllPrinted`). When the active worker is the one that failed, the
  comment says that the logs of the rest are discarded (lines 110-112); the code calls
  `Print` for all the same (line 124), which shows them. `AllPrinted` states what the
  code does; TLC refutes that nothing is shown after the failed worker in that case.

Git stages:

* Buildah leaves deleted files in the image if they are empty or binary, since
  `PathsToRemove` is filled from the `--- a/` line only (`diff_parser.go:411`); a
  Docker build on such a stage that adds the file again fails in `git apply`.
* A stage built from a virtual merge and one built from the branch reuse each other,
  so files are updated in two stages where one is said to suffice (the exception in
  `UpdatedOnce`), and a clone of the branch that lacks the other parent cannot build on
  such a stage (the exception in `OnlyMergesMissed`).
* The commits of mappings are sorted before they are hashed (`base.go:209`);
  `MappingsAssumption` leaves out two mappings of one repository (read, not run).

Planning:

* `NewDockerfileStage` drops the index that the comment at `buildkit_dockerfile.go:51`
  counts on, so stages without a name share one.
* The validation of loops does not look at `from`; the grouping into sets then goes on
  for ever (the exception in `BuildEnds`).
* The error of `SetupDockerfileStagesDependencies` is dropped, so `COPY --from` an
  image of a registry loses the dependencies that follow it.
* The validator of platforms uses the platform of the process where the build uses
  `build.platform`, and does not look at `from`; `GetImage` then panics (`PlatformsAgree`).

Cleanup:

* Final stages are protected if they are *not* found in the repo (`cleanup.go:945`).
* A custom tag is moved before its record; a registry that deletes by manifest can
  take a stage in use with the tag (`TagsNameTheirStage`).
* The comment at `stage_manager/manager.go:220` and the log of `cleanup.go:671` speak of deleting image
  metadata of stages that are no more. The cleanup visits only images with a record of a
  stage that is (`cleanup.go:427-434` with `stage_manager/manager.go:193-196`), so when the last
  stage of an image has gone its records stay until it is built again (`Orphaned`, the
  exception in `NothingDangles`).
* Once git history has handled a stage, what it imports from is not protected by other
  reasons (the exception in `RelativesStay`).
* A scan ends when every stage was met once (`scanner.go:345`), and takes the youngest of
  the commits a stage was met on. Where history forks or dates do not follow it, that
  need not be the newest record of the stage, so a limit may keep another stage than
  the policies say (`Unambiguous`); and sorting by date is not stable, so of commits or
  references of one date a second cleanup may choose others (`DistinctDates`, and
  `DistinctAges` in an instance with two references of one age).

Host:

* `isLocked` releases the lock before the removal (`local_backend_cleaner.go:617`).
* The reports of prunes are subtracted from an unsigned number unchecked (`:289`).
* The merge of two commits records a commit whose submodules were not updated
  (`merge.go:52`).
* The lock of a clone is named after the repository, its directory after the URL
  (`remote.go:445`), and a collector killed within a clone leaves a directory that
  passes for a clone. Torn metadata makes every later request for the file fail until
  it is collected.
* A clone whose record of access cannot be read is removed as soon as a collector lists
  it (`git_repo.go:89-95`), and a kill within `updateLastAccessAt` (`remote.go:138-148`) leaves
  such a record, so a clone goes that others have accessed a moment ago and that
  should be kept for three hours (`lost`, the exception in `FilesAtHand`).
* `getWorkTreeCacheLockTimeout` ignores a timeout that is set (`work_tree.go:66`), read
  only.

## What is not modelled

The models stand for about a tenth of the repository's lines of Go: the part that
decides on state shared between processes, tasks or runs. The rest is the command
line, the parsing of configuration, and adapters of other programs:

* Instructions of stages, imports, image spec, reports and wording, which have no part
  in the properties; the stages of `GitStages` are those that bring files of git.
* The HTTP transport and lockgate, of which the models keep the contract (mutual
  exclusion, lease), and with them the loss of a lease by a live builder.
* The background updater of the tag list, which runs only when the second lookup is
  switched off, and the record of the synchronization server, which only builds made
  with `ForceSyncServerRepo` read.
* Container backends (`pkg/buildah`, `pkg/docker`, `pkg/container_backend`) and registry
  clients: adapters of other programs, whose calls are steps that succeed or fail.
* Parsing and rendering of configuration and templates, the command line with its
  options and help, telemetry, charts and deployment around Nelm, which lie outside
  the shared state the models are about and make up most of the repository's lines.
* Giterminism: rules on which files may be read from the file system instead of the
  commit. They decide on one file at a time, symbolic links followed, and keep no state.
* Purge, which deletes everything without a decision.

## Plan

The modules above are the system as far as it is modelled, and every safety property that a
run checks is also stated by a theorem. What could be added next is the synchronization
of a live builder that loses its lease, for which lockgate would have to be modelled, and
the stages of `GitStages` that bring no files of git. No module uses a `RECURSIVE` operator,
so all of them can be proved about.
