---------------------------- MODULE StagePublish ----------------------------
(***************************************************************************)
(* How parallel builders publish one stage per digest.                     *)
(*                                                                         *)
(* A task is one BuildPhase.onImageStage call: a stage of one image, in    *)
(* one werf process.  It looks for a suitable stage in the repo, builds    *)
(* its own when there is none, and takes the distributed stage lock only   *)
(* to publish, after looking for a suitable stage once more.  Tasks of one *)
(* process share the in-process mutex of a digest, the cached list of tags *)
(* and the singleflight group through which every list of tags is asked.   *)
(*                                                                         *)
(* Descriptions of stages are resolved in the repo: nothing is deleted     *)
(* here (see StageFetch for deletion, rejection and the manifest cache).   *)
(***************************************************************************)
EXTENDS Stages

CONSTANTS
    Procs,               \* werf processes, each on a host of its own
    ProcOf,              \* the process a task belongs to
    Secondary,           \* Secondary[p]: stages in p's secondary storage
    Published,           \* stages in the repo at the start
    Epoch,               \* first clock value, above every earlier timestamp
    Skew,                \* Skew[p]: how far the clock of p's host is ahead
    PublishTagCacheSync  \* p's WERF_DISABLE_PUBLISH_TAG_CACHE_SYNC is not "1"

\* No list of tags yet.
NoTags == {TagOf(NoStage)}

ASSUME ProcAssumption ==
    /\ ProcOf \in [Tasks -> Procs]
    /\ Secondary \in [Procs -> SUBSET Stage]
    /\ PublishTagCacheSync \in [Procs -> BOOLEAN]

ASSUME ClockAssumption ==
    /\ Epoch \in Nat
    /\ Skew \in [Procs -> Nat]
    /\ Published \in SUBSET Stage
    /\ \A s \in Published : s.ts < Epoch
    /\ \A s, r \in Published : TagOf(s) = TagOf(r) => s = r
    /\ \A p \in Procs : \A s \in Secondary[p] : s.ts < Epoch
    /\ \A t \in Tasks : ParentTs[t] < Epoch

VARIABLES
    repo,        \* stages in the primary stages storage
    now,         \* the true time, in the unit of a stage's timestamp
    lock,        \* lock[d]: task holding the distributed lock of the digest
    mutex,       \* mutex[p][d]: task holding the conveyor's digest mutex
    cachedTags,  \* cachedTags[p]: DockerRegistryWithCache.cachedTagsMap
    flight,      \* flight[p]: the query running in listTagsQueryGroup
    answer,      \* answer[t]: the list of tags the task's query returned
    pc,
    newTs,       \* newTs[t]: timestamp given to the task's new stage
    used,        \* used[t]: description set on the task's stage image
    ledger,      \* history: the publications
    looked       \* history: tasks for whose second lookup the registry has
                 \* listed its tags after they got the lock

history == <<ledger, looked>>
vars == <<repo, now, lock, mutex, cachedTags, flight, answer, pc, newTs, used,
          history>>

Waiting == {"lookupWait", "relookupWait", "recheckWait"}
Got == {"lookupGot", "relookupGot", "recheckGot"}
Locked == {"copy", "recheck", "recheckWait", "recheckGot", "store", "unlock"}
Ended == {"done", "failed", "crashed"}
Labels == {"start", "lookup", "relookup", "secondary", "build", "lock",
           "copyLock"} \cup Waiting \cup Got \cup Locked \cup Ended

NoFlight == [waiters |-> {}, tags |-> NoTags]

\* Types of the variables.
TypeOK ==
    /\ repo \in SUBSET Stage
    /\ now \in Nat
    /\ lock \in [Digests -> Tasks \cup {NoTask}]
    /\ mutex \in [Procs -> [Digests -> Tasks \cup {NoTask}]]
    /\ cachedTags \in [Procs -> (SUBSET Tag) \cup {NoTags}]
    /\ flight \in [Procs -> [waiters : SUBSET Tasks,
                             tags : (SUBSET Tag) \cup {NoTags}]]
    /\ answer \in [Tasks -> (SUBSET Tag) \cup {NoTags}]
    /\ pc \in [Tasks -> Labels]
    /\ newTs \in [Tasks -> Nat]
    /\ used \in [Tasks -> Stage \cup {NoStage}]
    /\ ledger \subseteq Entry
    /\ looked \subseteq Tasks

Init ==
    /\ repo = Published
    /\ now = Epoch
    /\ lock = [d \in Digests |-> NoTask]
    /\ mutex = [p \in Procs |-> [d \in Digests |-> NoTask]]
    /\ cachedTags = [p \in Procs |-> NoTags]
    /\ flight = [p \in Procs |-> NoFlight]
    /\ answer = [t \in Tasks |-> NoTags]
    /\ pc = [t \in Tasks |-> "start"]
    /\ newTs = [t \in Tasks |-> 0]
    /\ used = [t \in Tasks |-> NoStage]
    /\ ledger = [stage : Published, by : {NoTask}, at : {0}, how : {"start"}]
    /\ looked = {}

-----------------------------------------------------------------------------
(* Lookup, under the digest mutex of the process.                          *)

proc(t) == ProcOf[t]
Goto(t, label) == pc' = [pc EXCEPT ![t] = label]
ReleaseMutex(t) ==
    mutex' = [mutex EXCEPT ![proc(t)][DigestOf[t]] = NoTask]

\* calculateStage up to the digest mutex.
Begin(t) ==
    /\ pc[t] = "start"
    /\ mutex[proc(t)][DigestOf[t]] = NoTask
    /\ mutex' = [mutex EXCEPT ![proc(t)][DigestOf[t]] = t]
    /\ Goto(t, "lookup")
    /\ UNCHANGED <<repo, now, lock, cachedTags, flight, answer, newTs, used,
                   history>>

\* The rest of calculateStage once a set of stages is known: use a suitable
\* one, or go on to the secondary storages.
Conclude(t, stages) ==
    \/ \E s \in SelectSuitableStageDesc(t, stages) :
          /\ used' = [used EXCEPT ![t] = s]
          /\ Goto(t, "done")
          /\ ReleaseMutex(t)
    \/ /\ Suitable(t, stages) = {}
       /\ Goto(t, "secondary")
       /\ UNCHANGED <<used, mutex>>

\* The first lookup answers from the cached list; an empty answer makes the
\* storage manager ask the registry.
LookupCached(t) ==
    /\ pc[t] = "lookup"
    /\ cachedTags[proc(t)] # NoTags
    /\ LET found == StageDescSet(t, repo, cachedTags[proc(t)]) IN
       IF found = {}
       THEN Goto(t, "relookup") /\ UNCHANGED <<used, mutex>>
       ELSE Conclude(t, found)
    /\ UNCHANGED <<repo, now, lock, cachedTags, flight, answer, newTs,
                   history>>

\* Every query of the registry for tags goes through singleflight: it joins
\* the query already running in the process, or starts one.
Query(t) ==
    /\ \/ pc[t] = "lookup" /\ cachedTags[proc(t)] = NoTags
       \/ pc[t] = "relookup"
       \/ pc[t] = "recheck" /\ PublishTagCacheSync[proc(t)]
    /\ Goto(t, CASE pc[t] = "lookup"   -> "lookupWait"
                 [] pc[t] = "relookup" -> "relookupWait"
                 [] OTHER              -> "recheckWait")
    /\ flight' = [flight EXCEPT ![proc(t)] = [waiters |-> @.waiters \cup {t},
                                              tags |-> @.tags]]
    /\ UNCHANGED <<repo, now, lock, mutex, cachedTags, answer, newTs, used,
                   history>>

\* The registry takes the list it is going to return.
ListTags(p) ==
    /\ flight[p].waiters # {}
    /\ flight[p].tags = NoTags
    /\ flight' = [flight EXCEPT ![p] = [waiters |-> @.waiters,
                                        tags |-> TagsOf(repo)]]
    /\ looked' = looked \cup
                    {t \in Tasks : /\ proc(t) = p /\ PublishTagCacheSync[p]
                                  /\ pc[t] \in {"recheck", "recheckWait"}}
    /\ UNCHANGED <<repo, now, lock, mutex, cachedTags, answer, pc, newTs, used,
                   ledger>>

\* The query returns and singleflight hands the list to everyone waiting.
Deliver(p) ==
    /\ flight[p].waiters # {}
    /\ flight[p].tags # NoTags
    /\ answer' = [t \in Tasks |-> IF t \in flight[p].waiters
                                  THEN flight[p].tags ELSE answer[t]]
    /\ pc' = [t \in Tasks |->
                IF t \notin flight[p].waiters THEN pc[t]
                ELSE CASE pc[t] = "lookupWait"   -> "lookupGot"
                       [] pc[t] = "relookupWait" -> "relookupGot"
                       [] OTHER                  -> "recheckGot"]
    /\ flight' = [flight EXCEPT ![p] = NoFlight]
    /\ UNCHANGED <<repo, now, lock, mutex, cachedTags, newTs, used, history>>

\* The query fails for everyone waiting.  onImageStage returns before it has
\* deferred the unlock that calculateStage hands over, so a task still in
\* calculateStage keeps the digest mutex; a task that was about to publish
\* releases the stage lock and the mutex.
QueryFails(p) ==
    /\ flight[p].waiters # {}
    /\ LET publishing == {t \in flight[p].waiters : pc[t] = "recheckWait"} IN
       /\ lock' = [d \in Digests |->
                     IF lock[d] \in publishing THEN NoTask ELSE lock[d]]
       /\ mutex' = [mutex EXCEPT ![p] =
                     [d \in Digests |-> IF mutex[p][d] \in publishing
                                        THEN NoTask ELSE mutex[p][d]]]
    /\ pc' = [t \in Tasks |->
                IF t \in flight[p].waiters THEN "failed" ELSE pc[t]]
    /\ flight' = [flight EXCEPT ![p] = NoFlight]
    /\ UNCHANGED <<repo, now, cachedTags, answer, newTs, used, history>>

\* The task stores the list into the cache of the process, whatever has been
\* stored there since the query was answered, and looks for a stage in it.
ReceiveLookup(t) ==
    /\ pc[t] \in {"lookupGot", "relookupGot"}
    /\ cachedTags' = [cachedTags EXCEPT ![proc(t)] = answer[t]]
    /\ LET found == StageDescSet(t, repo, answer[t]) IN
       IF found = {} /\ pc[t] = "lookupGot"
       THEN Goto(t, "relookup") /\ UNCHANGED <<used, mutex>>
       ELSE Conclude(t, found)
    /\ UNCHANGED <<repo, now, lock, flight, answer, newTs, history>>

-----------------------------------------------------------------------------
(* Secondary storages and the build.                                       *)

SecondaryStages(t) ==
    {s \in Secondary[proc(t)] :
        s.digest = DigestOf[t] /\ ParentTs[t] <= s.ts}

\* findAndFetchStageFromSecondaryStagesStorage, up to the stage lock.
ScanSecondary(t) ==
    /\ pc[t] = "secondary"
    /\ Goto(t, IF Suitable(t, SecondaryStages(t)) = {}
               THEN "build" ELSE "copyLock")
    /\ UNCHANGED <<repo, now, lock, mutex, cachedTags, flight, answer, newTs,
                   used, history>>

\* Builder.Build, with no lock held.
Build(t) ==
    /\ pc[t] = "build"
    /\ Goto(t, "lock")
    /\ UNCHANGED <<repo, now, lock, mutex, cachedTags, flight, answer, newTs,
                   used, history>>

BuildFails(t) ==
    /\ pc[t] = "build"
    /\ Goto(t, "failed")
    /\ ReleaseMutex(t)
    /\ UNCHANGED <<repo, now, lock, cachedTags, flight, answer, newTs, used,
                   history>>

-----------------------------------------------------------------------------
(* Publication, under the stage lock.                                      *)

\* Mutant: the lock is granted to whoever asks.
LockStageUnguarded(t) ==
    /\ pc[t] \in {"lock", "copyLock"}
    /\ lock' = [lock EXCEPT ![DigestOf[t]] = t]
    /\ Goto(t, IF pc[t] = "lock" THEN "recheck" ELSE "copy")
    /\ UNCHANGED <<repo, now, mutex, cachedTags, flight, answer, newTs, used,
                   history>>

LockStage(t) ==
    /\ pc[t] \in {"lock", "copyLock"}
    /\ lock[DigestOf[t]] = NoTask
    /\ lock' = [lock EXCEPT ![DigestOf[t]] = t]
    /\ Goto(t, IF pc[t] = "lock" THEN "recheck" ELSE "copy")
    /\ UNCHANGED <<repo, now, mutex, cachedTags, flight, answer, newTs, used,
                   history>>

\* The stage is in the repo from now on.  A push takes longer than the unit of
\* time.
Publish(t, s, how) ==
    /\ repo' = Push(repo, s)
    /\ ledger' = ledger \cup
                    {[stage |-> s, by |-> t, at |-> now, how |-> how]}
    /\ now' = now + 1
    /\ UNCHANGED looked

Copy(t, s) == Publish(t, s, IF s \in repo THEN "recopied" ELSE "copied")

\* Mutant: the copy is made without the lock.
CopyWithoutLock(t) ==
    /\ pc[t] = "copyLock"
    /\ \E s \in SelectSuitableStageDesc(t, SecondaryStages(t)) :
          /\ Copy(t, s)
          /\ used' = [used EXCEPT ![t] = s]
    /\ ReleaseMutex(t)
    /\ Goto(t, "done")
    /\ UNCHANGED <<lock, cachedTags, flight, answer, newTs>>

\* CopySuitableStageDescByDigest: the stage keeps its timestamp, and the
\* primary storage is not looked at again.
CopyFromSecondary(t) ==
    /\ pc[t] = "copy"
    /\ \E s \in SelectSuitableStageDesc(t, SecondaryStages(t)) :
          /\ Copy(t, s)
          /\ used' = [used EXCEPT ![t] = s]
    /\ Goto(t, "unlock")
    /\ UNCHANGED <<lock, mutex, cachedTags, flight, answer, newTs>>

\* Mutant: the timestamp counts coarser units.
CreationTsInSeconds(t) ==
    newTs' = [newTs EXCEPT ![t] = ((now + Skew[proc(t)]) \div 4) * 4]
\* GenerateStageDescCreationTs: the host's clock.  The loop over the known
\* stages continues itself and so never asks for another timestamp.
GenerateStageDescCreationTs(t) ==
    newTs' = [newTs EXCEPT ![t] = now + Skew[proc(t)]]

\* WERF_DISABLE_PUBLISH_TAG_CACHE_SYNC=1: no second lookup.
SkipRecheck(t) ==
    /\ pc[t] = "recheck"
    /\ ~PublishTagCacheSync[proc(t)]
    /\ GenerateStageDescCreationTs(t)
    /\ Goto(t, "store")
    /\ UNCHANGED <<repo, now, lock, mutex, cachedTags, flight, answer, used,
                   history>>

\* Mutant: the second lookup takes any stage of the digest.
RecheckIgnoresGit(t) ==
    /\ pc[t] = "recheckGot"
    /\ cachedTags' = [cachedTags EXCEPT ![proc(t)] = answer[t]]
    /\ LET found == StageDescSet(t, repo, answer[t]) IN
       \/ \E s \in found :
             /\ used' = [used EXCEPT ![t] = s]
             /\ Goto(t, "unlock")
             /\ UNCHANGED newTs
       \/ /\ found = {}
          /\ GenerateStageDescCreationTs(t)
          /\ Goto(t, "store")
          /\ UNCHANGED used
    /\ UNCHANGED <<repo, now, lock, mutex, flight, answer, history>>

\* The second lookup: reuse a suitable stage published since and discard the
\* built one, or name the built one.
Recheck(t) ==
    /\ pc[t] = "recheckGot"
    /\ cachedTags' = [cachedTags EXCEPT ![proc(t)] = answer[t]]
    /\ LET found == StageDescSet(t, repo, answer[t]) IN
       \/ \E s \in SelectSuitableStageDesc(t, found) :
             /\ used' = [used EXCEPT ![t] = s]
             /\ Goto(t, "unlock")
             /\ UNCHANGED newTs
       \/ /\ Suitable(t, found) = {}
          /\ GenerateStageDescCreationTs(t)
          /\ Goto(t, "store")
          /\ UNCHANGED used
    /\ UNCHANGED <<repo, now, lock, mutex, flight, answer, history>>

NewStage(t) == [digest |-> DigestOf[t], ts |-> newTs[t],
                commit |-> CommitOf[t], parent |-> ParentTs[t]]

Store(t) == Publish(t, NewStage(t), IF t \in looked THEN "looked" ELSE "blind")

\* StoreImage and the read back of the description.
StoreImage(t) ==
    /\ pc[t] = "store"
    /\ Store(t)
    /\ used' = [used EXCEPT ![t] = NewStage(t)]
    /\ Goto(t, "unlock")
    /\ UNCHANGED <<lock, mutex, cachedTags, flight, answer, newTs>>

\* The synchronization service refuses or cannot be reached.
LockFails(t) ==
    /\ pc[t] \in {"lock", "copyLock"}
    /\ ReleaseMutex(t)
    /\ Goto(t, "failed")
    /\ UNCHANGED <<repo, now, lock, cachedTags, flight, answer, newTs, used,
                   history>>

\* The push or the read back returns an error; the tag may be there.
StoreFails(t) ==
    /\ \/ pc[t] \in {"store", "copy"} /\ UNCHANGED <<repo, now, history>>
       \/ pc[t] = "store" /\ Store(t)
       \/ /\ pc[t] = "copy"
          /\ \E s \in SelectSuitableStageDesc(t, SecondaryStages(t)) :
                Copy(t, s)
    /\ lock' = [lock EXCEPT ![DigestOf[t]] = NoTask]
    /\ ReleaseMutex(t)
    /\ Goto(t, "failed")
    /\ UNCHANGED <<cachedTags, flight, answer, newTs, used>>

\* Mutant: the stage lock is kept.
UnlockForgetsLock(t) ==
    /\ pc[t] = "unlock"
    /\ ReleaseMutex(t)
    /\ Goto(t, "done")
    /\ UNCHANGED <<repo, now, lock, cachedTags, flight, answer, newTs, used,
                   history>>

\* unlockStage, then the deferred unlock of the digest mutex.
Unlock(t) ==
    /\ pc[t] = "unlock"
    /\ lock' = [lock EXCEPT ![DigestOf[t]] = NoTask]
    /\ ReleaseMutex(t)
    /\ Goto(t, "done")
    /\ UNCHANGED <<repo, now, cachedTags, flight, answer, newTs, used,
                   history>>

-----------------------------------------------------------------------------
(* Crash of a process; its leases run out later.                           *)

Crash(p) ==
    /\ \E t \in Tasks : proc(t) = p /\ pc[t] \notin Ended
    /\ pc' = [t \in Tasks |-> IF proc(t) = p /\ pc[t] \notin Ended
                              THEN "crashed" ELSE pc[t]]
    /\ flight' = [flight EXCEPT ![p] = NoFlight]
    /\ UNCHANGED <<repo, now, lock, mutex, cachedTags, answer, newTs, used,
                   history>>

LeaseExpires(d) ==
    /\ lock[d] # NoTask
    /\ pc[lock[d]] = "crashed"
    /\ lock' = [lock EXCEPT ![d] = NoTask]
    /\ UNCHANGED <<repo, now, mutex, cachedTags, flight, answer, pc, newTs,
                   used, history>>

Finished ==
    /\ \A t \in Tasks : pc[t] \in Ended
    /\ UNCHANGED vars

TaskStep(t) ==
    \/ Begin(t) \/ LookupCached(t) \/ Query(t) \/ ReceiveLookup(t)
    \/ ScanSecondary(t) \/ Build(t) \/ LockStage(t) \/ CopyFromSecondary(t)
    \/ SkipRecheck(t) \/ Recheck(t) \/ StoreImage(t) \/ Unlock(t)

TaskFails(t) == BuildFails(t) \/ LockFails(t) \/ StoreFails(t)
ProcStep(p) == ListTags(p) \/ Deliver(p)

Next ==
    \/ \E t \in Tasks : TaskStep(t) \/ TaskFails(t)
    \/ \E p \in Procs : ProcStep(p) \/ QueryFails(p) \/ Crash(p)
    \/ \E d \in Digests : LeaseExpires(d)
    \/ Finished

Spec == Init /\ [][Next]_vars

\* A live task goes on, the registry answers, and a lease runs out.
Fairness ==
    /\ \A t \in Tasks : WF_vars(TaskStep(t))
    /\ \A p \in Procs : WF_vars(ProcStep(p))
    /\ \A d \in Digests : WF_vars(LeaseExpires(d))

FairSpec == Spec /\ Fairness

-----------------------------------------------------------------------------
(* Properties.                                                             *)

\* A clock is behind another.
Behind(p, q) == Skew[p] < Skew[q]

\* Stage s came after the image that r's tag named, but has no later time: it is
\* a copy, or was named by a clock that is behind the one that named r.
OutOfTurn(books, s, r) ==
    /\ s.ts <= r.ts
    /\ \E e, f \in books :
          /\ e.stage = s /\ e.how # "recopied"
          /\ TagOf(f.stage) = TagOf(r)
          /\ f.at < e.at
          /\ \/ e.how = "copied"
             \/ e.by # NoTask /\ f.by # NoTask /\ Behind(proc(e.by), proc(f.by))

\* The builder of stage r could have used s instead: s is of the same digest,
\* built from a commit that r's may reuse, and not older than the stage below r.
CouldUse(r, s) ==
    /\ s.digest = r.digest
    /\ s.commit \in Ancestors[r.commit]
    /\ r.parent <= s.ts

\* Only one layer is published: a stage comes to the repo only if no other stage
\* is there that its builder could use.  Excepted are stages brought without a
\* look at the repo under the lock: copies, and what was built when the second
\* lookup is switched off or shares a query that the registry had answered
\* before the builder got the lock.
PublishedOnce ==
    \A r \in repo \ Published : \A s \in repo \ {r} :
        CouldUse(r, s) => \/ CameAfter(ledger, s, r)
                          \/ \E t \in Tasks : BroughtUnseen(ledger, t, r)

\* All other builders reuse that layer: what a task ended up with is what a
\* fresh lookup selects now, for this and for every later builder of the same
\* digest, commit and parent, although tasks decide from lists of tags that
\* may be old.  The exceptions are stages that came out of turn, and tasks that
\* brought their stage without a look.
EveryoneReuses ==
    \A t \in Tasks : used[t] # NoStage =>
        /\ \/ used[t] \in Usable(t, repo)
           \/ \E r \in repo : /\ TagOf(r) = TagOf(used[t])
                             /\ OutOfTurn(ledger, r, used[t])
        /\ \A r \in Usable(t, repo) \ {used[t]} :
              \/ used[t].ts < r.ts
              \/ OutOfTurn(ledger, r, used[t])
              \/ BroughtUnseen(ledger, t, used[t])

\* Publications never change what is selected for a commit, but for a stage
\* that comes out of turn.
SelectionStable ==
    [][\A t \in Tasks : \A s \in Selected(t, repo) :
          \/ s \in Selected(t, repo')
          \/ \E r \in repo' \ repo : OutOfTurn(ledger', r, s)]_vars

\* A tag is never overwritten by an image with different content, but for a
\* copy and by a host whose clock is behind that of the host which made it.
TagNeverOverwritten ==
    [][\A s \in repo, r \in repo' :
          TagOf(s) = TagOf(r) => s = r \/ OutOfTurn(ledger', r, s)]_vars

\* The builders together do no more than the abstract store allows: every
\* lookup, also one that is answered from an old list of tags, behaves as if
\* it had seen the whole repo in one step, but for what came later.
TheStore == INSTANCE StageStore
ImplementsStageStore == TheStore!StoreSpec

\* A lookup that fails before the task has taken over the digest mutex leaves
\* the mutex locked.
WaitsForLeakedMutex(t) ==
    /\ pc[t] = "start"
    /\ mutex[proc(t)][DigestOf[t]] \in Tasks
    /\ pc[mutex[proc(t)][DigestOf[t]]] = "failed"

\* A task never waits for ever, for a mutex, a lock or an answer, unless it is
\* for a mutex that a failed task of its process has left locked.
EveryTaskEnds == \A t \in Tasks : <>(pc[t] \in Ended \/ WaitsForLeakedMutex(t))
=============================================================================
