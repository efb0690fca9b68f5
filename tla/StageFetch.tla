----------------------------- MODULE StageFetch -----------------------------
(***************************************************************************)
(* Builders against a repo from which stages disappear.                    *)
(*                                                                         *)
(* A builder walks along the chain of stages of an image.  It takes a      *)
(* stage that exists without looking at the image itself; the image is     *)
(* needed only to build the next stage upon it, or at the end by commands  *)
(* that run it.  If the image turns out to be gone then, the builder marks *)
(* the stage as rejected in the repo and starts again.  What it knows may  *)
(* be old: the list of tags is cached in the process, descriptions are     *)
(* cached on the host for ever, and images may come from a cache repo.     *)
(*                                                                         *)
(* The digest of a stage is its position in the chain.  Publication is one *)
(* step here: StagePublish is about how it is made so.                     *)
(***************************************************************************)
EXTENDS Integers, FiniteSets

CONSTANTS
    Procs,         \* werf processes, each building the same image
    Hosts, HostOf, \* HostOf[p]: where the process runs
    Len,           \* stages of the image
    Published,     \* stages in the repo at the start
    Cached,        \* stages in the cache repo at the start
    WithCacheRepo, \* --cache-repo is given
    FetchesLast,   \* processes of a command that runs the image at the end
    MaxTs,         \* bound on the clock
    MaxLosses      \* bound on images deleted from or broken in the repo

Positions == 1..Len
StageID == [pos : Positions, ts : 1..MaxTs]
NoStageID == [pos |-> 0, ts |-> 0]

ASSUME FetchAssumption ==
    /\ Len \in Nat \ {0}
    /\ HostOf \in [Procs -> Hosts]
    /\ Published \subseteq StageID /\ Cardinality(Published) \in 0..MaxTs
    /\ \A s \in Published : s.ts <= Cardinality(Published)   \* in the past
    /\ Cached \subseteq StageID
    /\ FetchesLast \subseteq Procs
    /\ MaxTs \in Nat
    /\ MaxLosses \in Nat
    /\ WithCacheRepo \in BOOLEAN

VARIABLES
    repo,        \* stages in the primary repo
    broken,      \* those of them whose layers are lost: no pull succeeds
    rejected,    \* records DIGEST-TIMESTAMP-rejected in the repo
    purging,     \* stages whose record DeleteStage has yet to look for
    cacheRepo,   \* stages in the cache repo
    manifests,   \* manifests[h]: descriptions in the host's manifest cache
    local,       \* local[h]: images in the host's container backend
    cachedTags,  \* cachedTags[p]: the list of tags the process holds
    pc, pos,     \* pos[p]: the position of the stage p is working on
    chain,       \* chain[p][i]: the stage p uses at position i
    now,
    issued,      \* history: every stage there has ever been
    dead,        \* history: dead[p]: stages gone before p started
    losses       \* how many images have been deleted or broken

repoVars == <<repo, broken, rejected, purging, now, issued, losses>>
vars == <<repo, broken, rejected, purging, cacheRepo, manifests, local,
          cachedTags, pc, pos, chain, now, issued, dead, losses>>

Lists == [tags : SUBSET StageID, rejected : SUBSET StageID]
NoList == [tags |-> {NoStageID}, rejected |-> {}]
NoChain == [i \in Positions |-> NoStageID]
Ended == {"done", "failed"}
Labels == {"start", "lookup", "query", "resolve", "fetch", "pull", "reject",
           "build", "publish"} \cup Ended

\* Types of the variables.
TypeOK ==
    /\ repo \subseteq StageID /\ broken \subseteq StageID
    /\ rejected \subseteq StageID /\ purging \subseteq StageID
    /\ cacheRepo \subseteq StageID /\ issued \subseteq StageID
    /\ manifests \in [Hosts -> SUBSET StageID]
    /\ local \in [Hosts -> SUBSET StageID]
    /\ cachedTags \in [Procs -> Lists \cup {NoList}]
    /\ pc \in [Procs -> Labels]
    /\ pos \in [Procs -> 1..(Len + 1)]
    /\ chain \in [Procs -> [Positions -> StageID \cup {NoStageID}]]
    /\ dead \in [Procs -> SUBSET StageID]
    /\ now \in 1..(MaxTs + 1)
    /\ losses \in 0..MaxLosses

Init ==
    /\ repo = Published /\ broken = {} /\ rejected = {} /\ purging = {}
    /\ cacheRepo = Cached
    /\ \E seen \in {{}, Published} : manifests = [h \in Hosts |-> seen]
    /\ local = [h \in Hosts |-> {}]
    /\ cachedTags = [p \in Procs |-> NoList]
    /\ pc = [p \in Procs |-> "start"]
    /\ pos = [p \in Procs |-> 1]
    /\ chain = [p \in Procs |-> NoChain]
    /\ now = 1 + Cardinality(Published)
    /\ issued = Published
    /\ dead = [p \in Procs |-> {}]
    /\ losses = 0

-----------------------------------------------------------------------------
(* Lookup.                                                                 *)

host(p) == HostOf[p]
Goto(p, label) == pc' = [pc EXCEPT ![p] = label]
Learn(p, stages) == manifests' = [manifests EXCEPT ![host(p)] = @ \cup stages]
ParentTs(p) == IF pos[p] = 1 THEN 0 ELSE chain[p][pos[p] - 1].ts

\* Mutant: a stage older than its parent is taken.
IDsOfAnyAge(p, list) ==
    {s \in list.tags : s.pos = pos[p]
                       /\ \A r \in list.rejected : r.ts # s.ts}

\* A record of a rejected stage is compared by its timestamp only: its digest
\* is replaced by the digest that is looked for.
GetStagesIDsByDigest(p, list) ==
    {s \in list.tags : /\ s.pos = pos[p]
                       /\ ParentTs(p) <= s.ts
                       /\ \A r \in list.rejected : r.ts # s.ts}

\* RepoStagesStorage.GetStageDesc finds the stage.
InRepo(s) == s \in repo /\ s \notin rejected

\* getStageDesc: manifest cache, then cache repo, then the repo.
Described(p, s) ==
    \/ s \in manifests[host(p)]
    \/ WithCacheRepo /\ s \in cacheRepo
    \/ InRepo(s)

\* Mutant: what the host has ever seen is taken for what exists.
FoundInManifests(p, list) ==
    {s \in GetStagesIDsByDigest(p, [list EXCEPT !.tags = @ \cup manifests[host(p)]]) :
        Described(p, s)}

Found(p, list) == {s \in GetStagesIDsByDigest(p, list) : Described(p, s)}

Oldest(stages) == CHOOSE s \in stages : \A r \in stages : s.ts <= r.ts

\* The stage is set and the builder goes on to the next one.
Use(p, s) ==
    /\ chain' = [chain EXCEPT ![p][pos[p]] = s]
    /\ pos' = [pos EXCEPT ![p] = @ + 1]
    /\ Goto(p, IF pos[p] < Len THEN "lookup"
               ELSE IF p \in FetchesLast THEN "fetch" ELSE "done")

Start(p) ==
    /\ pc[p] = "start"
    /\ dead' = [dead EXCEPT ![p] = issued \ repo]
    /\ Goto(p, "lookup")
    /\ UNCHANGED <<repoVars, cacheRepo, manifests, local, cachedTags, pos, chain>>

\* The registry is asked: before the first lookup of the process, and when
\* the cached list has nothing.
Query(p) ==
    /\ \/ pc[p] = "lookup" /\ cachedTags[p] = NoList /\ UNCHANGED pc
       \/ pc[p] = "query" /\ Goto(p, "resolve")
    /\ cachedTags' = [cachedTags EXCEPT ![p] = [tags |-> repo,
                                                rejected |-> rejected]]
    /\ UNCHANGED <<repoVars, cacheRepo, manifests, local, pos, chain, dead>>

\* calculateStage; descriptions are read one by one after the list.
Lookup(p) ==
    /\ pc[p] \in {"lookup", "resolve"}
    /\ cachedTags[p] # NoList
    /\ LET found == Found(p, cachedTags[p]) IN
       /\ Learn(p, found)
       /\ IF found # {} THEN Use(p, Oldest(found))
          ELSE /\ Goto(p, IF pc[p] = "lookup" THEN "query"
                          ELSE IF pos[p] = 1 THEN "build" ELSE "fetch")
               /\ UNCHANGED <<chain, pos>>
    /\ UNCHANGED <<repoVars, cacheRepo, local, cachedTags, dead>>

-----------------------------------------------------------------------------
(* FetchStage: of the previous stage, or of the last one at the end.       *)

Wanted(p) == chain[p][pos[p] - 1]
AfterFetch(p) == Goto(p, IF pos[p] > Len THEN "done" ELSE "build")

\* The image is on the host already.
HasImage(p) ==
    /\ pc[p] = "fetch"
    /\ Wanted(p) \in local[host(p)]
    /\ AfterFetch(p)
    /\ UNCHANGED <<repoVars, cacheRepo, manifests, local, cachedTags, pos, chain,
                   dead>>

\* The image comes from the cache repo and is renamed to the primary name.
FetchFromCache(p) ==
    /\ pc[p] = "fetch"
    /\ Wanted(p) \notin local[host(p)]
    /\ WithCacheRepo /\ Wanted(p) \in cacheRepo
    /\ local' = [local EXCEPT ![host(p)] = @ \cup {Wanted(p)}]
    /\ Learn(p, {Wanted(p)})
    /\ AfterFetch(p)
    /\ UNCHANGED <<repoVars, cacheRepo, cachedTags, pos, chain, dead>>

\* No cache repo has given the image.  Its manifest is looked for in the
\* primary repo, whatever is cached.
CheckAvailability(p) ==
    /\ pc[p] = "fetch"
    /\ Wanted(p) \notin local[host(p)]
    /\ Goto(p, IF InRepo(Wanted(p)) THEN "pull" ELSE "reject")
    /\ UNCHANGED <<repoVars, cacheRepo, manifests, local, cachedTags, pos, chain,
                   dead>>

\* Mutant: a pull that fails for whatever reason rejects the stage.
PullOrReject(p) ==
    /\ pc[p] = "pull"
    /\ \/ /\ Wanted(p) \in repo \ broken
          /\ local' = [local EXCEPT ![host(p)] = @ \cup {Wanted(p)}]
          /\ AfterFetch(p)
       \/ /\ Goto(p, "reject")
          /\ UNCHANGED local
    /\ UNCHANGED <<repoVars, cacheRepo, manifests, cachedTags, pos, chain, dead>>

\* The pull: a lost layer means that the image is broken, any other error,
\* as when the image has been deleted since the check, ends the command.
\* The copy into the cache repo may fail.
Pull(p) ==
    /\ pc[p] = "pull"
    /\ \/ /\ Wanted(p) \in repo \ broken
          /\ local' = [local EXCEPT ![host(p)] = @ \cup {Wanted(p)}]
          /\ AfterFetch(p)
          /\ cacheRepo' \in {cacheRepo, IF WithCacheRepo
                                        THEN cacheRepo \cup {Wanted(p)}
                                        ELSE cacheRepo}
       \/ /\ Wanted(p) \in broken
          /\ Goto(p, "reject")
          /\ UNCHANGED <<local, cacheRepo>>
       \/ /\ Wanted(p) \notin repo
          /\ Goto(p, "failed")
          /\ UNCHANGED <<local, cacheRepo>>
    /\ UNCHANGED <<repoVars, manifests, cachedTags, pos, chain, dead>>

\* Mutant: the record is not written.
RetryOnly(p) ==
    /\ pc[p] = "reject"
    /\ chain' = [chain EXCEPT ![p] = NoChain]
    /\ pos' = [pos EXCEPT ![p] = 1]
    /\ Goto(p, "lookup")
    /\ UNCHANGED <<repoVars, cacheRepo, manifests, local, cachedTags, dead>>

\* RejectStage, and WithRetryBlock starts again with a new conveyor; the
\* storage manager, with the list of tags, stays.
RejectAndRetry(p) ==
    /\ pc[p] = "reject"
    /\ rejected' = rejected \cup {Wanted(p)}
    /\ chain' = [chain EXCEPT ![p] = NoChain]
    /\ pos' = [pos EXCEPT ![p] = 1]
    /\ Goto(p, "lookup")
    /\ UNCHANGED <<repo, broken, purging, now, issued, losses, cacheRepo,
                   manifests, local, cachedTags, dead>>

-----------------------------------------------------------------------------
(* Build and publication.                                                  *)

Build(p) ==
    /\ pc[p] = "build"
    /\ Goto(p, "publish")
    /\ UNCHANGED <<repoVars, cacheRepo, manifests, local, cachedTags, pos, chain,
                   dead>>

\* Under the stage lock: look again and use what has appeared, or store the
\* built stage, which is on the host and may be copied into the cache repo.
\* Stages of different digests may get the same millisecond.
Publish(p) ==
    /\ pc[p] = "publish"
    /\ LET list == [tags |-> repo, rejected |-> rejected]
           found == Found(p, list)
           new == [pos |-> pos[p], ts |-> now]
       IN /\ cachedTags' = [cachedTags EXCEPT ![p] = list]
          /\ Learn(p, found)
          /\ IF found # {}
             THEN /\ Use(p, Oldest(found))
                  /\ UNCHANGED <<repo, now, issued, local, cacheRepo>>
             ELSE /\ now <= MaxTs
                  /\ \A s \in issued : s.pos = pos[p] => s.ts < now
                  /\ repo' = repo \cup {new}
                  /\ issued' = issued \cup {new}
                  /\ now' \in {now, now + 1}
                  /\ local' = [local EXCEPT ![host(p)] = @ \cup {new}]
                  /\ cacheRepo' \in {cacheRepo, IF WithCacheRepo
                                                THEN cacheRepo \cup {new}
                                                ELSE cacheRepo}
                  /\ Use(p, new)
    /\ UNCHANGED <<broken, rejected, purging, losses, dead>>

\* Time passes before a stage of the same digest is stored again.
Tick ==
    /\ now <= MaxTs
    /\ \E p \in Procs, s \in issued :
          pc[p] = "publish" /\ s.pos = pos[p] /\ s.ts = now
    /\ now' = now + 1
    /\ UNCHANGED <<repo, broken, rejected, purging, issued, losses, cacheRepo,
                   manifests, local, cachedTags, pc, pos, chain, dead>>

-----------------------------------------------------------------------------
(* What happens to the repo meanwhile.                                     *)

\* DeleteStage (cleanup, purge), first the image ...
DeleteImage(s) ==
    /\ losses < MaxLosses
    /\ s \in repo
    /\ repo' = repo \ {s}
    /\ broken' = broken \ {s}
    /\ purging' = purging \cup {s}
    /\ losses' = losses + 1
    /\ UNCHANGED <<rejected, now, issued, cacheRepo, manifests, local, cachedTags,
                   pc, pos, chain, dead>>

\* ... then the record of its rejection, if there is one.
DeleteRecord(s) ==
    /\ s \in purging
    /\ purging' = purging \ {s}
    /\ rejected' = rejected \ {s}
    /\ UNCHANGED <<repo, broken, now, issued, losses, cacheRepo, manifests, local,
                   cachedTags, pc, pos, chain, dead>>

\* The registry loses layers of an image.
LoseLayers(s) ==
    /\ losses < MaxLosses
    /\ s \in repo \ broken
    /\ broken' = broken \cup {s}
    /\ losses' = losses + 1
    /\ UNCHANGED <<repo, rejected, purging, now, issued, cacheRepo, manifests,
                   local, cachedTags, pc, pos, chain, dead>>

\* A registry, the backend or a build fails and so does the command.
Fails(p) ==
    /\ pc[p] \notin Ended \cup {"start"}
    /\ Goto(p, "failed")
    /\ UNCHANGED <<repoVars, cacheRepo, manifests, local, cachedTags, pos, chain,
                   dead>>

ProcStep(p) ==
    \/ Start(p) \/ Query(p) \/ Lookup(p)
    \/ HasImage(p) \/ FetchFromCache(p) \/ CheckAvailability(p) \/ Pull(p)
    \/ RejectAndRetry(p) \/ Build(p) \/ Publish(p)

RepoStep == \E s \in repo \cup purging :
                DeleteImage(s) \/ DeleteRecord(s) \/ LoseLayers(s)

Finished ==
    /\ \A p \in Procs : pc[p] \in Ended
    /\ UNCHANGED vars

Next ==
    \/ \E p \in Procs : ProcStep(p) \/ Fails(p)
    \/ RepoStep
    \/ Tick
    \/ Finished

Spec == Init /\ [][Next]_vars

\* Processes go on and time passes; nothing has to fail or to be deleted.
FairSpec == Spec /\ (\A p \in Procs : WF_vars(ProcStep(p))) /\ WF_vars(Tick)

-----------------------------------------------------------------------------
(* Properties.                                                             *)

\* A stage that was gone before the process started is never used, although
\* the host still has its description and the cache repo its image.
NotResurrected == \A p \in Procs, i \in Positions : chain[p][i] \notin dead[p]

\* A stage is never older than the stage below it, also after a stage in the
\* middle has been rejected and built again under older stages.
ChainOrdered ==
    \A p \in Procs, i, j \in Positions :
        (i < j /\ chain[p][j] # NoStageID) => chain[p][i].ts <= chain[p][j].ts

\* A stage is rejected only if its image cannot be had from the repo.
RejectsOnlyLost == [][rejected' \ rejected \subseteq broken \cup (issued \ repo)]_vars

\* The process continues until all the layers are built, and comes to an end,
\* whatever others do to the repo and for how long they retry.
BuildsEnd == \A p \in Procs \ FetchesLast : <>(pc[p] \in Ended)
=============================================================================
