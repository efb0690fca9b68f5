---------------------------- MODULE HostCleanup ----------------------------
(***************************************************************************)
(* The cleaning of the images and containers of a host                     *)
(* (pkg/host_cleaning) beside the builds that use them.  A build locks the *)
(* tag of a stage image, shared and until it exits, before it looks        *)
(* whether the image is on the host, and records the access; it locks the  *)
(* name of its container before it runs it.  The cleaner tries a lock and  *)
(* releases it at once, and removes the tag or the container afterwards.   *)
(*                                                                         *)
(* Sizes are in units of one percent of the volume.  Host locks are        *)
(* released when their holder is killed.                                   *)
(***************************************************************************)
EXTENDS Integers, Sequences, FiniteSets, FiniteSetsExt

CONSTANTS
  None,
  Procs,      \* builds
  Images, Tags,
  ImageOf,    \* of each tag, its image
  Size,       \* of each image
  OtherData,  \* used on the volume by anything else
  Prunable,   \* anonymous volumes and dangling images at the start
  Reports,    \* what the prunes may report as reclaimed: also data of volumes
              \* that are not on the volume measured
  Allowed, Target,   \* the allowed usage, and the one a cleanup aims at
  Width,      \* usage is counted modulo 2^Width
  MaxTime, MaxFetches, MaxKills, MaxCleanups   \* bounds

TotalSize(images) == MapThenSumSet(LAMBDA i : Size[i], images)

ASSUME ConstantsAssumption ==
  /\ ImageOf \in [Tags -> Images]
  /\ IsFiniteSet(Images) /\ Size \in [Images -> Nat]
  /\ OtherData \in Nat /\ Prunable \in Nat /\ (\A r \in Reports : r \in Nat /\ r >= Prunable)
  /\ Allowed \in Nat /\ Target \in 0..Allowed
  /\ Width \in Nat
  /\ OtherData + Prunable + TotalSize(Images) < 2^Width
  /\ MaxTime \in Nat /\ MaxFetches \in Nat /\ MaxKills \in Nat /\ MaxCleanups \in Nat

VARIABLES
  now,
  tags,       \* the tags on the host
  lru,        \* of each tag, the recorded access, 0 if there is no record
  accessed,   \* ghost: of each tag, its last access; records get lost
  build,      \* of each build: [pc, tag]
  orphans,    \* tags of images a container of a dead build still uses
  prunable,
  gc,         \* the cleaner
  raced,      \* ghost: builds that locked a tag after the cleaner had tried it
  torn,       \* ghost: a record of an access was cut off
  wrapped,    \* ghost: the usage was counted below zero
  spent       \* [fetches, kills, cleanups]: the bounds spent

vars == <<now, tags, lru, accessed, build, orphans, prunable, gc, raced, torn, wrapped, spent>>

Idle == [pc |-> "idle"]
Locked(t) == \E p \in Procs : build[p] # Idle /\ build[p].tag = t
PresentImages == {ImageOf[t] : t \in tags}
Used == OtherData + prunable + TotalSize(PresentImages)

Init ==
  /\ now = 0
  /\ tags = Tags
  /\ lru = [t \in Tags |-> 0]
  /\ accessed = [t \in Tags |-> 0]
  /\ build = [p \in Procs |-> Idle]
  /\ orphans = {}
  /\ prunable = Prunable
  /\ gc = Idle
  /\ raced = {} /\ torn = FALSE /\ wrapped = FALSE
  /\ spent = [fetches |-> 0, kills |-> 0, cleanups |-> 0]

-----------------------------------------------------------------------------
(* A build: fetch a stage image, run a container from it, exit.            *)

Step(p, from, to) == build[p].pc = from /\ build' = [build EXCEPT ![p].pc = to]

\* Mutant: the lock is not taken.
FetchWithoutLock(p, t) ==
  /\ build[p] = Idle /\ t \in tags /\ spent.fetches < MaxFetches
  /\ build' = [build EXCEPT ![p] = [pc |-> "access", tag |-> t]]
  /\ spent' = [spent EXCEPT !.fetches = @ + 1]
  /\ UNCHANGED <<now, tags, lru, accessed, orphans, prunable, gc, raced, torn, wrapped>>

LockStageImage(p, t) ==
  /\ build[p] = Idle /\ spent.fetches < MaxFetches
  /\ build' = [build EXCEPT ![p] = [pc |-> "fetch", tag |-> t]]
  /\ raced' = IF gc.pc = "rmi" /\ gc.ref = t THEN raced \union {p} ELSE raced
  /\ spent' = [spent EXCEPT !.fetches = @ + 1]
  /\ UNCHANGED <<now, tags, lru, accessed, orphans, prunable, gc, torn, wrapped>>

\* The image is pulled if it is not on the host.
FetchStage(p) ==
  /\ Step(p, "fetch", "access")
  /\ tags' = tags \union {build[p].tag}
  /\ UNCHANGED <<now, lru, accessed, orphans, prunable, gc, raced, torn, wrapped, spent>>

AccessImage(p) ==
  /\ Step(p, "access", "using")
  /\ lru' = [lru EXCEPT ![build[p].tag] = now]
  /\ accessed' = [accessed EXCEPT ![build[p].tag] = now]
  /\ UNCHANGED <<now, tags, orphans, prunable, gc, raced, torn, wrapped, spent>>

\* The container is named, locked and run; it is removed, and the lock
\* released, after the commit.  It cannot be run from an image that is gone.
RunContainer(p) ==
  /\ Step(p, "using", "running")
  /\ build[p].tag \in tags
  /\ UNCHANGED <<now, tags, lru, accessed, orphans, prunable, gc, raced, torn, wrapped, spent>>

\* The container, if one was run, is committed and removed; the locks of the
\* container and of the image are released.
Exit(p) ==
  /\ build[p].pc \in {"using", "running"}
  /\ build' = [build EXCEPT ![p] = Idle]
  /\ raced' = raced \ {p}
  /\ UNCHANGED <<now, tags, lru, accessed, orphans, prunable, gc, torn, wrapped, spent>>

\* The locks are released; a container that runs is left behind, and a record
\* that is being written is cut off.
Kill(p) ==
  /\ spent.kills < MaxKills
  /\ build[p].pc \in {"access", "running"}
  /\ spent' = [spent EXCEPT !.kills = @ + 1]
  /\ build' = [build EXCEPT ![p] = Idle]
  /\ raced' = raced \ {p}
  /\ IF build[p].pc = "running"
     THEN orphans' = orphans \union {build[p].tag} /\ UNCHANGED <<lru, torn>>
     ELSE lru' = [lru EXCEPT ![build[p].tag] = 0] /\ torn' = TRUE /\ UNCHANGED orphans
  /\ UNCHANGED <<now, tags, accessed, prunable, gc, wrapped>>

-----------------------------------------------------------------------------
(* The cleaner: RunGC.                                                     *)

Goto(pc) == gc' = [gc EXCEPT !.pc = pc]

\* Usage is measured; nothing is done at or below the allowed usage.
RunGC ==
  /\ gc = Idle /\ spent.cleanups < MaxCleanups
  /\ spent' = [spent EXCEPT !.cleanups = @ + 1]
  /\ gc' = IF Used <= Allowed THEN Idle ELSE [pc |-> "prune", vu |-> Used]
  /\ UNCHANGED <<now, tags, lru, accessed, build, orphans, prunable, raced, torn, wrapped>>

\* Volumes and dangling images are pruned, unless another prune is running;
\* what the backend reports is taken from the usage, an unsigned number.
Prune ==
  /\ gc.pc = "prune"
  /\ \E reclaimed \in Reports \union {0} :
       /\ prunable' = IF reclaimed = 0 THEN prunable ELSE 0
       /\ LET vu == (gc.vu - reclaimed) % 2^Width IN
            gc' = IF vu <= Allowed THEN Idle ELSE [pc |-> "containers", vu |-> vu]
       /\ wrapped' = (reclaimed > gc.vu)
  /\ UNCHANGED <<now, tags, lru, accessed, build, orphans, raced, torn, spent>>

\* Containers whose name is not locked are removed, unless they still run;
\* those of the builds alive are locked.  Usage is measured again if any went.
CleanupWerfContainers ==
  /\ gc.pc = "containers"
  /\ \E removed \in SUBSET orphans :
       /\ orphans' = orphans \ removed
       /\ gc' = [gc EXCEPT !.pc = "images", !.vu = IF removed = {} THEN @ ELSE Used]
       /\ wrapped' = (wrapped /\ removed = {})
  /\ UNCHANGED <<now, tags, lru, accessed, build, prunable, raced, torn, spent>>

TagsOf(i, present) == {t \in present : ImageOf[t] = i}

\* Mutant: the record of one of the tags is taken.
OneLastUsedAt(i) == Min({lru[t] : t \in TagsOf(i, tags)})

MaxLastUsedAtForImage(i) == Max({lru[t] : t \in TagsOf(i, tags)})

Sorted(list) ==
  \A a, b \in DOMAIN list :
    a < b => MaxLastUsedAtForImage(list[a]) <= MaxLastUsedAtForImage(list[b])

\* The images and their tags are listed, ordered by their last use.
WerfImages ==
  /\ gc.pc = "images"
  /\ \E list \in [1..Cardinality(PresentImages) -> PresentImages] :
       /\ \A a, b \in DOMAIN list : list[a] = list[b] => a = b
       /\ Sorted(list)
       /\ gc' = [pc |-> "batch", vu |-> gc.vu, list |-> list, next |-> 1, last |-> 0,
                 ref |-> None, todo |-> {}, tags |-> tags, removed |-> {},
                 seen |-> [i \in PresentImages |-> Max({accessed[t] : t \in TagsOf(i, tags)})]]
  /\ UNCHANGED <<now, tags, lru, accessed, build, orphans, prunable, raced, torn, wrapped, spent>>

BytesToFree(vu) == IF vu > Target THEN vu - Target ELSE 0

SizeOf(list, i, j) == MapThenSumSet(LAMBDA k : Size[list[k]], i..j)

\* Mutant: the image after the last one needed is taken too.
CountOneMoreImage(list, i, bytes) ==
  IF bytes = 0 \/ i > Len(list) THEN 0
  ELSE Min({j \in i..Len(list) : SizeOf(list, i, j) > bytes} \union {Len(list)})

\* The last of the images from i on that have the bytes to free between them,
\* or the last of the list; 0 for none.
CountImagesToFree(list, i, bytes) ==
  IF bytes = 0 \/ i > Len(list) THEN 0
  ELSE Min({j \in i..Len(list) : SizeOf(list, i, j) >= bytes} \union {Len(list)})

NextBatch ==
  /\ gc.pc = "batch"
  /\ LET n == CountImagesToFree(gc.list, gc.next, BytesToFree(gc.vu))
     IN  gc' = IF n = 0 THEN Idle ELSE [gc EXCEPT !.pc = "image", !.last = n]
  /\ UNCHANGED <<now, tags, lru, accessed, build, orphans, prunable, raced, torn, wrapped, spent>>

\* The tags of the next image of the batch, as listed; after the last one usage
\* is measured again.
NextImage ==
  /\ gc.pc = "image"
  /\ IF gc.next > gc.last
     THEN /\ gc' = [gc EXCEPT !.pc = "batch", !.vu = Used]
          /\ wrapped' = FALSE
     ELSE /\ gc' = [gc EXCEPT !.pc = "check", !.todo = TagsOf(gc.list[gc.next], gc.tags)]
          /\ UNCHANGED wrapped
  /\ UNCHANGED <<now, tags, lru, accessed, build, orphans, prunable, raced, torn, spent>>

\* A locked tag is skipped.
IsLocked(t) ==
  /\ gc.pc = "check" /\ t \in gc.todo
  /\ gc' = IF Locked(t) THEN [gc EXCEPT !.todo = @ \ {t}]
           ELSE [gc EXCEPT !.pc = "rmi", !.ref = t, !.todo = @ \ {t}]
  /\ UNCHANGED <<now, tags, lru, accessed, build, orphans, prunable, raced, torn, wrapped, spent>>

\* Mutant: an image that could not be removed is tried again.
ImageRetried ==
  /\ gc.pc = "check" /\ gc.todo = {}
  /\ gc' = [gc EXCEPT !.pc = "image",
                      !.next = IF gc.list[gc.next] \in PresentImages THEN @ ELSE @ + 1]
  /\ UNCHANGED <<now, tags, lru, accessed, build, orphans, prunable, raced, torn, wrapped, spent>>

ImageDone ==
  /\ gc.pc = "check" /\ gc.todo = {}
  /\ gc' = [gc EXCEPT !.pc = "image", !.next = @ + 1]
  /\ UNCHANGED <<now, tags, lru, accessed, build, orphans, prunable, raced, torn, wrapped, spent>>

UsedByContainer(i) ==
  \/ \E t \in orphans : ImageOf[t] = i
  \/ \E p \in Procs : build[p].pc = "running" /\ ImageOf[build[p].tag] = i

\* The last tag of an image cannot be removed while a container uses it; an
\* error goes to the log.
RemoveImageRef ==
  /\ gc.pc = "rmi"
  /\ LET i == ImageOf[gc.ref]
         last == TagsOf(i, tags) = {gc.ref}
         fails == gc.ref \notin tags \/ (last /\ UsedByContainer(i))
     IN  /\ tags' = IF fails THEN tags ELSE tags \ {gc.ref}
         /\ gc' = [gc EXCEPT !.pc = "check", !.ref = None,
                             !.removed = IF last /\ ~fails THEN @ \union {i} ELSE @]
  /\ UNCHANGED <<now, lru, accessed, build, orphans, prunable, raced, torn, wrapped, spent>>

-----------------------------------------------------------------------------
Tick ==
  /\ now < MaxTime
  /\ now' = now + 1
  /\ UNCHANGED <<tags, lru, accessed, build, orphans, prunable, gc, raced, torn, wrapped, spent>>

Clean ==
  \/ Prune \/ CleanupWerfContainers \/ WerfImages \/ NextBatch \/ NextImage
  \/ \E t \in Tags : IsLocked(t)
  \/ ImageDone \/ RemoveImageRef

Next ==
  \/ \E p \in Procs :
       \/ \E t \in Tags : LockStageImage(p, t)
       \/ FetchStage(p) \/ AccessImage(p) \/ RunContainer(p) \/ Exit(p) \/ Kill(p)
  \/ RunGC \/ Clean \/ Tick

\* The cleaner runs as long as it has a step to take.
Spec == Init /\ [][Next]_vars /\ WF_vars(Clean)

-----------------------------------------------------------------------------
(* Properties.                                                             *)

\* Types of the variables; the usage stays a number of its width, and the
\* cleaner stays within the list of images it has made.
TypeOK ==
  /\ now \in 0..MaxTime
  /\ tags \subseteq Tags /\ orphans \subseteq Tags
  /\ lru \in [Tags -> 0..MaxTime] /\ accessed \in [Tags -> 0..MaxTime]
  /\ \A p \in Procs :
       build[p] = Idle \/ build[p] \in [pc : {"fetch", "access", "using", "running"}, tag : Tags]
  /\ raced \subseteq {p \in Procs : build[p] # Idle}
  /\ gc # Idle => gc.vu \in 0..(2^Width - 1)
  /\ gc.pc = "image" => gc.next \in 1..Len(gc.list) + 1 /\ gc.last \in 1..Len(gc.list)

\* The image a build has locked and found, or runs a container from, is not
\* removed, but for the build that took the lock after the cleaner had tried it
\* (isLocked releases the lock before the removal).
LockedImagesStay ==
  \A p \in Procs \ raced :
    build[p].pc \in {"access", "using", "running"} => build[p].tag \in tags

\* Of the images listed, no one that goes was used later than one still to come,
\* under whichever of the tags it had, unless the record of an access was lost.
LeastRecentlyUsedFirst ==
  gc.pc \in {"batch", "image", "check", "rmi"} /\ ~torn =>
    \A i \in gc.removed, k \in gc.next..Len(gc.list) :
      gc.seen[i] <= gc.seen[gc.list[k]]

\* A tag is removed only while the volume is used beyond the target, also when
\* tags were skipped and after pulls, unless the usage was counted below zero
\* (the reports of the prunes are subtracted unchecked).
RemovesOnlyAboveTarget == gc.pc = "rmi" /\ ~wrapped => Used > Target

\* A cleanup ends, whatever is locked or in use.
CleanupEnds == (gc # Idle) ~> (gc = Idle)
=============================================================================
