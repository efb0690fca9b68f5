------------------------- MODULE HostCleanupProofs -------------------------
(***************************************************************************)
(* Proofs about HostCleanup, for any number of builds, images, tags and    *)
(* cleanups: an image in use is not removed but in the window between      *)
(* isLocked and the removal, the least recently used go first, and tags    *)
(* are removed only while the volume is used beyond the target.            *)
(***************************************************************************)
EXTENDS HostCleanup, FiniteSetTheorems, WellFoundedInduction, TLAPS

-----------------------------------------------------------------------------
(* The inductive invariants.                                               *)

Builds == {Idle} \union [pc : {"fetch", "access", "using", "running"}, tag : Tags]
Listed == {"batch", "image", "check", "rmi"}

\* The part of the types that the proofs need; a record of the cleaner has the
\* fields of its phase.
Typed ==
  /\ now \in 0..MaxTime
  /\ lru \in [Tags -> 0..MaxTime] /\ accessed \in [Tags -> 0..MaxTime]
  /\ tags \subseteq Tags
  /\ build \in [Procs -> Builds]
  /\ raced \subseteq Procs
  /\ gc.pc \in {"idle", "prune", "containers", "images"} \union Listed
  /\ gc.pc = "idle" => gc = Idle
  /\ gc.pc \in {"prune", "containers", "images"} => gc = [pc |-> gc.pc, vu |-> gc.vu]
  /\ gc.pc \in Listed =>
       gc = [pc |-> gc.pc, vu |-> gc.vu, list |-> gc.list, next |-> gc.next, last |-> gc.last,
             ref |-> gc.ref, todo |-> gc.todo, tags |-> gc.tags, removed |-> gc.removed,
             seen |-> gc.seen]

\* While the cleaner is about to remove a tag, whoever has it locked came after
\* the cleaner had tried the lock.
WindowInv ==
  gc.pc = "rmi" =>
    \A p \in Procs : build[p] # Idle /\ build[p].tag = gc.ref => p \in raced

LockInv == Typed /\ WindowInv /\ LockedImagesStay

\* The records are those of the accesses unless one was cut off.
RecordsInv == ~torn => lru = accessed

\* The list is in the order of the accesses seen.
ListInv ==
  gc.pc \in Listed =>
    /\ gc.next \in Nat \ {0}
    /\ Len(gc.list) \in Nat
    /\ \A a \in 1..Len(gc.list) : gc.seen[gc.list[a]] \in Nat
    /\ ~torn => \A a, b \in 1..Len(gc.list) :
                  a < b => gc.seen[gc.list[a]] <= gc.seen[gc.list[b]]

\* What was removed comes from the list up to the image at hand, as do the tags
\* that are still to be removed.
RemovedInv ==
  gc.pc \in Listed =>
    /\ \A i \in gc.removed : \E a \in 1..gc.next : i = gc.list[a]
    /\ gc.pc \in {"check", "rmi"} => \A t \in gc.todo : ImageOf[t] = gc.list[gc.next]
    /\ gc.pc = "rmi" => ImageOf[gc.ref] = gc.list[gc.next]

OrderInv == Typed /\ RecordsInv /\ ListInv /\ RemovedInv

-----------------------------------------------------------------------------
(* The latest of a set of times.                                           *)

LEMMA LeastNatural ==
  ASSUME NEW S \in SUBSET Nat, S # {}
  PROVE  \E n \in S : \A m \in S : n <= m
<1> DEFINE Less == {p \in Nat \X Nat : p[1] < p[2]}
<1>1. IsWellFoundedOn(Less, Nat)
  BY NatLessThanWellFounded, Zenon DEF OpToRel
<1>2. PICK n \in S : \A m \in S : ~(<<m, n>> \in Less)
  BY <1>1, WFMin, Zenon
<1>3. \A m \in S : ~(m < n)
  BY <1>2
<1> QED
  BY <1>3

LEMMA MaxTimeExists ==
  ASSUME NEW S \in SUBSET (0..MaxTime), S # {}
  PROVE  Max(S) \in S
<1> DEFINE R == {MaxTime - x : x \in S}
<1>0. MaxTime \in Nat /\ \A x \in S : x \in 0..MaxTime
  BY ConstantsAssumption
<1>1. R \in SUBSET Nat /\ R # {}
  <2>1. ASSUME NEW y \in R PROVE y \in Nat
    <3>1. PICK x \in S : y = MaxTime - x
      OBVIOUS
    <3> QED
      BY <1>0, <3>1
  <2> QED
    BY <2>1
<1>2. PICK n \in R : \A m \in R : n <= m
  BY <1>1, LeastNatural
<1>3. PICK x \in S : n = MaxTime - x
  BY <1>2
<1>4. \A y \in S : x >= y
  BY <1>0, <1>2, <1>3
<1> QED
  BY <1>4 DEF Max

-----------------------------------------------------------------------------
(* Types.                                                                  *)

LEMMA InitTyped == Init => Typed
  BY ConstantsAssumption DEF Init, Typed, Builds, Listed, Idle

LEMMA BuildTyped ==
  ASSUME Typed, NEW p \in Procs,
         \/ \E t \in Tags : LockStageImage(p, t)
         \/ FetchStage(p) \/ AccessImage(p) \/ RunContainer(p) \/ Exit(p) \/ Kill(p)
  PROVE  Typed'
<1> USE ConstantsAssumption DEF Typed, Builds, Idle, Step
<1>1. ASSUME NEW t \in Tags, LockStageImage(p, t) PROVE Typed'
  BY <1>1 DEF LockStageImage
<1>2. CASE FetchStage(p)
  BY <1>2 DEF FetchStage
<1>3. CASE AccessImage(p)
  BY <1>3 DEF AccessImage
<1>4. CASE RunContainer(p)
  BY <1>4 DEF RunContainer
<1>5. CASE Exit(p)
  BY <1>5 DEF Exit
<1>6. CASE Kill(p)
  BY <1>6 DEF Kill
<1> QED
  BY <1>1, <1>2, <1>3, <1>4, <1>5, <1>6

LEMMA CleanTyped ==
  ASSUME Typed, Clean \/ RunGC
  PROVE  Typed'
<1> USE ConstantsAssumption DEF Typed, Builds, Idle, Listed
<1>1. CASE RunGC
  BY <1>1 DEF RunGC
<1>2. CASE Prune
  BY <1>2 DEF Prune
<1>3. CASE CleanupWerfContainers
  BY <1>3 DEF CleanupWerfContainers
<1>4. CASE WerfImages
  BY <1>4 DEF WerfImages
<1>5. CASE NextBatch
  BY <1>5 DEF NextBatch
<1>6. CASE NextImage
  BY <1>6 DEF NextImage
<1>7. ASSUME NEW t \in Tags, IsLocked(t) PROVE Typed'
  BY <1>7 DEF IsLocked
<1>8. CASE ImageDone
  BY <1>8 DEF ImageDone
<1>9. CASE RemoveImageRef
  BY <1>9 DEF RemoveImageRef
<1> QED
  BY <1>1, <1>2, <1>3, <1>4, <1>5, <1>6, <1>7, <1>8, <1>9 DEF Clean

LEMMA StepTyped == Typed /\ [Next]_vars => Typed'
<1>1. Typed /\ Tick => Typed'
  BY ConstantsAssumption DEF Typed, Tick
<1>2. Typed /\ UNCHANGED vars => Typed'
  BY DEF Typed, vars
<1> QED
  BY <1>1, <1>2, BuildTyped, CleanTyped DEF Next

-----------------------------------------------------------------------------
(* Locked images.                                                          *)

LEMMA BuildKeepsLocks ==
  ASSUME LockInv, NEW p \in Procs,
         \/ \E t \in Tags : LockStageImage(p, t)
         \/ FetchStage(p) \/ AccessImage(p) \/ RunContainer(p) \/ Exit(p) \/ Kill(p)
  PROVE  WindowInv' /\ LockedImagesStay'
<1> USE DEF LockInv, Typed, WindowInv, LockedImagesStay, Builds, Idle, Step
<1>1. ASSUME NEW t \in Tags, LockStageImage(p, t) PROVE WindowInv' /\ LockedImagesStay'
  BY <1>1 DEF LockStageImage
<1>2. CASE FetchStage(p)
  BY <1>2 DEF FetchStage
<1>3. CASE AccessImage(p)
  BY <1>3 DEF AccessImage
<1>4. CASE RunContainer(p)
  BY <1>4 DEF RunContainer
<1>5. CASE Exit(p)
  BY <1>5 DEF Exit
<1>6. CASE Kill(p)
  BY <1>6 DEF Kill
<1> QED
  BY <1>1, <1>2, <1>3, <1>4, <1>5, <1>6

\* Only a tag that was not locked gets into the window, and only the tag in the
\* window is removed.
LEMMA CleanKeepsLocks ==
  ASSUME LockInv, Clean \/ RunGC
  PROVE  WindowInv' /\ LockedImagesStay'
<1> USE DEF LockInv, Typed, WindowInv, LockedImagesStay, Builds, Idle, Listed
<1>1. CASE RunGC
  BY <1>1 DEF RunGC
<1>2. CASE Prune
  BY <1>2 DEF Prune
<1>3. CASE CleanupWerfContainers
  BY <1>3 DEF CleanupWerfContainers
<1>4. CASE WerfImages
  BY <1>4 DEF WerfImages
<1>5. CASE NextBatch
  BY <1>5 DEF NextBatch
<1>6. CASE NextImage
  BY <1>6 DEF NextImage
<1>7. ASSUME NEW t \in Tags, IsLocked(t) PROVE WindowInv' /\ LockedImagesStay'
  BY <1>7 DEF IsLocked, Locked
<1>8. CASE ImageDone
  BY <1>8 DEF ImageDone
<1>9. CASE RemoveImageRef
  <2>1. /\ tags' = tags \/ tags' = tags \ {gc.ref}
        /\ gc'.pc = "check"
        /\ gc.pc = "rmi"
        /\ UNCHANGED <<build, raced>>
    BY <1>9 DEF RemoveImageRef
  <2>2. ASSUME NEW p \in Procs \ raced', build'[p].pc \in {"access", "using", "running"}
        PROVE  build'[p].tag \in tags'
    <3>1. build[p] # Idle /\ build[p].tag \in tags /\ build[p].tag # gc.ref
      BY <2>1, <2>2
    <3> QED
      BY <2>1, <3>1
  <2> QED
    BY <2>1, <2>2
<1> QED
  BY <1>1, <1>2, <1>3, <1>4, <1>5, <1>6, <1>7, <1>8, <1>9 DEF Clean

(* The image of a build that has it locked and found, or runs a container  *)
(* from it, stays on the host, unless the lock was taken in the window of  *)
(* isLocked; so in particular cleanups and builds one after another never  *)
(* take an image from a build.                                             *)
THEOREM UsedImagesStay == Spec => []LockedImagesStay
<1>1. Init => LockInv
  BY InitTyped DEF Init, LockInv, WindowInv, LockedImagesStay, Idle
<1>2. LockInv /\ [Next]_vars => LockInv'
  <2>1. LockInv /\ (Tick \/ UNCHANGED vars) => WindowInv' /\ LockedImagesStay'
    BY DEF Tick, vars, LockInv, WindowInv, LockedImagesStay
  <2> QED
    BY <2>1, StepTyped, BuildKeepsLocks, CleanKeepsLocks DEF Next, LockInv
<1>3. LockInv => LockedImagesStay
  BY DEF LockInv
<1> QED
  BY <1>1, <1>2, <1>3, PTL DEF Spec

-----------------------------------------------------------------------------
(* Least recently used first.                                              *)

LEMMA BuildKeepsOrder ==
  ASSUME OrderInv, NEW p \in Procs,
         \/ \E t \in Tags : LockStageImage(p, t)
         \/ FetchStage(p) \/ AccessImage(p) \/ RunContainer(p) \/ Exit(p) \/ Kill(p)
  PROVE  RecordsInv' /\ ListInv' /\ RemovedInv'
<1> USE DEF OrderInv, RecordsInv, ListInv, RemovedInv, Step
<1>1. ASSUME NEW t \in Tags, LockStageImage(p, t) PROVE RecordsInv' /\ ListInv' /\ RemovedInv'
  BY <1>1 DEF LockStageImage
<1>2. CASE FetchStage(p)
  BY <1>2 DEF FetchStage
<1>3. CASE AccessImage(p)
  BY <1>3 DEF AccessImage
<1>4. CASE RunContainer(p)
  BY <1>4 DEF RunContainer
<1>5. CASE Exit(p)
  BY <1>5 DEF Exit
<1>6. CASE Kill(p)
  BY <1>6 DEF Kill
<1> QED
  BY <1>1, <1>2, <1>3, <1>4, <1>5, <1>6

\* The list is sorted by the records, which are those of the accesses.
LEMMA ListIsSorted ==
  ASSUME OrderInv, WerfImages
  PROVE  ListInv' /\ RemovedInv'
<1>1. PICK list \in [1..Cardinality(PresentImages) -> PresentImages] :
        /\ Sorted(list)
        /\ gc' = [pc |-> "batch", vu |-> gc.vu, list |-> list, next |-> 1, last |-> 0,
                  ref |-> None, todo |-> {}, tags |-> tags, removed |-> {},
                  seen |-> [i \in PresentImages |-> Max({accessed[t] : t \in TagsOf(i, tags)})]]
  BY DEF WerfImages
<1> DEFINE Seen(i) == Max({accessed[t] : t \in TagsOf(i, tags)})
<1>2. ASSUME NEW i \in PresentImages
      PROVE  Seen(i) \in Nat
  <2>1. {accessed[t] : t \in TagsOf(i, tags)} \in SUBSET (0..MaxTime)
    BY DEF TagsOf, OrderInv, Typed
  <2>2. {accessed[t] : t \in TagsOf(i, tags)} # {}
    BY DEF TagsOf, PresentImages
  <2>3. MaxTime \in Nat
    BY ConstantsAssumption
  <2>4. Seen(i) \in 0..MaxTime
    BY <2>1, <2>2, MaxTimeExists
  <2> QED
    BY <2>3, <2>4
<1>3. ~torn => \A i \in PresentImages : Seen(i) = MaxLastUsedAtForImage(i)
  BY DEF OrderInv, RecordsInv, MaxLastUsedAtForImage
<1> HIDE DEF Seen
<1>4. Cardinality(PresentImages) \in Nat
  <2>1. PresentImages \subseteq Images
    BY ConstantsAssumption DEF PresentImages, OrderInv, Typed
  <2> QED
    BY <2>1, ConstantsAssumption, FS_Subset, FS_CardinalityType
<1> QED
  <2>1. Len(list) = Cardinality(PresentImages) /\ DOMAIN list = 1..Len(list)
    BY <1>4
  <2>2. ~torn => \A a, b \in 1..Len(list) : a < b => Seen(list[a]) <= Seen(list[b])
    BY <1>1, <1>3, <2>1 DEF Sorted
  <2> QED
    BY <1>1, <1>2, <2>1, <2>2, <1>4 DEF ListInv, RemovedInv, WerfImages, Listed, Seen

LEMMA CleanKeepsOrder ==
  ASSUME OrderInv, Clean \/ RunGC
  PROVE  RecordsInv' /\ ListInv' /\ RemovedInv'
<1> USE DEF OrderInv, Typed, RecordsInv, ListInv, RemovedInv, Idle, Listed
<1>1. CASE RunGC
  BY <1>1 DEF RunGC
<1>2. CASE Prune
  BY <1>2 DEF Prune
<1>3. CASE CleanupWerfContainers
  BY <1>3 DEF CleanupWerfContainers
<1>4. CASE WerfImages
  BY <1>4, ListIsSorted DEF WerfImages
<1>5. CASE NextBatch
  BY <1>5 DEF NextBatch
<1>6. CASE NextImage
  <2>1. CASE gc.next > gc.last
    <3>1. /\ gc.pc = "image"
          /\ gc' = [gc EXCEPT !.pc = "batch", !.vu = Used]
          /\ UNCHANGED <<lru, accessed, torn>>
      BY <1>6, <2>1 DEF NextImage
    <3>2. /\ gc'.pc = "batch" /\ gc'.list = gc.list /\ gc'.next = gc.next
          /\ gc'.seen = gc.seen /\ gc'.removed = gc.removed
      BY <3>1
    <3> QED
      BY <3>1, <3>2
  <2>2. CASE ~(gc.next > gc.last)
    <3>1. /\ gc' = [gc EXCEPT !.pc = "check", !.todo = TagsOf(gc.list[gc.next], gc.tags)]
          /\ UNCHANGED <<lru, accessed, build, tags, torn>>
      BY <1>6, <2>2 DEF NextImage
    <3>2. \A t \in TagsOf(gc.list[gc.next], gc.tags) : ImageOf[t] = gc.list[gc.next]
      BY DEF TagsOf
    <3> HIDE DEF TagsOf
    <3> QED
      BY <1>6, <2>2, <3>1, <3>2 DEF NextImage
  <2> QED
    BY <2>1, <2>2
<1>7. ASSUME NEW t \in Tags, IsLocked(t) PROVE RecordsInv' /\ ListInv' /\ RemovedInv'
  BY <1>7 DEF IsLocked
<1>8. CASE ImageDone
  BY <1>8 DEF ImageDone
<1>9. CASE RemoveImageRef
  BY <1>9 DEF RemoveImageRef
<1> QED
  BY <1>1, <1>2, <1>3, <1>4, <1>5, <1>6, <1>7, <1>8, <1>9 DEF Clean

(* As long as no record of an access is cut off, cleanupWerfImages removes *)
(* no image that was used later, under any of its tags, than one that it   *)
(* comes to afterwards, whatever builds record while it runs.              *)
THEOREM OldestImagesFirst == Spec => []LeastRecentlyUsedFirst
<1>1. Init => OrderInv
  BY InitTyped DEF Init, OrderInv, RecordsInv, ListInv, RemovedInv, Idle, Listed
<1>2. OrderInv /\ [Next]_vars => OrderInv'
  <2>1. OrderInv /\ (Tick \/ UNCHANGED vars) => RecordsInv' /\ ListInv' /\ RemovedInv'
    BY DEF Tick, vars, OrderInv, RecordsInv, ListInv, RemovedInv
  <2> QED
    BY <2>1, StepTyped, BuildKeepsOrder, CleanKeepsOrder DEF Next, OrderInv
<1>3. OrderInv => LeastRecentlyUsedFirst
  <2> SUFFICES ASSUME OrderInv, gc.pc \in Listed, ~torn,
                      NEW i \in gc.removed, NEW k \in gc.next..Len(gc.list)
               PROVE  gc.seen[i] <= gc.seen[gc.list[k]]
    BY DEF LeastRecentlyUsedFirst, Listed
  <2>1. PICK a \in 1..gc.next : i = gc.list[a]
    BY DEF OrderInv, RemovedInv
  <2> QED
    BY <2>1 DEF OrderInv, ListInv
<1> QED
  BY <1>1, <1>2, <1>3, PTL DEF Spec

-----------------------------------------------------------------------------
(* Sums over finite sets.                                                  *)

Pick(s) == CHOOSE x \in s : TRUE

\* The equation of a sum of w, at the set s.
SumAt(g, w, s) == g[s] = IF s = {} THEN 0 ELSE w[Pick(s)] + g[s \ {Pick(s)}]

LEMMA PickIn == \A s : s # {} => Pick(s) \in s
  BY DEF Pick

LEMMA Smaller ==
  ASSUME NEW S, IsFiniteSet(S), NEW s \in SUBSET S, NEW x \in s
  PROVE  /\ s \ {x} \in SUBSET S
         /\ Cardinality(s) \in Nat /\ Cardinality(s \ {x}) \in Nat
         /\ Cardinality(s \ {x}) = Cardinality(s) - 1
<1>1. IsFiniteSet(s)
  BY FS_Subset
<1> QED
  BY <1>1, FS_RemoveElement, FS_CardinalityType

\* The subsets of S of at most n elements.
UpTo(S, n) == {s \in SUBSET S : Cardinality(s) <= n}

LEMMA SumUpTo ==
  ASSUME NEW S, IsFiniteSet(S), NEW w, \A x \in S : w[x] \in Nat, NEW n \in Nat
  PROVE  \E g \in [UpTo(S, n) -> Nat] : \A s \in UpTo(S, n) : SumAt(g, w, s)
<1> DEFINE Has(m) == \E g \in [UpTo(S, m) -> Nat] : \A s \in UpTo(S, m) : SumAt(g, w, s)
           Bad == {m \in Nat : ~Has(m)}
<1>0. ASSUME NEW s \in SUBSET S, Cardinality(s) <= 0 PROVE s = {}
  <2>1. IsFiniteSet(s)
    BY FS_Subset
  <2> QED
    BY <1>0, <2>1, FS_EmptySet, FS_CardinalityType
<1>1. Has(0)
  <2> DEFINE g == [s \in UpTo(S, 0) |-> 0]
  <2>1. g \in [UpTo(S, 0) -> Nat]
    OBVIOUS
  <2>2. \A s \in UpTo(S, 0) : s = {}
    BY <1>0 DEF UpTo
  <2>3. \A s \in UpTo(S, 0) : SumAt(g, w, s)
    BY <2>2 DEF SumAt
  <2> QED
    BY <2>1, <2>3
<1>2. ASSUME NEW m \in Nat, Has(m) PROVE Has(m + 1)
  <2>1. PICK h \in [UpTo(S, m) -> Nat] : \A s \in UpTo(S, m) : SumAt(h, w, s)
    BY <1>2
  <2> DEFINE Val(s) == IF s = {} THEN 0 ELSE w[Pick(s)] + h[s \ {Pick(s)}]
             g == [s \in UpTo(S, m + 1) |-> Val(s)]
  <2>2. ASSUME NEW s \in UpTo(S, m + 1), s # {}
        PROVE  s \ {Pick(s)} \in UpTo(S, m) /\ s \ {Pick(s)} \in UpTo(S, m + 1) /\ w[Pick(s)] \in Nat
    <3>1. Pick(s) \in s /\ s \in SUBSET S /\ Cardinality(s) <= m + 1
      BY <2>2, PickIn DEF UpTo
    <3>2. /\ s \ {Pick(s)} \in SUBSET S /\ Cardinality(s) \in Nat
          /\ Cardinality(s \ {Pick(s)}) = Cardinality(s) - 1
      BY <3>1, Smaller
    <3> QED
      BY <3>1, <3>2 DEF UpTo
  <2>3. g \in [UpTo(S, m + 1) -> Nat]
    <3>1. \A s \in UpTo(S, m + 1) : Val(s) \in Nat
      BY <2>2
    <3> QED
      BY <3>1
  <2>4. \A t \in UpTo(S, m) : t \in UpTo(S, m + 1) => g[t] = h[t]
    BY <2>1 DEF SumAt
  <2>5. \A s \in UpTo(S, m + 1) : SumAt(g, w, s)
    BY <2>2, <2>4 DEF SumAt
  <2> QED
    BY <2>3, <2>5
<1> HIDE DEF Has
<1>3. CASE Bad = {}
  BY <1>3 DEF Has
<1>4. CASE Bad # {}
  <2>1. PICK m \in Bad : \A k \in Bad : m <= k
    BY <1>4, LeastNatural
  <2>2. m # 0
    BY <1>1
  <2>3. m - 1 \in Nat /\ m - 1 \notin Bad
    BY <2>1, <2>2
  <2>4. Has(m - 1) /\ m = (m - 1) + 1
    BY <2>3
  <2>5. Has((m - 1) + 1)
    BY <2>3, <2>4, <1>2
  <2> QED
    BY <2>1, <2>4, <2>5
<1> QED
  BY <1>3, <1>4

LEMMA SumExists ==
  ASSUME NEW S, IsFiniteSet(S), NEW w, \A x \in S : w[x] \in Nat
  PROVE  \E g \in [SUBSET S -> Nat] : \A s \in SUBSET S : SumAt(g, w, s)
<1>1. UpTo(S, Cardinality(S)) = SUBSET S
  BY FS_Subset DEF UpTo
<1>2. Cardinality(S) \in Nat
  BY FS_CardinalityType
<1> QED
  BY <1>1, <1>2, SumUpTo

\* Any two functions that satisfy the equation are equal.
LEMMA SumUnique ==
  ASSUME NEW S, IsFiniteSet(S), NEW w, NEW g, NEW h,
         \A s \in SUBSET S : SumAt(g, w, s),
         NEW T, IsFiniteSet(T), S \subseteq T,
         \A s \in SUBSET T : SumAt(h, w, s)
  PROVE  \A s \in SUBSET S : g[s] = h[s]
<1> DEFINE Bad == {m \in Nat : \E s \in SUBSET S : Cardinality(s) = m /\ g[s] # h[s]}
<1>1. SUFFICES ASSUME Bad # {} PROVE FALSE
  BY FS_Subset, FS_CardinalityType
<1>2. PICK m \in Bad : \A k \in Bad : m <= k
  BY <1>1, LeastNatural
<1>3. PICK s \in SUBSET S : Cardinality(s) = m /\ g[s] # h[s]
  BY <1>2
<1>4. CASE s = {}
  BY <1>3, <1>4 DEF SumAt
<1>5. CASE s # {}
  <2>1. Pick(s) \in s
    BY <1>5, PickIn
  <2>2. /\ s \ {Pick(s)} \in SUBSET S /\ Cardinality(s) \in Nat
        /\ Cardinality(s \ {Pick(s)}) = Cardinality(s) - 1 /\ Cardinality(s \ {Pick(s)}) \in Nat
    BY <2>1, Smaller
  <2>3. Cardinality(s \ {Pick(s)}) \notin Bad
    BY <1>2, <1>3, <2>2
  <2>4. g[s \ {Pick(s)}] = h[s \ {Pick(s)}]
    BY <2>2, <2>3
  <2> QED
    BY <1>3, <1>5, <2>4 DEF SumAt
<1> QED
  BY <1>4, <1>5

SumOf(w, S) == (CHOOSE g \in [SUBSET S -> Nat] : \A s \in SUBSET S : SumAt(g, w, s))[S]

LEMMA SumOfIs ==
  ASSUME NEW T, IsFiniteSet(T), NEW w, \A x \in T : w[x] \in Nat, NEW g,
         \A s \in SUBSET T : SumAt(g, w, s), NEW S \in SUBSET T
  PROVE  g[S] = SumOf(w, S) /\ SumOf(w, S) \in Nat
<1>1. IsFiniteSet(S)
  BY FS_Subset
<1> DEFINE h == CHOOSE g1 \in [SUBSET S -> Nat] : \A s \in SUBSET S : SumAt(g1, w, s)
<1>2. h \in [SUBSET S -> Nat] /\ \A s \in SUBSET S : SumAt(h, w, s)
  BY <1>1, SumExists
<1>3. SumOf(w, S) = h[S]
  BY DEF SumOf
<1> HIDE DEF h
<1>4. \A s \in SUBSET S : h[s] = g[s]
  <2>1. S \subseteq T /\ \A s \in SUBSET S : SumAt(h, w, s)
    BY <1>2
  <2> QED
    BY ONLY <1>1, <2>1, SumUnique, IsFiniteSet(T), \A s \in SUBSET T : SumAt(g, w, s)
<1> QED
  BY <1>2, <1>3, <1>4

\* Any element may be taken out first.
LEMMA SumTake ==
  ASSUME NEW S, IsFiniteSet(S), NEW w, \A y \in S : w[y] \in Nat, NEW x \in S
  PROVE  SumOf(w, S) = w[x] + SumOf(w, S \ {x})
<1>1. PICK g \in [SUBSET S -> Nat] : \A s \in SUBSET S : SumAt(g, w, s)
  BY SumExists
<1> DEFINE Wrong(s) == \E y \in s : g[s] # w[y] + g[s \ {y}]
           Bad == {m \in Nat : \E s \in SUBSET S : Cardinality(s) = m /\ Wrong(s)}
<1>2. ASSUME Bad # {} PROVE FALSE
  <2>1. PICK m \in Bad : \A k \in Bad : m <= k
    BY <1>2, LeastNatural
  <2>2. PICK s \in SUBSET S : Cardinality(s) = m /\ Wrong(s)
    BY <2>1
  <2>3. PICK y \in s : g[s] # w[y] + g[s \ {y}]
    BY <2>2
  <2> DEFINE x0 == Pick(s)
  <2>4. x0 \in s /\ g[s] = w[x0] + g[s \ {x0}]
    BY <1>1, PickIn DEF SumAt
  <2> HIDE DEF x0
  <2>5. x0 # y
    BY <2>3, <2>4
  <2>6. /\ s \ {x0} \in SUBSET S /\ Cardinality(s \ {x0}) \in Nat
        /\ Cardinality(s \ {x0}) < Cardinality(s)
        /\ s \ {y} \in SUBSET S /\ Cardinality(s \ {y}) \in Nat
        /\ Cardinality(s \ {y}) < Cardinality(s)
    <3>1. ASSUME NEW z \in s
          PROVE  /\ s \ {z} \in SUBSET S /\ Cardinality(s \ {z}) \in Nat
                 /\ Cardinality(s \ {z}) < Cardinality(s)
      <4>1. /\ s \ {z} \in SUBSET S
            /\ Cardinality(s) \in Nat /\ Cardinality(s \ {z}) \in Nat
            /\ Cardinality(s \ {z}) = Cardinality(s) - 1
        BY Smaller
      <4> QED
        BY <4>1
    <3> QED
      BY <2>4, <3>1
  <2>7. ~Wrong(s \ {x0}) /\ ~Wrong(s \ {y})
    <3>1. ASSUME NEW r \in SUBSET S, Wrong(r), Cardinality(r) \in Nat, Cardinality(r) < Cardinality(s)
          PROVE  FALSE
      <4>1. Cardinality(r) \in Bad /\ m \in Nat
        BY <3>1
      <4> QED
        BY <2>1, <2>2, <3>1, <4>1
    <3> HIDE DEF Wrong
    <3> QED
      BY <2>6, <3>1
  <2>8. /\ g[s \ {x0}] = w[y] + g[(s \ {x0}) \ {y}]
        /\ g[s \ {y}] = w[x0] + g[(s \ {y}) \ {x0}]
    BY <2>4, <2>5, <2>7
  <2>9. (s \ {x0}) \ {y} = (s \ {y}) \ {x0} /\ (s \ {y}) \ {x0} \in SUBSET S
    BY <2>6
  <2>10. w[x0] \in Nat /\ w[y] \in Nat /\ g[(s \ {y}) \ {x0}] \in Nat
    BY <1>1, <2>4, <2>9
  <2> QED
    <3>1. \A a, b, c \in Nat : a + (b + c) = b + (a + c)
      OBVIOUS
    <3>2. g[s] = w[x0] + (w[y] + g[(s \ {y}) \ {x0}])
      BY <2>4, <2>8, <2>9
    <3>3. g[s] = w[y] + (w[x0] + g[(s \ {y}) \ {x0}])
      BY ONLY <3>1, <3>2, <2>10
    <3> QED
      BY ONLY <2>3, <2>8, <3>3
<1>3. Cardinality(S) \in Nat
  BY FS_CardinalityType
<1>4. g[S] = w[x] + g[S \ {x}]
  BY <1>2, <1>3
<1>5. g[S] = SumOf(w, S) /\ g[S \ {x}] = SumOf(w, S \ {x})
  BY <1>1, SumOfIs
<1> QED
  BY <1>4, <1>5

LEMMA TotalIsSum ==
  ASSUME NEW S, IsFiniteSet(S), \A x \in S : Size[x] \in Nat
  PROVE  TotalSize(S) = SumOf(Size, S)
<1> DEFINE Body(g) == [s \in SUBSET S |-> IF s = {} THEN 0 ELSE Size[Pick(s)] + g[s \ {Pick(s)}]]
           f == CHOOSE g : g = Body(g)
<1>1. TotalSize(S) = f[S]
  BY DEF TotalSize, MapThenSumSet, MapThenFoldSet, Pick
<1>2. PICK g \in [SUBSET S -> Nat] : \A s \in SUBSET S : SumAt(g, Size, s)
  BY SumExists
<1>3. g = Body(g)
  BY <1>2 DEF SumAt
<1>4. f = Body(f)
  BY <1>3
<1> HIDE DEF f
<1>5. \A s \in SUBSET S : SumAt(f, Size, s)
  BY <1>4 DEF SumAt
<1> QED
  BY <1>1, <1>5, SumOfIs

LEMMA SizeOfIsSum ==
  ASSUME NEW list, NEW i \in Int, NEW j \in Int, \A k \in i..j : Size[list[k]] \in Nat
  PROVE  SizeOf(list, i, j) = SumOf([k \in i..j |-> Size[list[k]]], i..j)
<1> DEFINE w == [k \in i..j |-> Size[list[k]]]
           Body(g) == [s \in SUBSET (i..j) |->
                         IF s = {} THEN 0 ELSE Size[list[Pick(s)]] + g[s \ {Pick(s)}]]
           f == CHOOSE g : g = Body(g)
<1>0. IsFiniteSet(i..j) /\ \A k \in i..j : w[k] \in Nat
  BY FS_Interval
<1>1. SizeOf(list, i, j) = f[i..j]
  BY DEF SizeOf, MapThenSumSet, MapThenFoldSet, Pick
<1>2. \A s \in SUBSET (i..j) : s # {} => w[Pick(s)] = Size[list[Pick(s)]]
  BY PickIn
<1>3. PICK g \in [SUBSET (i..j) -> Nat] : \A s \in SUBSET (i..j) : SumAt(g, w, s)
  BY <1>0, SumExists
<1>4. g = Body(g)
  BY <1>2, <1>3 DEF SumAt
<1>5. f = Body(f)
  BY <1>4
<1> HIDE DEF f
<1>6. \A s \in SUBSET (i..j) : SumAt(f, w, s)
  BY <1>2, <1>5 DEF SumAt
<1> QED
  BY <1>0, <1>1, <1>6, SumOfIs

LEMMA SumSame ==
  ASSUME NEW S, IsFiniteSet(S), NEW w, NEW v, \A x \in S : w[x] \in Nat /\ v[x] = w[x]
  PROVE  SumOf(w, S) = SumOf(v, S)
<1>1. PICK g \in [SUBSET S -> Nat] : \A s \in SUBSET S : SumAt(g, w, s)
  BY SumExists
<1>2. \A s \in SUBSET S : SumAt(g, v, s)
  <2>1. ASSUME NEW s \in SUBSET S PROVE SumAt(g, v, s)
    <3>1. s # {} => v[Pick(s)] = w[Pick(s)]
      BY PickIn
    <3>2. SumAt(g, w, s)
      BY <1>1
    <3> QED
      BY <3>1, <3>2 DEF SumAt
  <2> QED
    BY <2>1
<1>3. g[S] = SumOf(w, S)
  BY <1>1, SumOfIs
<1>4. g[S] = SumOf(v, S)
  BY <1>2, SumOfIs
<1> QED
  BY <1>3, <1>4

LEMMA SumOfNat ==
  ASSUME NEW S, IsFiniteSet(S), NEW w, \A x \in S : w[x] \in Nat
  PROVE  SumOf(w, S) \in Nat /\ (S = {} => SumOf(w, S) = 0)
<1>1. PICK g \in [SUBSET S -> Nat] : \A s \in SUBSET S : SumAt(g, w, s)
  BY SumExists
<1>2. g[S] = SumOf(w, S)
  BY <1>1, SumOfIs
<1> QED
  BY <1>1, <1>2 DEF SumAt

\* The first image of a batch can be taken from its size.
LEMMA SizeOfTake ==
  ASSUME NEW list, NEW i \in Int, NEW j \in Int, \A k \in i..j : Size[list[k]] \in Nat
  PROVE  /\ SizeOf(list, i, j) \in Nat
         /\ i <= j => SizeOf(list, i, j) = Size[list[i]] + SizeOf(list, i + 1, j)
         /\ j < i => SizeOf(list, i, j) = 0
<1> DEFINE w == [k \in i..j |-> Size[list[k]]]
           v == [k \in (i + 1)..j |-> Size[list[k]]]
<1>1. IsFiniteSet(i..j) /\ IsFiniteSet((i + 1)..j)
  BY FS_Interval
<1>2. \A k \in i..j : w[k] \in Nat
  OBVIOUS
<1>3. SizeOf(list, i, j) = SumOf(w, i..j)
  BY SizeOfIsSum
<1>4. SizeOf(list, i + 1, j) = SumOf(v, (i + 1)..j)
  <2>1. i + 1 \in Int /\ \A k \in (i + 1)..j : Size[list[k]] \in Nat
    OBVIOUS
  <2> QED
    BY <2>1, SizeOfIsSum
<1>5. SumOf(w, i..j) \in Nat /\ (i..j = {} => SumOf(w, i..j) = 0)
  BY <1>1, <1>2, SumOfNat
<1>6. ASSUME i <= j PROVE SumOf(w, i..j) = Size[list[i]] + SumOf(v, (i + 1)..j)
  <2>1. i \in i..j /\ (i..j) \ {i} = (i + 1)..j
    BY <1>6
  <2>2. SumOf(w, i..j) = w[i] + SumOf(w, (i..j) \ {i})
    BY <1>1, <1>2, <2>1, SumTake
  <2>3. \A k \in (i + 1)..j : w[k] \in Nat /\ v[k] = w[k]
    OBVIOUS
  <2>4. SumOf(w, (i + 1)..j) = SumOf(v, (i + 1)..j)
    BY <1>1, <2>3, SumSame
  <2>5. w[i] = Size[list[i]]
    BY <2>1
  <2> QED
    BY <2>1, <2>2, <2>4, <2>5
<1> HIDE DEF w, v
<1> QED
  BY <1>3, <1>4, <1>5, <1>6

\* Sizes add up image by image.
LEMMA TotalAdd ==
  ASSUME NEW S \in SUBSET Images, NEW i \in Images, i \notin S
  PROVE  /\ TotalSize(S) \in Nat /\ Size[i] \in Nat
         /\ TotalSize(S \union {i}) = Size[i] + TotalSize(S)
<1> DEFINE T == S \union {i}
<1>1. IsFiniteSet(S) /\ IsFiniteSet(T)
  BY ConstantsAssumption, FS_Subset
<1>2. \A x \in T : Size[x] \in Nat
  BY ConstantsAssumption
<1>3. TotalSize(S) = SumOf(Size, S) /\ TotalSize(T) = SumOf(Size, T)
  BY <1>1, <1>2, TotalIsSum
<1>4. SumOf(Size, T) = Size[i] + SumOf(Size, T \ {i}) /\ T \ {i} = S
  BY <1>1, <1>2, SumTake
<1>5. SumOf(Size, S) \in Nat
  BY <1>1, <1>2, SumOfNat
<1> QED
  BY <1>2, <1>3, <1>4, <1>5

-----------------------------------------------------------------------------
(* Only what is above the target is freed.                                 *)

Volume(images) == OtherData + prunable + TotalSize(images)

\* The cleaner stays within its list and the batch, and the list has each image
\* once.
PlaceInv ==
  /\ prunable \in 0..Prunable
  /\ gc.pc \in Listed =>
       /\ Len(gc.list) \in Nat /\ gc.next \in Nat \ {0}
       /\ gc.tags \subseteq Tags
       /\ \A k \in 1..Len(gc.list) : gc.list[k] \in Images
       /\ \A k, l \in 1..Len(gc.list) : gc.list[k] = gc.list[l] => k = l
  /\ gc.pc \in {"image", "check", "rmi"} => gc.last \in 1..Len(gc.list)
  /\ gc.pc \in {"check", "rmi"} => gc.next <= gc.last

\* The tags that the cleaner has not come to are still there: nobody else removes
\* tags.
PendingInv ==
  gc.pc \in Listed =>
    /\ \A k \in (gc.next + 1)..Len(gc.list) : TagsOf(gc.list[k], gc.tags) \subseteq tags
    /\ gc.pc \in {"batch", "image"} /\ gc.next <= Len(gc.list) =>
         TagsOf(gc.list[gc.next], gc.tags) \subseteq tags
    /\ gc.pc \in {"check", "rmi"} => gc.todo \subseteq TagsOf(gc.list[gc.next], gc.tags) \cap tags
    /\ gc.pc = "rmi" => gc.ref \in TagsOf(gc.list[gc.next], gc.tags) \cap tags /\ gc.ref \notin gc.todo

\* The volume is used as far as the cleaner knows, or further; while a batch is
\* removed, what is left of it but for its last image does not reach the target.
VolumeInv ==
  /\ gc.pc \in {"prune", "containers", "images", "batch"} => gc.vu \in Nat
  /\ gc.pc = "prune" => gc.vu <= Volume(PresentImages)
  /\ gc.pc \in {"containers", "images", "batch"} /\ ~wrapped => gc.vu <= Volume(PresentImages)
  /\ gc.pc = "image" /\ gc.next <= gc.last /\ ~wrapped =>
       Target + SizeOf(gc.list, gc.next, gc.last - 1) < Volume(PresentImages)
  /\ gc.pc \in {"check", "rmi"} /\ ~wrapped =>
       Target + SizeOf(gc.list, gc.next, gc.last - 1)
         < Volume(PresentImages \union {gc.list[gc.next]})

UsageInv == Typed /\ PlaceInv /\ PendingInv /\ VolumeInv

LEMMA PresentTyped ==
  ASSUME Typed
  PROVE  PresentImages \in SUBSET Images
  BY ConstantsAssumption DEF Typed, PresentImages

LEMMA TotalGrows ==
  ASSUME NEW S \in SUBSET Images, NEW i \in Images
  PROVE  /\ TotalSize(S) \in Nat /\ TotalSize(S \union {i}) \in Nat /\ Size[i] \in Nat
         /\ TotalSize(S) <= TotalSize(S \union {i})
         /\ TotalSize(S \union {i}) <= Size[i] + TotalSize(S)
<1>1. CASE i \notin S
  <2>1. /\ TotalSize(S) \in Nat /\ Size[i] \in Nat
        /\ TotalSize(S \union {i}) = Size[i] + TotalSize(S)
    BY <1>1, TotalAdd
  <2> QED
    BY <2>1
<1>2. CASE i \in S
  <2> DEFINE T == S \ {i}
  <2>1. /\ TotalSize(T) \in Nat /\ Size[i] \in Nat
        /\ TotalSize(T \union {i}) = Size[i] + TotalSize(T)
    BY TotalAdd
  <2>2. T \union {i} = S /\ S \union {i} = S
    BY <1>2
  <2> HIDE DEF T
  <2>3. TotalSize(S) = Size[i] + TotalSize(T) /\ TotalSize(S \union {i}) = TotalSize(S)
    BY ONLY <2>1, <2>2
  <2> QED
    BY <2>1, <2>3
<1> QED
  BY <1>1, <1>2

LEMMA WidthPositive == 2^Width \in Nat \ {0}
<1>1. Width \in Nat
  BY ConstantsAssumption
<1>2. IsFiniteSet(1..Width) /\ Cardinality(1..Width) = Width
  BY <1>1, FS_Interval
<1>3. IsFiniteSet(SUBSET (1..Width)) /\ Cardinality(SUBSET (1..Width)) = 2^Width
  BY <1>2, FS_SUBSET
<1>4. SUBSET (1..Width) # {}
  OBVIOUS
<1> QED
  BY <1>3, <1>4, FS_EmptySet, FS_CardinalityType

LEMMA RemainderSmaller ==
  ASSUME NEW x \in Nat, NEW m \in Nat \ {0}
  PROVE  x % m \in Nat /\ x % m <= x
  OBVIOUS

LEMMA RemainderNat ==
  ASSUME NEW x \in Int, NEW m \in Nat \ {0}
  PROVE  x % m \in Nat
  OBVIOUS

\* The last image of a batch is the first with which the size suffices.
LEMMA BatchSuffices ==
  ASSUME NEW list, Len(list) \in Nat, NEW i \in Nat \ {0}, NEW bytes \in Nat,
         \A k \in 1..Len(list) : Size[list[k]] \in Nat,
         CountImagesToFree(list, i, bytes) # 0
  PROVE  LET n == CountImagesToFree(list, i, bytes) IN
         bytes > 0 /\ n \in i..Len(list) /\ SizeOf(list, i, n - 1) < bytes
<1> DEFINE A == {j \in i..Len(list) : SizeOf(list, i, j) >= bytes}
           B == A \union {Len(list)}
           n == Min(B)
<1>1. bytes > 0 /\ i <= Len(list) /\ CountImagesToFree(list, i, bytes) = n
  BY DEF CountImagesToFree
<1>2. B \in SUBSET Nat /\ B # {} /\ B \subseteq i..Len(list)
  BY <1>1
<1>3. \E x \in B : \A y \in B : x <= y
  BY <1>2, LeastNatural
<1>4. n \in B /\ \A y \in B : n <= y
  BY <1>3 DEF Min
<1> HIDE DEF n
<1>5. n \in i..Len(list) /\ n \in Nat /\ n - 1 \in Int
  BY <1>2, <1>4
<1>6. /\ SizeOf(list, i, n - 1) \in Nat
      /\ n - 1 < i => SizeOf(list, i, n - 1) = 0
  <2>1. \A k \in i..(n - 1) : Size[list[k]] \in Nat
    BY <1>5
  <2> QED
    BY <1>5, <2>1, SizeOfTake
<1>7. SizeOf(list, i, n - 1) < bytes
  <2>1. CASE n = i
    BY <1>1, <1>5, <1>6, <2>1
  <2>2. CASE n # i
    <3>1. n - 1 \in i..Len(list) /\ n - 1 \notin B
      BY <1>4, <1>5, <2>2
    <3>2. ~(SizeOf(list, i, n - 1) >= bytes)
      BY <3>1
    <3> QED
      BY <1>6, <3>2
  <2> QED
    BY <2>1, <2>2
<1> QED
  BY <1>1, <1>5, <1>7

\* The size of what is left of the batch.
LEMMA LeftOfBatch ==
  ASSUME PlaceInv, gc.pc \in {"image", "check", "rmi"}
  PROVE  /\ SizeOf(gc.list, gc.next, gc.last - 1) \in Nat
         /\ gc.next <= gc.last - 1 =>
              /\ SizeOf(gc.list, gc.next, gc.last - 1)
                   = Size[gc.list[gc.next]] + SizeOf(gc.list, gc.next + 1, gc.last - 1)
              /\ SizeOf(gc.list, gc.next + 1, gc.last - 1) \in Nat
<1>1. /\ Len(gc.list) \in Nat /\ gc.next \in Nat \ {0} /\ gc.last \in 1..Len(gc.list)
      /\ \A k \in 1..Len(gc.list) : gc.list[k] \in Images
  BY DEF PlaceInv, Listed
<1>2. \A k \in 1..Len(gc.list) : Size[gc.list[k]] \in Nat
  BY <1>1, ConstantsAssumption
<1>3. /\ gc.next \in Int /\ gc.next + 1 \in Int /\ gc.last - 1 \in Int
      /\ \A k \in gc.next..(gc.last - 1) : Size[gc.list[k]] \in Nat
      /\ \A k \in (gc.next + 1)..(gc.last - 1) : Size[gc.list[k]] \in Nat
  BY <1>1, <1>2
<1> QED
  BY <1>3, SizeOfTake

LEMMA VolumeNat ==
  ASSUME Typed, PlaceInv
  PROVE  TotalSize(PresentImages) \in Nat /\ Volume(PresentImages) \in Nat
<1>1. \A S \in SUBSET Images : S # {} => TotalSize(S) \in Nat
  BY TotalGrows
<1>2. TotalSize({}) = SumOf(Size, {}) /\ SumOf(Size, {}) \in Nat
  BY FS_EmptySet, TotalIsSum, SumOfNat
<1>3. OtherData \in Nat /\ prunable \in Nat
  BY ConstantsAssumption DEF PlaceInv
<1>4. TotalSize(PresentImages) \in Nat
  BY <1>1, <1>2, PresentTyped
<1> QED
  BY <1>3, <1>4 DEF Volume

LEMMA VolumeGrows ==
  ASSUME Typed, PlaceInv, NEW S \in SUBSET Images, NEW i \in Images
  PROVE  /\ Volume(S) \in Nat /\ Volume(S \union {i}) \in Nat /\ Size[i] \in Nat
         /\ Volume(S) <= Volume(S \union {i})
         /\ Volume(S \union {i}) <= Size[i] + Volume(S)
<1>1. OtherData \in Nat /\ prunable \in Nat
  BY ConstantsAssumption DEF PlaceInv
<1> QED
  BY <1>1, TotalGrows DEF Volume

-----------------------------------------------------------------------------

\* A build adds tags, and so images, and leaves the cleaner alone.
LEMMA BuildKeepsUsage ==
  ASSUME UsageInv, NEW p \in Procs,
         \/ \E t \in Tags : LockStageImage(p, t)
         \/ FetchStage(p) \/ AccessImage(p) \/ RunContainer(p) \/ Exit(p) \/ Kill(p)
  PROVE  PlaceInv' /\ PendingInv' /\ VolumeInv'
<1>1. /\ UNCHANGED <<gc, prunable, wrapped>>
      /\ tags' = tags \/ \E t \in Tags : tags' = tags \union {t}
  BY DEF UsageInv, Typed, Builds, Idle, Step, LockStageImage, FetchStage, AccessImage,
         RunContainer, Exit, Kill
<1>2. PlaceInv'
  BY <1>1 DEF UsageInv, PlaceInv
<1>3. PendingInv'
  BY <1>1 DEF UsageInv, PendingInv, TagsOf
<1>4. CASE tags' = tags
  <2>1. PresentImages' = PresentImages /\ \A S : Volume(S)' = Volume(S)
    BY <1>1, <1>4 DEF PresentImages, Volume
  <2>2. VolumeInv
    BY DEF UsageInv
  <2>3. VolumeInv'
    BY <1>1, <2>1, <2>2 DEF VolumeInv
  <2> QED
    BY <1>2, <1>3, <2>3
<1>5. ASSUME NEW t \in Tags, tags' = tags \union {t} PROVE VolumeInv'
  <2> DEFINE i == ImageOf[t]
  <2>1. i \in Images /\ PresentImages' = PresentImages \union {i}
    BY <1>5, ConstantsAssumption DEF PresentImages
  <2>2. \A S : Volume(S)' = Volume(S)
    BY <1>1 DEF Volume
  <2>3. /\ Volume(PresentImages) \in Nat /\ Volume(PresentImages') \in Nat
        /\ Volume(PresentImages) <= Volume(PresentImages')
    BY <2>1, PresentTyped, VolumeGrows DEF UsageInv
  <2>4. ASSUME gc.pc \in {"check", "rmi"}
        PROVE  LET S == PresentImages \union {gc.list[gc.next]}
                   T == PresentImages' \union {gc.list[gc.next]}
               IN  Volume(S) \in Nat /\ Volume(T) \in Nat /\ Volume(S) <= Volume(T)
    <3>1. gc.list[gc.next] \in Images
      BY <2>4 DEF UsageInv, PlaceInv, Listed
    <3>2. PresentImages \union {gc.list[gc.next]} \in SUBSET Images
      BY <3>1, PresentTyped DEF UsageInv
    <3>3. PresentImages' \union {gc.list[gc.next]} = (PresentImages \union {gc.list[gc.next]}) \union {i}
      BY <2>1
    <3> QED
      BY <2>1, <3>2, <3>3, VolumeGrows DEF UsageInv
  <2>5. gc.pc \in {"image", "check", "rmi"} => SizeOf(gc.list, gc.next, gc.last - 1) \in Nat
    BY LeftOfBatch DEF UsageInv
  <2>6. Target \in Nat
    BY ConstantsAssumption
  <2>7. VolumeInv
    BY DEF UsageInv
  <2> QED
    BY <1>1, <2>2, <2>3, <2>4, <2>5, <2>6, <2>7 DEF VolumeInv
<1> QED
  BY <1>1, <1>2, <1>3, <1>4, <1>5

\* What the prunes report is at least what they free.
LEMMA MeasureKeepsUsage ==
  ASSUME UsageInv, RunGC \/ Prune \/ CleanupWerfContainers
  PROVE  PlaceInv' /\ PendingInv' /\ VolumeInv'
<1>0. /\ Typed /\ PlaceInv /\ VolumeInv
      /\ Volume(PresentImages) \in Nat
      /\ Used = Volume(PresentImages)
  BY VolumeNat DEF UsageInv, Volume, Used
<1>1. CASE RunGC
  <2>1. /\ UNCHANGED <<tags, prunable, wrapped>>
        /\ gc' = Idle \/ gc' = [pc |-> "prune", vu |-> Used]
    BY <1>1 DEF RunGC
  <2> QED
    BY <1>0, <2>1 DEF PlaceInv, PendingInv, VolumeInv, Volume, PresentImages, Idle, Listed
<1>2. CASE Prune
  <2>1. PICK reclaimed \in Reports \union {0} :
          /\ prunable' = IF reclaimed = 0 THEN prunable ELSE 0
          /\ LET vu == (gc.vu - reclaimed) % 2^Width IN
               gc' = IF vu <= Allowed THEN Idle ELSE [pc |-> "containers", vu |-> vu]
          /\ wrapped' = (reclaimed > gc.vu)
    BY <1>2 DEF Prune
  <2> DEFINE vu == (gc.vu - reclaimed) % 2^Width
  <2>2. /\ reclaimed \in Nat /\ (reclaimed # 0 => reclaimed >= Prunable)
        /\ Prunable \in Nat /\ prunable \in 0..Prunable /\ OtherData \in Nat
        /\ gc.vu \in Nat /\ gc.vu <= Volume(PresentImages)
        /\ UNCHANGED tags
    BY <1>0, <1>2, ConstantsAssumption DEF Prune, PlaceInv, VolumeInv
  <2>3. vu \in Nat /\ (~(reclaimed > gc.vu) => vu <= gc.vu - reclaimed)
    <3>1. gc.vu - reclaimed \in Int /\ (~(reclaimed > gc.vu) => gc.vu - reclaimed \in Nat)
      BY <2>2
    <3> QED
      BY <3>1, WidthPositive, RemainderSmaller, RemainderNat
  <2> HIDE DEF vu
  <2>4. Volume(PresentImages)' = Volume(PresentImages) - prunable + prunable'
    <3>1. PresentImages' = PresentImages
      BY <2>2 DEF PresentImages
    <3>2. TotalSize(PresentImages) \in Int
      BY <1>0, VolumeNat
    <3>3. prunable' \in Nat
      BY <2>1, <2>2
    <3> QED
      BY <2>2, <3>1, <3>2, <3>3 DEF Volume
  <2>5. ~(reclaimed > gc.vu) => vu <= Volume(PresentImages)'
    BY <1>0, <2>1, <2>2, <2>3, <2>4
  <2>6. gc' = Idle \/ gc' = [pc |-> "containers", vu |-> vu]
    BY <2>1 DEF vu
  <2>7. prunable' \in 0..Prunable
    BY <2>1, <2>2
  <2> QED
    BY <2>1, <2>3, <2>5, <2>6, <2>7 DEF PlaceInv, PendingInv, VolumeInv, Idle, Listed
<1>3. CASE CleanupWerfContainers
  <2>1. /\ UNCHANGED <<tags, prunable>>
        /\ gc.pc = "containers" /\ gc = [pc |-> "containers", vu |-> gc.vu]
        /\ \E removed \in SUBSET orphans :
             /\ gc' = [gc EXCEPT !.pc = "images", !.vu = IF removed = {} THEN @ ELSE Used]
             /\ wrapped' = (wrapped /\ removed = {})
    BY <1>0, <1>3 DEF CleanupWerfContainers, Typed
  <2>2. gc'.pc = "images" /\ (gc'.vu = Used \/ (gc'.vu = gc.vu /\ (wrapped' <=> wrapped)))
    <3>1. PICK removed \in SUBSET orphans :
             /\ gc' = [gc EXCEPT !.pc = "images", !.vu = IF removed = {} THEN @ ELSE Used]
             /\ wrapped' = (wrapped /\ removed = {})
      BY <2>1
    <3>2. CASE removed = {}
      BY <2>1, <3>1, <3>2
    <3>3. CASE removed # {}
      BY <2>1, <3>1, <3>3
    <3> QED
      BY <3>2, <3>3
  <2> QED
    BY <1>0, <2>1, <2>2 DEF PlaceInv, PendingInv, VolumeInv, Volume, PresentImages, Listed
<1> QED
  BY <1>1, <1>2, <1>3

LEMMA ListKeepsUsage ==
  ASSUME UsageInv, WerfImages
  PROVE  PlaceInv' /\ PendingInv' /\ VolumeInv'
<1>1. PICK list \in [1..Cardinality(PresentImages) -> PresentImages] :
        /\ \A a, b \in DOMAIN list : list[a] = list[b] => a = b
        /\ gc' = [pc |-> "batch", vu |-> gc.vu, list |-> list, next |-> 1, last |-> 0,
                  ref |-> None, todo |-> {}, tags |-> tags, removed |-> {},
                  seen |-> [i \in PresentImages |-> Max({accessed[t] : t \in TagsOf(i, tags)})]]
  BY DEF WerfImages
<1>2. /\ gc.pc = "images" /\ UNCHANGED <<tags, prunable, wrapped>>
      /\ Typed /\ PlaceInv /\ VolumeInv
  BY DEF WerfImages, UsageInv
<1>3. PresentImages \in SUBSET Images
  BY <1>2, PresentTyped
<1>4. Cardinality(PresentImages) \in Nat
  BY <1>3, ConstantsAssumption, FS_Subset, FS_CardinalityType
<1>5. /\ Len(list) = Cardinality(PresentImages) /\ DOMAIN list = 1..Len(list)
      /\ \A k \in 1..Len(list) : list[k] \in Images
  BY <1>3, <1>4
<1>6. /\ gc'.pc = "batch" /\ gc'.vu = gc.vu /\ gc'.list = list /\ gc'.next = 1 /\ gc'.tags = tags
  BY <1>1
<1>7. PresentImages' = PresentImages /\ Volume(PresentImages)' = Volume(PresentImages)
  BY <1>2 DEF PresentImages, Volume
<1>8. PlaceInv'
  BY <1>1, <1>2, <1>4, <1>5, <1>6 DEF PlaceInv, Listed, Typed
<1>9. PendingInv'
  BY <1>2, <1>6 DEF PendingInv, TagsOf
<1>10. VolumeInv'
  BY <1>2, <1>6, <1>7 DEF VolumeInv
<1> QED
  BY <1>8, <1>9, <1>10

LEMMA BatchKeepsUsage ==
  ASSUME UsageInv, NextBatch
  PROVE  PlaceInv' /\ PendingInv' /\ VolumeInv'
<1> DEFINE n == CountImagesToFree(gc.list, gc.next, BytesToFree(gc.vu))
<1>1. /\ gc.pc = "batch" /\ UNCHANGED <<tags, prunable, wrapped>>
      /\ gc' = IF n = 0 THEN Idle ELSE [gc EXCEPT !.pc = "image", !.last = n]
      /\ Typed /\ PlaceInv /\ PendingInv /\ VolumeInv
  BY DEF NextBatch, UsageInv
<1>2. /\ Len(gc.list) \in Nat /\ gc.next \in Nat \ {0} /\ gc.vu \in Nat
      /\ \A k \in 1..Len(gc.list) : Size[gc.list[k]] \in Nat
      /\ Target \in Nat
  BY <1>1, ConstantsAssumption DEF PlaceInv, VolumeInv, Listed
<1>3. CASE n = 0
  BY <1>1, <1>3 DEF PlaceInv, PendingInv, VolumeInv, Idle, Listed
<1>4. CASE n # 0
  <2>1. BytesToFree(gc.vu) \in Nat
    BY <1>2 DEF BytesToFree
  <2>2. /\ BytesToFree(gc.vu) > 0 /\ n \in gc.next..Len(gc.list)
        /\ SizeOf(gc.list, gc.next, n - 1) < BytesToFree(gc.vu)
    BY <1>2, <1>4, <2>1, BatchSuffices
  <2> HIDE DEF n
  <2>3. gc.vu > Target /\ BytesToFree(gc.vu) = gc.vu - Target
    BY <1>2, <2>2 DEF BytesToFree
  <2>4. /\ gc'.pc = "image" /\ gc'.last = n /\ gc'.list = gc.list /\ gc'.next = gc.next
        /\ gc'.tags = gc.tags
    BY <1>1, <1>4 DEF Typed, Listed
  <2>5. PlaceInv'
    BY <1>1, <1>2, <2>2, <2>4 DEF PlaceInv, Listed
  <2>6. PendingInv'
    BY <1>1, <2>4 DEF PendingInv, TagsOf, Listed
  <2>7. SizeOf(gc.list, gc.next, n - 1) \in Nat
    <3>1. gc'.pc \in {"image", "check", "rmi"}
      BY <2>4
    <3>2. /\ gc.next \in Int /\ n - 1 \in Int
          /\ \A k \in gc.next..(n - 1) : Size[gc.list[k]] \in Nat
      BY <1>2, <2>2
    <3> QED
      BY <3>2, SizeOfTake
  <2>8. PresentImages' = PresentImages /\ Volume(PresentImages)' = Volume(PresentImages)
    BY <1>1 DEF PresentImages, Volume
  <2>9. ~wrapped => gc.vu <= Volume(PresentImages)
    BY <1>1 DEF VolumeInv
  <2>10. Volume(PresentImages) \in Nat
    BY <1>1, VolumeNat
  <2>11. ~wrapped => Target + SizeOf(gc.list, gc.next, n - 1) < Volume(PresentImages)
    BY <1>2, <2>2, <2>3, <2>7, <2>9, <2>10
  <2>12. VolumeInv'
    BY <1>1, <2>4, <2>8, <2>11 DEF VolumeInv
  <2> QED
    BY <2>5, <2>6, <2>12
<1> QED
  BY <1>3, <1>4

LEMMA ImageKeepsUsage ==
  ASSUME UsageInv, NextImage
  PROVE  PlaceInv' /\ PendingInv' /\ VolumeInv'
<1>1. /\ gc.pc = "image" /\ UNCHANGED <<tags, prunable>>
      /\ Typed /\ PlaceInv /\ PendingInv /\ VolumeInv
      /\ Volume(PresentImages) \in Nat /\ Used = Volume(PresentImages)
  BY VolumeNat DEF NextImage, UsageInv, Used, Volume
<1>2. PresentImages' = PresentImages /\ \A S : Volume(S)' = Volume(S)
  BY <1>1 DEF PresentImages, Volume
<1>3. CASE gc.next > gc.last
  <2>1. /\ gc'.pc = "batch" /\ gc'.vu = Used /\ gc'.list = gc.list /\ gc'.next = gc.next
        /\ gc'.tags = gc.tags
    BY <1>1, <1>3 DEF NextImage, Typed, Listed
  <2>2. PlaceInv'
    BY <1>1, <2>1 DEF PlaceInv, Listed
  <2>3. PendingInv'
    BY <1>1, <2>1 DEF PendingInv, TagsOf, Listed
  <2>4. VolumeInv'
    BY <1>1, <1>2, <2>1 DEF VolumeInv
  <2> QED
    BY <2>2, <2>3, <2>4
<1>4. CASE ~(gc.next > gc.last)
  <2>1. /\ gc' = [gc EXCEPT !.pc = "check", !.todo = TagsOf(gc.list[gc.next], gc.tags)]
        /\ wrapped' = wrapped
    BY <1>4 DEF NextImage
  <2>2. /\ gc'.pc = "check" /\ gc'.todo = TagsOf(gc.list[gc.next], gc.tags)
        /\ gc'.list = gc.list /\ gc'.next = gc.next /\ gc'.last = gc.last /\ gc'.tags = gc.tags
    BY <1>1, <2>1 DEF Typed, Listed
  <2>3. /\ gc.next <= gc.last /\ gc.last \in 1..Len(gc.list) /\ Len(gc.list) \in Nat
        /\ gc.next \in Nat \ {0} /\ gc.next <= Len(gc.list)
    BY <1>1, <1>4 DEF PlaceInv, Listed
  <2>4. PlaceInv'
    BY <1>1, <2>2, <2>3 DEF PlaceInv, Listed
  <2>5. PendingInv'
    BY <1>1, <2>2, <2>3 DEF PendingInv, TagsOf, Listed
  <2>6. gc.list[gc.next] \in Images
    BY <1>1, <2>3 DEF PlaceInv, Listed
  <2>7. /\ Volume(PresentImages \union {gc.list[gc.next]}) \in Nat
        /\ Volume(PresentImages) <= Volume(PresentImages \union {gc.list[gc.next]})
    BY <1>1, <2>6, PresentTyped, VolumeGrows
  <2>8. SizeOf(gc.list, gc.next, gc.last - 1) \in Nat /\ Target \in Nat
    BY <1>1, LeftOfBatch, ConstantsAssumption
  <2>9. ~wrapped => Target + SizeOf(gc.list, gc.next, gc.last - 1) < Volume(PresentImages)
    BY <1>1, <2>3 DEF VolumeInv
  <2>10. ~wrapped => Target + SizeOf(gc.list, gc.next, gc.last - 1)
                       < Volume(PresentImages \union {gc.list[gc.next]})
    BY <1>1, <2>7, <2>8, <2>9
  <2>11. VolumeInv'
    BY <1>2, <2>1, <2>2, <2>10 DEF VolumeInv
  <2> QED
    BY <2>4, <2>5, <2>11
<1> QED
  BY <1>3, <1>4

LEMMA LockTestKeepsUsage ==
  ASSUME UsageInv, NEW t \in Tags, IsLocked(t)
  PROVE  PlaceInv' /\ PendingInv' /\ VolumeInv'
<1>1. /\ gc.pc = "check" /\ t \in gc.todo /\ UNCHANGED <<tags, prunable, wrapped>>
      /\ Typed /\ PlaceInv /\ PendingInv /\ VolumeInv
  BY DEF IsLocked, UsageInv
<1>2. /\ gc'.pc = "check" \/ (gc'.pc = "rmi" /\ gc'.ref = t)
      /\ gc'.todo = gc.todo \ {t}
      /\ gc'.list = gc.list /\ gc'.next = gc.next /\ gc'.last = gc.last /\ gc'.tags = gc.tags
  BY <1>1 DEF IsLocked, Typed, Listed
<1>3. PresentImages' = PresentImages /\ \A S : Volume(S)' = Volume(S)
  BY <1>1 DEF PresentImages, Volume
<1>4. PlaceInv'
  BY <1>1, <1>2 DEF PlaceInv, Listed
<1>5. PendingInv'
  BY <1>1, <1>2 DEF PendingInv, TagsOf, Listed
<1>6. VolumeInv'
  BY <1>1, <1>2, <1>3 DEF VolumeInv
<1> QED
  BY <1>4, <1>5, <1>6

\* An image frees its size at most.
LEMMA DoneKeepsUsage ==
  ASSUME UsageInv, ImageDone
  PROVE  PlaceInv' /\ PendingInv' /\ VolumeInv'
<1>1. /\ gc.pc = "check" /\ UNCHANGED <<tags, prunable, wrapped>>
      /\ Typed /\ PlaceInv /\ PendingInv /\ VolumeInv
      /\ gc' = [gc EXCEPT !.pc = "image", !.next = @ + 1]
  BY DEF ImageDone, UsageInv
<1>2. /\ gc'.pc = "image" /\ gc'.next = gc.next + 1
      /\ gc'.list = gc.list /\ gc'.last = gc.last /\ gc'.tags = gc.tags
  BY <1>1 DEF Typed, Listed
<1>3. PresentImages' = PresentImages /\ \A S : Volume(S)' = Volume(S)
  BY <1>1 DEF PresentImages, Volume
<1>4. /\ gc.next \in Nat \ {0} /\ gc.last \in 1..Len(gc.list) /\ Len(gc.list) \in Nat
      /\ gc.next <= gc.last /\ gc.list[gc.next] \in Images
  BY <1>1 DEF PlaceInv, Listed
<1>5. PlaceInv'
  BY <1>1, <1>2, <1>4 DEF PlaceInv, Listed
<1>6. PendingInv'
  <2>1. \A k \in (gc.next + 1)..Len(gc.list) : TagsOf(gc.list[k], gc.tags) \subseteq tags
    BY <1>1 DEF PendingInv, Listed
  <2>2. \A k \in ((gc.next + 1) + 1)..Len(gc.list) : TagsOf(gc.list[k], gc.tags) \subseteq tags
    BY <1>4, <2>1
  <2>3. gc.next + 1 <= Len(gc.list) => TagsOf(gc.list[gc.next + 1], gc.tags) \subseteq tags
    BY <1>4, <2>1
  <2> QED
    BY <1>1, <1>2, <2>2, <2>3 DEF PendingInv, TagsOf
<1>7. VolumeInv'
  <2> SUFFICES ASSUME gc.next + 1 <= gc.last, ~wrapped
               PROVE  Target + SizeOf(gc.list, gc.next + 1, gc.last - 1) < Volume(PresentImages)
    BY <1>1, <1>2, <1>3 DEF VolumeInv
  <2>1. Target + SizeOf(gc.list, gc.next, gc.last - 1) < Volume(PresentImages \union {gc.list[gc.next]})
    BY <1>1 DEF VolumeInv
  <2>2. /\ SizeOf(gc.list, gc.next, gc.last - 1)
             = Size[gc.list[gc.next]] + SizeOf(gc.list, gc.next + 1, gc.last - 1)
        /\ SizeOf(gc.list, gc.next + 1, gc.last - 1) \in Nat
    <3>1. gc.next <= gc.last - 1
      BY <1>4
    <3> QED
      BY <1>1, <3>1, LeftOfBatch
  <2>3. /\ Volume(PresentImages) \in Nat /\ Size[gc.list[gc.next]] \in Nat
        /\ Volume(PresentImages \union {gc.list[gc.next]}) \in Nat
        /\ Volume(PresentImages \union {gc.list[gc.next]})
             <= Size[gc.list[gc.next]] + Volume(PresentImages)
    BY <1>1, <1>4, PresentTyped, VolumeGrows
  <2>4. Target \in Nat
    BY ConstantsAssumption
  <2> QED
    BY <2>1, <2>2, <2>3, <2>4
<1> QED
  BY <1>5, <1>6, <1>7

\* Only a tag of the image at hand goes.
LEMMA RemovalKeepsUsage ==
  ASSUME UsageInv, RemoveImageRef
  PROVE  PlaceInv' /\ PendingInv' /\ VolumeInv'
<1>1. /\ gc.pc = "rmi" /\ UNCHANGED <<prunable, wrapped>>
      /\ Typed /\ PlaceInv /\ PendingInv /\ VolumeInv
      /\ tags' = tags \/ tags' = tags \ {gc.ref}
  BY DEF RemoveImageRef, UsageInv
<1>2. /\ gc'.pc = "check" /\ gc'.todo = gc.todo /\ gc'.next = gc.next
      /\ gc'.list = gc.list /\ gc'.last = gc.last /\ gc'.tags = gc.tags
  BY <1>1 DEF RemoveImageRef, Typed, Listed
<1>3. /\ gc.next \in Nat \ {0} /\ gc.last \in 1..Len(gc.list) /\ Len(gc.list) \in Nat
      /\ gc.next <= gc.last /\ gc.list[gc.next] \in Images
      /\ \A k, l \in 1..Len(gc.list) : gc.list[k] = gc.list[l] => k = l
  BY <1>1 DEF PlaceInv, Listed
<1>4. ImageOf[gc.ref] = gc.list[gc.next] /\ gc.ref \notin gc.todo /\ gc.ref \in tags
  BY <1>1 DEF PendingInv, TagsOf, Listed
<1>5. PlaceInv'
  BY <1>1, <1>2 DEF PlaceInv, Listed
<1>6. PendingInv'
  <2>1. ASSUME NEW k \in (gc.next + 1)..Len(gc.list)
        PROVE  TagsOf(gc.list[k], gc.tags) \subseteq tags'
    <3>1. gc.list[k] # gc.list[gc.next]
      BY <1>3
    <3>2. TagsOf(gc.list[k], gc.tags) \subseteq tags
      BY <1>1 DEF PendingInv, Listed
    <3> QED
      BY <1>1, <1>4, <3>1, <3>2 DEF TagsOf
  <2>2. gc.todo \subseteq TagsOf(gc.list[gc.next], gc.tags) \cap tags'
    BY <1>1, <1>4 DEF PendingInv, Listed
  <2> QED
    BY <1>2, <2>1, <2>2 DEF PendingInv, TagsOf
<1>7. VolumeInv'
  <2>1. PresentImages' \union {gc.list[gc.next]} = PresentImages \union {gc.list[gc.next]}
    BY <1>1, <1>4 DEF PresentImages
  <2>2. \A S : Volume(S)' = Volume(S)
    BY <1>1 DEF Volume
  <2> QED
    BY <1>1, <1>2, <2>1, <2>2 DEF VolumeInv
<1> QED
  BY <1>5, <1>6, <1>7

(* A tag is removed only while the volume is used beyond the target, for   *)
(* images of any sizes and whatever builds pull meanwhile, unless a prune  *)
(* has reported more than the usage it is subtracted from.                 *)
THEOREM FreesOnlyAboveTarget == Spec => []RemovesOnlyAboveTarget
<1>1. Init => UsageInv
  BY InitTyped, ConstantsAssumption DEF Init, UsageInv, PlaceInv, PendingInv, VolumeInv, Idle, Listed
<1>2. UsageInv /\ [Next]_vars => UsageInv'
  <2>1. UsageInv /\ (Tick \/ UNCHANGED vars) => PlaceInv' /\ PendingInv' /\ VolumeInv'
    BY DEF Tick, vars, UsageInv, PlaceInv, PendingInv, VolumeInv, Volume, PresentImages
  <2>2. UsageInv /\ (Clean \/ RunGC) => PlaceInv' /\ PendingInv' /\ VolumeInv'
    BY MeasureKeepsUsage, ListKeepsUsage, BatchKeepsUsage, ImageKeepsUsage, LockTestKeepsUsage,
       DoneKeepsUsage, RemovalKeepsUsage DEF Clean
  <2> QED
    BY <2>1, <2>2, StepTyped, BuildKeepsUsage DEF Next, UsageInv
<1>3. UsageInv => RemovesOnlyAboveTarget
  <2> SUFFICES ASSUME UsageInv, gc.pc = "rmi", ~wrapped PROVE Used > Target
    BY DEF RemovesOnlyAboveTarget
  <2>1. gc.ref \in tags /\ ImageOf[gc.ref] = gc.list[gc.next]
    BY DEF UsageInv, PendingInv, TagsOf, Listed
  <2>2. PresentImages \union {gc.list[gc.next]} = PresentImages
    BY <2>1 DEF PresentImages
  <2>3. Target + SizeOf(gc.list, gc.next, gc.last - 1) < Volume(PresentImages)
    BY <2>2 DEF UsageInv, VolumeInv
  <2>4. SizeOf(gc.list, gc.next, gc.last - 1) \in Nat /\ Target \in Nat
    BY LeftOfBatch, ConstantsAssumption DEF UsageInv
  <2>5. Volume(PresentImages) \in Nat /\ Used = Volume(PresentImages)
    BY VolumeNat DEF UsageInv, Used, Volume
  <2> QED
    BY <2>3, <2>4, <2>5
<1> QED
  BY <1>1, <1>2, <1>3, PTL DEF Spec
=============================================================================
