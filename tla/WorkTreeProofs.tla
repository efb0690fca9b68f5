--------------------------- MODULE WorkTreeProofs ---------------------------
(***************************************************************************)
(* Proofs about WorkTree, for any set of requests, processes, paths and    *)
(* commits and any number of kills: the record of the shared work tree     *)
(* never outlives its content, and dev mode commits what it has to.  And   *)
(* about GitHistory, for any repository, policies and records: what the    *)
(* policies promise is kept, and a second cleanup decides as the first.    *)
(***************************************************************************)
EXTENDS WorkTree, GitHistory, FiniteSetTheorems, WellFoundedInduction, TLAPS

-----------------------------------------------------------------------------
(* The inductive invariant.                                                *)

\* Whoever is past the lock holds it and nobody else, and the collector runs
\* alone.
LockInv ==
  /\ \A p \in Procs : Active(p) /\ ~At(p, "lock") <=> lock = p
  /\ gc = "removing" => \A p \in Procs : ~Active(p)

\* What a process is doing fits its request; only a patch changes its target.
Fits(p) ==
  Active(p) =>
    /\ task[p].pc \in {"merge", "recordMerge"} => task[p].req.op = "merge"
    /\ task[p].req.op # "patch" => Target(p) = task[p].req.commit

\* The tree has the files of the commit c, and its submodules unless a merge
\* has moved them; it may have anything after a collector was killed in it.
Holds(c) == ~torn => wt.tree = c.tree /\ (~stale => wt.sub = c.sub)

\* The record names what the tree holds, and it is away whenever the tree is.
RecordInv ==
  /\ cur \in Commit => Holds(cur)
  /\ ~wt.here => cur = NoFile

Branch == [tree : Tree, merged : SUBSET Commit]
Unrecorded == {"remove", "switch", "submodules", "record", "merge", "recordMerge",
               "checkout", "compare", "commit"}

\* The record is away from before a process touches the tree until after, and
\* this is what the process has made of the tree so far.
Progress(p) ==
  /\ task[p].pc \in Unrecorded => cur = NoFile
  /\ task[p].pc \in {"submodules", "record", "merge", "recordMerge"} => wt.here
  /\ At(p, "submodules") => wt.tree = Target(p).tree
  /\ At(p, "record") => wt.tree = Target(p).tree /\ wt.sub = Target(p).sub
  /\ At(p, "use") /\ Prepares(task[p].req) => wt.here /\ Holds(Target(p))
  /\ At(p, "merge") /\ ~torn /\ ~stale => wt.sub = Target(p).sub
  /\ At(p, "recordMerge") =>
       /\ wt.tree = Merged(task[p].req).tree
       /\ ~torn /\ ~stale => wt.sub = Target(p).sub
  /\ task[p].pc \in {"compare", "commit"} => branch \in Branch

IInv ==
  /\ TypeOK /\ LockInv /\ RecordInv
  /\ \A p \in Procs : Fits(p) /\ Progress(p)

-----------------------------------------------------------------------------
(* The steps of a process and its place.                                   *)

LEMMA TaskForms ==
  ASSUME TypeOK, NEW p \in Procs
  PROVE  /\ task[p].pc \in Pcs \union {"idle"}
         /\ task[p].pc = "idle" <=> task[p] = Idle
         /\ task[p].pc # "idle" => task[p] \in Task
BY DEF TypeOK, Task, Pcs, Idle

LEMMA Going ==
  ASSUME TypeOK, NEW p \in Procs, task[p] \in Task, NEW pc \in Pcs, Goto(p, pc)
  PROVE  /\ task' \in [Procs -> Task \union {Idle}]
         /\ task'[p].pc = pc /\ task'[p].req = task[p].req /\ task'[p].target = task[p].target
         /\ \A q \in Procs : q # p => task'[q] = task[q]
<1>1. task' = [task EXCEPT ![p].pc = pc] /\ task \in [Procs -> Task \union {Idle}]
  BY DEF Goto, TypeOK
<1>2. [task[p] EXCEPT !.pc = pc] \in Task
  BY DEF Task
<1> QED
  BY <1>1, <1>2 DEF Task

LEMMA Leaving ==
  ASSUME TypeOK, NEW p \in Procs, task' = [task EXCEPT ![p] = Idle]
  PROVE  /\ task' \in [Procs -> Task \union {Idle}]
         /\ task'[p] = Idle
         /\ \A q \in Procs : q # p => task'[q] = task[q]
BY DEF TypeOK

LEMMA RequestTypes ==
  ASSUME TypeOK, NEW p \in Procs, task[p] \in Task
  PROVE  /\ task[p].req \in Request /\ task[p].req.commit \in Commit /\ task[p].req.from \in Commit
         /\ Target(p) \in Commit
BY ConstantsAssumption DEF Task, Request, Target

LEMMA MergedIsCommit ==
  ASSUME NEW r \in Request
  PROVE  Merged(r) \in Commit
<1>1. r.from \in Commit /\ r.commit \in Commit /\ Base \in Commit
  BY ConstantsAssumption DEF Request
<1>2. [x \in Paths |-> ThreeWay(Base.tree[x], r.from.tree[x], r.commit.tree[x])] \in Tree
  BY <1>1 DEF Commit, Tree, ThreeWay
<1>3. ThreeWay(Base.sub, r.from.sub, r.commit.sub) \in Subs
  BY <1>1 DEF Commit, ThreeWay
<1> QED
  BY <1>2, <1>3 DEF Merged, Commit

\* While one process is past the lock the others are idle or wait for it.
LEMMA OthersWait ==
  ASSUME TypeOK, LockInv, NEW p \in Procs, task[p].pc \notin {"idle", "lock"}
  PROVE  /\ lock = p /\ gc = "idle" /\ task[p] \in Task
         /\ \A q \in Procs : q # p => task[q].pc \in {"idle", "lock"}
BY TaskForms DEF LockInv, Active, At, TypeOK

\* The files have their types.
FilesTyped ==
  /\ wt \in [here : BOOLEAN, sound : BOOLEAN,
             tree : Tree \union {Junk}, sub : Subs \union {Junk}]
  /\ cur = NoFile \/ cur = Junk \/ cur \in Commit
  /\ branch = NoFile \/ branch \in [tree : Tree, merged : SUBSET Commit]
  /\ source \in Tree
  /\ torn \in BOOLEAN /\ stale \in BOOLEAN

\* A step of the holder of the lock disturbs nobody else.
LEMMA HolderStep ==
  ASSUME IInv, NEW p \in Procs, task[p].pc \notin {"idle", "lock"},
         task' \in [Procs -> Task \union {Idle}],
         \A q \in Procs : q # p => task'[q] = task[q],
         gc' = gc,
         lock' = IF task'[p].pc \in {"idle", "lock"} THEN NoProc ELSE lock,
         FilesTyped', RecordInv', Fits(p)', Progress(p)'
  PROVE  IInv'
<1>1. lock = p /\ gc = "idle" /\ \A q \in Procs : q # p => task[q].pc \in {"idle", "lock"}
  BY OthersWait DEF IInv
<1>2. TypeOK'
  BY <1>1 DEF FilesTyped, TypeOK, IInv
<1>3. \A q \in Procs : task'[q] = Idle \/ task'[q].pc = "lock" \/ q = p
  BY <1>1, TaskForms DEF IInv
<1>4. LockInv'
  <2>1. \A q \in Procs : task'[q].pc = "idle" <=> task'[q] = Idle
    BY DEF Task, Pcs, Idle
  <2>2. \A q \in Procs : q # p => task'[q].pc \in {"idle", "lock"}
    BY <1>1
  <2> QED
    BY <1>1, <2>1, <2>2, ConstantsAssumption DEF LockInv, Active, At
<1>5. \A q \in Procs : q # p => Fits(q)' /\ Progress(q)'
  BY <1>1, <1>3 DEF IInv, Fits, Progress, At, Active, Target, Idle, Unrecorded
<1> QED
  BY <1>2, <1>4, <1>5 DEF IInv

-----------------------------------------------------------------------------
(* prepareWorkTree keeps the invariant.                                    *)

LEMMA PrepareKeepsInvariant ==
  ASSUME IInv, NEW p \in Procs,
         \/ PrepareWorkTree(p) \/ ForgetInvalidTree(p) \/ RemoveInvalidTree(p)
         \/ RemoveRecord(p) \/ SwitchWorkTree(p) \/ SwitchSubmodules(p) \/ RecordCommit(p)
  PROVE  IInv'
<1> USE ConstantsAssumption
<1>0. /\ task[p].pc \notin {"idle", "lock"} /\ task[p] \in Task /\ TypeOK /\ Target(p) \in Commit
      /\ Fits(p) /\ Progress(p) /\ RecordInv /\ FilesTyped
  <2>1. task[p].pc \notin {"idle", "lock"} /\ task[p] \in Task /\ TypeOK
    BY OthersWait DEF IInv, At, PrepareWorkTree, ForgetInvalidTree, RemoveInvalidTree, RemoveRecord,
      SwitchWorkTree, SwitchSubmodules, RecordCommit
  <2> QED
    BY <2>1, RequestTypes DEF IInv, TypeOK, FilesTyped
<1>1. ASSUME NEW pc \in Pcs, Goto(p, pc), UNCHANGED <<lock, gc>>, FilesTyped', RecordInv', Progress(p)',
             pc \notin {"lock", "merge", "recordMerge"}
      PROVE  IInv'
  <2>1. /\ task' \in [Procs -> Task \union {Idle}]
        /\ task'[p].pc = pc /\ task'[p].req = task[p].req /\ task'[p].target = task[p].target
        /\ \A q \in Procs : q # p => task'[q] = task[q]
    BY <1>0, <1>1, Going
  <2>2. Fits(p)'
    BY <1>0, <1>1, <2>1, TaskForms DEF Fits, Active, Target
  <2> QED
    BY <1>0, <1>1, <2>1, <2>2, HolderStep DEF Pcs
<1>2. ASSUME NEW pc \in Pcs, Goto(p, pc)
      PROVE  task'[p].pc = pc /\ task'[p].req = task[p].req /\ Target(p)' = Target(p)
  BY <1>0, <1>2, Going DEF Target
<1> USE DEF At, Progress, RecordInv, Unrecorded, Pcs, dir, dev, ghosts
<1>3. CASE PrepareWorkTree(p)
  <2>1. PICK pc \in {"switch", "forget", "use", "unrecord"} :
          /\ Goto(p, pc)
          /\ pc = "switch" => cur = NoFile
          /\ pc = "use" => cur = Target(p) /\ wt.here
    BY <1>0, <1>3 DEF PrepareWorkTree
  <2>2. Progress(p)'
    BY <1>0, <1>2, <1>3, <2>1 DEF PrepareWorkTree, Holds
  <2> QED
    BY <1>0, <1>1, <1>3, <2>1, <2>2 DEF PrepareWorkTree, FilesTyped, Holds
<1>4. CASE ForgetInvalidTree(p)
  <2>1. Progress(p)'
    BY <1>2, <1>4 DEF ForgetInvalidTree
  <2> QED
    BY <1>0, <1>1, <1>4, <2>1 DEF ForgetInvalidTree, FilesTyped
<1>5. CASE RemoveInvalidTree(p)
  <2>1. Progress(p)'
    BY <1>0, <1>2, <1>5 DEF RemoveInvalidTree
  <2> QED
    BY <1>0, <1>1, <1>5, <2>1 DEF RemoveInvalidTree, FilesTyped
<1>6. CASE RemoveRecord(p)
  <2>1. Progress(p)'
    BY <1>2, <1>6 DEF RemoveRecord
  <2> QED
    BY <1>0, <1>1, <1>6, <2>1 DEF RemoveRecord, FilesTyped
<1>7. CASE SwitchWorkTree(p)
  <2>1. Progress(p)'
    BY <1>0, <1>2, <1>7 DEF SwitchWorkTree
  <2>2. FilesTyped'
    BY <1>0, <1>7 DEF SwitchWorkTree, FilesTyped, Commit
  <2> QED
    BY <1>0, <1>1, <1>7, <2>1, <2>2 DEF SwitchWorkTree
<1>8. CASE SwitchSubmodules(p)
  <2>1. Progress(p)'
    BY <1>0, <1>2, <1>8 DEF SwitchSubmodules, FilesTyped
  <2>2. FilesTyped'
    BY <1>0, <1>8 DEF SwitchSubmodules, FilesTyped, Commit
  <2> QED
    BY <1>0, <1>1, <1>8, <2>1, <2>2 DEF SwitchSubmodules
<1>9. CASE RecordCommit(p)
  <2>1. Progress(p)' /\ RecordInv'
    BY <1>0, <1>2, <1>9 DEF RecordCommit, Holds
  <2> QED
    BY <1>0, <1>1, <1>9, <2>1 DEF RecordCommit, FilesTyped
<1> QED
  BY <1>3, <1>4, <1>5, <1>6, <1>7, <1>8, <1>9

-----------------------------------------------------------------------------
(* What a request does with the prepared tree keeps the invariant.         *)

LEMMA UseKeepsInvariant ==
  ASSUME IInv, NEW p \in Procs, UseTree(p) \/ CommitsNotPresent(p) \/ SwitchedToFrom(p)
  PROVE  IInv'
<1>0. /\ task[p].pc = "use" /\ task[p] \in Task /\ TypeOK /\ RecordInv /\ FilesTyped /\ Fits(p)
      /\ task[p].req.from \in Commit /\ task[p].req.commit \in Commit
  <2>1. task[p].pc = "use" /\ TypeOK
    BY DEF IInv, At, UseTree, CommitsNotPresent, SwitchedToFrom
  <2>2. task[p] \in Task
    BY <2>1, TaskForms
  <2> QED
    BY <2>1, <2>2, RequestTypes DEF IInv, TypeOK, FilesTyped
<1>1. lock' = NoProc /\ UNCHANGED <<wt, cur, gc, branch, source, torn, stale>>
  BY DEF UseTree, CommitsNotPresent, SwitchedToFrom, Leave, dir, dev, ghosts
<1>2. /\ task' \in [Procs -> Task \union {Idle}] /\ \A q \in Procs : q # p => task'[q] = task[q]
      /\ task'[p].pc \in {"idle", "lock"} /\ Fits(p)'
  <2>1. CASE UseTree(p)
    BY <1>0, <2>1, Leaving DEF UseTree, Leave, Idle, Fits, Active
  <2>2. CASE CommitsNotPresent(p)
    <3> DEFINE t == [task[p] EXCEPT !.pc = "lock", !.retried = TRUE, !.target = task[p].req.from]
    <3>1. task' = [task EXCEPT ![p] = t]
      BY <2>2 DEF CommitsNotPresent
    <3>2. t \in Task /\ t.pc = "lock" /\ t.req = task[p].req /\ t.req.op = "patch"
      BY <1>0, <2>2 DEF CommitsNotPresent, Task, Pcs
    <3> HIDE DEF t
    <3> QED
      BY <1>0, <3>1, <3>2 DEF TypeOK, Fits
  <2>3. CASE SwitchedToFrom(p)
    <3> DEFINE t == [task[p] EXCEPT !.pc = "lock", !.target = task[p].req.commit]
    <3>1. task' = [task EXCEPT ![p] = t]
      BY <2>3 DEF SwitchedToFrom
    <3>2. t \in Task /\ t.pc = "lock" /\ t.req = task[p].req /\ t.req.op = "patch"
      BY <1>0, <2>3 DEF SwitchedToFrom, Task, Pcs
    <3> HIDE DEF t
    <3> QED
      BY <1>0, <3>1, <3>2 DEF TypeOK, Fits
  <2> QED
    BY <2>1, <2>2, <2>3
<1>3. FilesTyped' /\ RecordInv'
  BY <1>0, <1>1 DEF FilesTyped, RecordInv, Holds
<1>4. Progress(p)'
  BY <1>2 DEF Progress, At, Unrecorded
<1> QED
  BY <1>0, <1>1, <1>2, <1>3, <1>4, HolderStep

LEMMA ChangeKeepsInvariant ==
  ASSUME IInv, NEW p \in Procs,
         \/ ForgetBeforeChange(p) \/ CreateDetachedMergeCommit(p) \/ RecordMerge(p)
         \/ PrepareServiceBranch(p) \/ CheckNewChanges(p) \/ CommitNewChanges(p)
         \/ GitFails(p)
  PROVE  IInv'
<1> USE ConstantsAssumption
<1>0. /\ task[p].pc \notin {"idle", "lock"} /\ task[p] \in Task /\ TypeOK /\ Target(p) \in Commit
      /\ task[p].req \in Request /\ task[p].req.commit \in Commit
      /\ Fits(p) /\ Progress(p) /\ RecordInv /\ FilesTyped
  <2>1. task[p].pc \notin {"idle", "lock"} /\ task[p] \in Task /\ TypeOK
    BY OthersWait DEF IInv, At, ForgetBeforeChange, CreateDetachedMergeCommit, RecordMerge,
      PrepareServiceBranch, CheckNewChanges, CommitNewChanges, GitFails
  <2> QED
    BY <2>1, RequestTypes DEF IInv, TypeOK, FilesTyped
<1>1. ASSUME NEW pc \in Pcs, Goto(p, pc)
      PROVE  /\ task'[p].pc = pc /\ task'[p].req = task[p].req /\ Target(p)' = Target(p)
             /\ (pc \in {"merge", "recordMerge"} => task[p].req.op = "merge") => Fits(p)'
  BY <1>0, <1>1, Going, TaskForms DEF Target, Fits, Active
<1>2. ASSUME NEW pc \in Pcs \ {"lock"}, Goto(p, pc), UNCHANGED <<lock, gc>>,
             FilesTyped', RecordInv', Progress(p)', Fits(p)'
      PROVE  IInv'
  BY <1>0, <1>2, Going, HolderStep DEF Pcs
<1>3. ASSUME Leave(p), UNCHANGED gc, FilesTyped', RecordInv'
      PROVE  IInv'
  <2>1. /\ task' \in [Procs -> Task \union {Idle}] /\ \A q \in Procs : q # p => task'[q] = task[q]
        /\ task'[p].pc = "idle" /\ lock' = NoProc /\ Fits(p)'
    BY <1>0, <1>3, Leaving DEF Leave, Idle, Fits, Active
  <2>2. Progress(p)'
    BY <2>1 DEF Progress, At, Unrecorded
  <2> QED
    BY <1>0, <1>3, <2>1, <2>2, HolderStep
<1> USE DEF At, RecordInv, Unrecorded, Pcs, dev, ghosts
<1>4. CASE ForgetBeforeChange(p)
  <2> DEFINE pc == IF task[p].req.op = "merge" THEN "merge" ELSE "checkout"
  <2>1. Goto(p, pc) /\ pc \in Pcs /\ (pc = "merge" <=> task[p].req.op = "merge") /\ pc \in {"merge", "checkout"}
    BY <1>4 DEF ForgetBeforeChange
  <2> HIDE DEF pc
  <2>2. /\ cur' = NoFile /\ UNCHANGED <<wt, lock, gc, branch, source, torn, stale>>
        /\ task[p].pc = "use" /\ Prepares(task[p].req)
    BY <1>4 DEF ForgetBeforeChange, Prepares
  <2>3. wt.here /\ Holds(Target(p))
    BY <1>0, <2>2 DEF Progress
  <2>4. Progress(p)' /\ Fits(p)'
    BY <1>1, <2>1, <2>2, <2>3 DEF Progress, Holds
  <2> QED
    BY <1>0, <1>2, <2>1, <2>2, <2>4 DEF FilesTyped
<1>5. CASE CreateDetachedMergeCommit(p)
  <2>1. cur = NoFile /\ wt.here /\ UNCHANGED <<cur, gc, branch, source, torn, stale>>
        /\ task[p].pc = "merge"
    BY <1>0, <1>5 DEF CreateDetachedMergeCommit, Progress
  <2>2. CASE Conflicts(task[p].req)
    <3>1. Leave(p) /\ wt' = [wt EXCEPT !.tree = Junk]
      BY <1>5, <2>2 DEF CreateDetachedMergeCommit
    <3> QED
      BY <1>0, <1>3, <2>1, <3>1 DEF FilesTyped
  <2>3. CASE ~Conflicts(task[p].req)
    <3>1. /\ Goto(p, "recordMerge") /\ UNCHANGED lock
          /\ wt' = [wt EXCEPT !.tree = Merged(task[p].req).tree]
      BY <1>5, <2>3 DEF CreateDetachedMergeCommit
    <3>2. Merged(task[p].req) \in Commit
      BY <1>0, MergedIsCommit
    <3>3. FilesTyped'
      BY <1>0, <2>1, <3>1, <3>2 DEF FilesTyped, Commit
    <3>4. wt'.tree = Merged(task[p].req).tree /\ wt'.sub = wt.sub /\ wt'.here
      BY <1>0, <2>1, <3>1 DEF FilesTyped
    <3>5. task[p].req.op = "merge"
      BY <1>0, <2>1, TaskForms DEF Fits, Active
    <3>6. Progress(p)' /\ Fits(p)'
      BY <1>0, <1>1, <2>1, <3>1, <3>4, <3>5 DEF Progress
    <3> QED
      BY <1>0, <1>2, <2>1, <3>1, <3>3, <3>6
  <2> QED
    BY <2>2, <2>3
<1>6. CASE RecordMerge(p)
  <2>1. /\ cur' = Merged(task[p].req) /\ Leave(p) /\ task[p].pc = "recordMerge"
        /\ stale' = (Merged(task[p].req).sub # task[p].req.commit.sub \/ stale)
        /\ UNCHANGED <<wt, gc, branch, source, torn>>
    BY <1>6 DEF RecordMerge
  <2>2. Merged(task[p].req) \in Commit
    BY <1>0, MergedIsCommit
  <2>3. Target(p) = task[p].req.commit
    BY <1>0, <2>1, TaskForms DEF Fits, Active
  <2>4. RecordInv'
    BY <1>0, <2>1, <2>2, <2>3 DEF Progress, Holds
  <2> QED
    BY <1>0, <1>3, <2>1, <2>2, <2>4 DEF FilesTyped
<1>7. CASE PrepareServiceBranch(p)
  <2>1. /\ cur = NoFile /\ Goto(p, "compare") /\ UNCHANGED <<cur, lock, gc, source, torn, stale>>
        /\ wt' = [wt EXCEPT !.tree = branch'.tree]
    BY <1>0, <1>7 DEF PrepareServiceBranch, Progress
  <2>2. branch' \in Branch
    BY <1>0, <1>7 DEF PrepareServiceBranch, FilesTyped, Commit, Branch
  <2>3. Progress(p)' /\ Fits(p)'
    BY <1>1, <2>1, <2>2 DEF Progress
  <2>4. FilesTyped'
    BY <1>0, <2>1, <2>2 DEF FilesTyped, Branch
  <2> QED
    BY <1>0, <1>2, <2>1, <2>3, <2>4
<1>8. CASE CheckNewChanges(p)
  <2>1. cur = NoFile /\ UNCHANGED <<cur, gc, branch, source, torn, stale>>
    BY <1>0, <1>8 DEF CheckNewChanges, Progress
  <2>2. branch \in Branch /\ RevertedIndex(task[p].req) \in Tree
    BY <1>0, <1>8 DEF CheckNewChanges, Progress, RevertedIndex, Branch, Tree, Commit
  <2>3. CASE /\ wt' = wt /\ Leave(p)
    BY <1>0, <1>3, <2>1, <2>3 DEF FilesTyped
  <2>4. CASE /\ wt' = [wt EXCEPT !.tree = RevertedIndex(task[p].req)]
             /\ Goto(p, "commit") /\ UNCHANGED lock
    <3>1. Progress(p)' /\ Fits(p)'
      BY <1>1, <2>1, <2>2, <2>4 DEF Progress
    <3>2. FilesTyped'
      BY <1>0, <2>1, <2>2, <2>4 DEF FilesTyped, Branch
    <3> QED
      BY <1>0, <1>2, <2>1, <2>4, <3>1, <3>2
  <2> QED
    BY <1>8, <2>3, <2>4 DEF CheckNewChanges
<1>9. CASE CommitNewChanges(p)
  <2> DEFINE index == WithSource(RevertedIndex(task[p].req), task[p].req)
  <2>1. /\ cur = NoFile /\ branch \in Branch
        /\ Leave(p) /\ UNCHANGED <<cur, gc, source, torn, stale>>
        /\ branch' = branch \/ branch' = [branch EXCEPT !.tree = index]
        /\ wt' = [wt EXCEPT !.tree = branch'.tree]
    BY <1>0, <1>9 DEF CommitNewChanges, Progress
  <2>2. index \in Tree
    BY <1>0, <2>1 DEF WithSource, RevertedIndex, Branch, Tree, Commit, FilesTyped
  <2> HIDE DEF index
  <2>3. branch' \in Branch
    BY <2>1, <2>2 DEF Branch
  <2>4. FilesTyped'
    BY <1>0, <2>1, <2>3 DEF FilesTyped, Branch
  <2> QED
    BY <1>0, <1>3, <2>1, <2>4
<1>10. CASE GitFails(p)
  <2>1. /\ cur = NoFile /\ Leave(p) /\ UNCHANGED <<cur, gc, branch, source, torn, stale>>
    BY <1>0, <1>10 DEF GitFails, Progress
  <2>2. FilesTyped'
    BY <1>0, <1>10, <2>1 DEF GitFails, FilesTyped
  <2> QED
    BY <1>0, <1>3, <2>1, <2>2
<1> QED
  BY <1>4, <1>5, <1>6, <1>7, <1>8, <1>9, <1>10

-----------------------------------------------------------------------------
(* The lock, faults and the other users of the directory.                  *)

LEMMA WaitKeepsInvariant ==
  ASSUME IInv, NEW p \in Procs,
         Lock(p) \/ LockTimeout(p) \/ \E r \in Requests : Ask(p, r)
  PROVE  IInv'
<1> USE ConstantsAssumption
<1>1. /\ UNCHANGED <<wt, cur, gc, branch, source, torn, stale>>
      /\ FilesTyped' /\ RecordInv' /\ TypeOK
  BY DEF Lock, LockTimeout, Ask, dir, dev, ghosts, IInv, TypeOK, FilesTyped, RecordInv, Holds
<1>2. CASE Lock(p)
  <2> DEFINE pc == IF Prepares(task[p].req) THEN "look" ELSE "use"
  <2>1. Goto(p, pc) /\ pc \in Pcs /\ lock = NoProc /\ lock' = p /\ task[p].pc = "lock"
    BY <1>2 DEF Lock, Pcs, At
  <2>2. task[p] \in Task /\ Active(p)
    BY <1>1, <2>1, TaskForms DEF Active, Idle
  <2>3. /\ task' \in [Procs -> Task \union {Idle}]
        /\ task'[p].pc = pc /\ task'[p].req = task[p].req /\ Target(p)' = Target(p)
        /\ \A q \in Procs : q # p => task'[q] = task[q]
    BY <1>1, <2>1, <2>2, Going DEF Target
  <2>4. \A q \in Procs : task[q].pc \in {"idle", "lock"}
    BY <1>1, <2>1, TaskForms DEF IInv, LockInv, Active, At
  <2>5. gc = "idle"
    BY <2>2 DEF IInv, LockInv, TypeOK
  <2>6. TypeOK' /\ LockInv'
    <3>1. TypeOK'
      BY <1>1, <2>1, <2>3 DEF TypeOK, FilesTyped
    <3>2. \A q \in Procs : q # p => task'[q] = Idle \/ task'[q].pc = "lock"
      BY <1>1, <2>3, <2>4, TaskForms
    <3>3. task'[p] # Idle /\ task'[p].pc # "lock"
      BY <2>3 DEF Idle
    <3> QED
      BY <1>1, <2>1, <2>5, <3>1, <3>2, <3>3 DEF LockInv, Active, At
  <2>7. Fits(p)' /\ Progress(p)'
    BY <2>1, <2>2, <2>3 DEF IInv, Fits, Progress, At, Unrecorded, Active, Prepares, Idle
  <2>8. \A q \in Procs : q # p => Fits(q)' /\ Progress(q)'
    BY <2>3, <2>4 DEF IInv, Fits, Progress, At, Unrecorded, Active, Target
  <2> QED
    BY <1>1, <2>6, <2>7, <2>8 DEF IInv
<1>3. ASSUME task' \in [Procs -> Task \union {Idle}], lock' = lock, task[p].pc \in {"idle", "lock"},
             \A q \in Procs : q # p => task'[q] = task[q],
             task'[p] = Idle \/ (gc = "idle" /\ task'[p].pc = "lock" /\ Fits(p)')
      PROVE  IInv'
  <2>1. TypeOK'
    BY <1>1, <1>3 DEF TypeOK, FilesTyped
  <2>2. LockInv'
    BY <1>1, <1>3, TaskForms DEF IInv, LockInv, Active, At, Idle
  <2>3. Fits(p)' /\ Progress(p)'
    BY <1>3 DEF Fits, Progress, At, Unrecorded, Active, Idle
  <2>4. \A q \in Procs : q # p => Fits(q)' /\ Progress(q)'
    BY <1>1, <1>3 DEF IInv, Fits, Progress, At, Unrecorded, Active, Target, Holds
  <2> QED
    BY <1>1, <2>1, <2>2, <2>3, <2>4 DEF IInv
<1>4. CASE LockTimeout(p)
  BY <1>1, <1>3, <1>4, Leaving DEF LockTimeout, At
<1>5. ASSUME NEW r \in Requests, Ask(p, r) PROVE IInv'
  <2> DEFINE t == [pc |-> "lock", req |-> r, target |-> r.commit, retried |-> FALSE]
  <2>1. t \in Task
    BY DEF Task, Pcs, Request
  <2>2. task' = [task EXCEPT ![p] = t] /\ task[p].pc = "idle"
    BY <1>5 DEF Ask, Active, Idle
  <2>3. task' \in [Procs -> Task \union {Idle}] /\ task'[p] = t
        /\ \A q \in Procs : q # p => task'[q] = task[q]
    BY <1>1, <2>1, <2>2 DEF TypeOK
  <2>4. Fits(p)'
    BY <2>3 DEF Fits, Target
  <2> QED
    BY <1>3, <1>5, <2>2, <2>3, <2>4 DEF Ask
<1> QED
  BY <1>2, <1>4, <1>5

LEMMA KillKeepsInvariant ==
  ASSUME IInv, NEW p \in Procs, Kill(p)
  PROVE  IInv'
<1> USE ConstantsAssumption
<1>1. /\ TypeOK /\ FilesTyped /\ RecordInv /\ Progress(p) /\ gc' = gc
      /\ UNCHANGED <<branch, source, torn, stale>>
      /\ task[p].pc # "idle"
  BY TaskForms DEF IInv, TypeOK, FilesTyped, Kill, dev, ghosts, Active
<1>2. /\ task' \in [Procs -> Task \union {Idle}] /\ task'[p] = Idle
      /\ \A q \in Procs : q # p => task'[q] = task[q]
  BY <1>1, Leaving DEF Kill
<1>3. Fits(p)' /\ Progress(p)'
  BY <1>2 DEF Fits, Progress, At, Unrecorded, Active, Idle
<1>4. CASE task[p].pc = "lock"
  <2>1. UNCHANGED <<wt, cur>> /\ lock' = lock
    BY <1>1, <1>4 DEF Kill, dir, At, IInv, LockInv, TypeOK
  <2>2. TypeOK' /\ RecordInv'
    BY <1>1, <1>2, <2>1 DEF TypeOK, RecordInv, Holds
  <2>3. LockInv'
    BY <1>1, <1>2, <1>4, <2>1 DEF IInv, LockInv, Active, At, Idle
  <2>4. \A q \in Procs : q # p => Fits(q)' /\ Progress(q)'
    BY <1>1, <1>2, <2>1 DEF IInv, Fits, Progress, At, Unrecorded, Active, Target, Holds
  <2> QED
    BY <1>3, <2>2, <2>3, <2>4 DEF IInv
<1>5. CASE task[p].pc # "lock"
  <2>1. lock = p /\ lock' = NoProc
    BY <1>1, <1>5, OthersWait DEF Kill, IInv
  <2>2. FilesTyped' /\ RecordInv'
    <3>1. CASE UNCHANGED dir
      BY <1>1, <3>1 DEF dir, FilesTyped, RecordInv, Holds
    <3>2. CASE /\ task[p].pc \in {"switch", "remove", "merge", "checkout", "commit"}
               /\ \E sound \in {wt.sound, FALSE} :
                    wt' = [wt EXCEPT !.here = TRUE, !.sound = sound, !.tree = Junk]
               /\ cur' = cur
      BY <1>1, <3>2 DEF FilesTyped, RecordInv, Progress, Unrecorded
    <3>3. CASE At(p, "submodules") /\ wt' = [wt EXCEPT !.sub = Junk] /\ cur' = cur
      BY <1>1, <3>3 DEF FilesTyped, RecordInv, Progress, Unrecorded, At
    <3>4. CASE task[p].pc \in {"record", "recordMerge"} /\ cur' = Junk /\ wt' = wt
      BY <1>1, <3>4 DEF FilesTyped, RecordInv, Progress
    <3> QED
      BY <3>1, <3>2, <3>3, <3>4 DEF Kill
  <2> QED
    BY <1>1, <1>2, <1>3, <1>5, <2>1, <2>2, HolderStep DEF Idle
<1> QED
  BY <1>4, <1>5

LEMMA DirectoryKeepsInvariant ==
  ASSUME IInv, Unregister \/ CollectBegin \/ CollectEnd \/ CollectKilled \/ Edit
  PROVE  IInv'
<1> USE ConstantsAssumption
<1>1. TypeOK /\ UNCHANGED <<lock, task, branch>>
  BY DEF IInv, Unregister, CollectBegin, CollectEnd, CollectKilled, Edit, dev, dir
<1>2. \A p \in Procs : Fits(p)'
  BY <1>1 DEF IInv, Fits, Active, Target
<1>3. CASE Unregister
  <2>1. /\ wt' = [wt EXCEPT !.sound = FALSE] /\ lock = NoProc
        /\ UNCHANGED <<cur, gc, source, torn, stale>>
    BY <1>3 DEF Unregister, dev, ghosts
  <2>2. wt'.here = wt.here /\ wt'.tree = wt.tree /\ wt'.sub = wt.sub
    BY <1>1, <2>1 DEF TypeOK
  <2>3. TypeOK'
    BY <1>1, <2>1 DEF TypeOK
  <2>4. LockInv' /\ RecordInv' /\ \A p \in Procs : Progress(p)'
    BY <1>1, <2>1, <2>2 DEF IInv, LockInv, RecordInv, Progress, Active, At, Target, Holds
  <2> QED
    BY <1>2, <2>3, <2>4 DEF IInv
<1>4. ASSUME \A p \in Procs : ~Active(p), FilesTyped', gc' \in {"idle", "removing"}, RecordInv'
      PROVE  IInv'
  <2>1. \A p \in Procs : Progress(p)'
    BY <1>1, <1>4 DEF Progress, Active, Idle, At, Unrecorded
  <2> QED
    BY <1>1, <1>2, <1>4, <2>1 DEF IInv, TypeOK, FilesTyped, LockInv, Active
<1>5. CASE CollectBegin
  <2>1. FilesTyped'
    BY <1>1, <1>5 DEF CollectBegin, TypeOK, FilesTyped, dev
  <2>2. RecordInv'
    BY <1>1, <1>5 DEF CollectBegin, TypeOK, RecordInv, Holds
  <2> QED
    BY <1>4, <1>5, <2>1, <2>2 DEF CollectBegin
<1>6. CASE CollectEnd
  <2>1. FilesTyped' /\ RecordInv'
    BY <1>1, <1>6 DEF CollectEnd, TypeOK, FilesTyped, RecordInv, dev
  <2> QED
    BY <1>4, <1>6, <2>1 DEF CollectEnd, IInv, LockInv
<1>7. CASE CollectKilled
  <2>1. FilesTyped' /\ RecordInv'
    BY <1>1, <1>7 DEF CollectKilled, TypeOK, FilesTyped, IInv, RecordInv, Holds, dev, dir, ghosts
  <2> QED
    BY <1>4, <1>7, <2>1 DEF CollectKilled, IInv, LockInv
<1>8. CASE Edit
  <2>1. source' \in Tree /\ UNCHANGED <<wt, cur, gc, torn, stale>>
    BY <1>1, <1>8 DEF Edit, TypeOK, Tree, dir, ghosts
  <2> QED
    BY <1>1, <1>2, <2>1 DEF IInv, TypeOK, LockInv, RecordInv, Progress, Active, At, Target, Holds
<1> QED
  BY <1>3, <1>5, <1>6, <1>7, <1>8

LEMMA InitKeepsInvariant == Init => IInv
<1> SUFFICES ASSUME Init PROVE IInv
  OBVIOUS
<1>1. TypeOK
  BY ConstantsAssumption DEF Init, TypeOK, Commit
<1>2. LockInv /\ RecordInv
  BY ConstantsAssumption DEF Init, LockInv, RecordInv, Active
<1>3. \A p \in Procs : Fits(p) /\ Progress(p)
  BY DEF Init, Fits, Progress, Active, Idle, At, Unrecorded
<1> QED
  BY <1>1, <1>2, <1>3 DEF IInv

LEMMA StepKeepsInvariant == IInv /\ [Next]_vars => IInv'
<1> SUFFICES ASSUME IInv, [Next]_vars PROVE IInv'
  OBVIOUS
<1>1. CASE UNCHANGED vars
  BY <1>1 DEF vars, IInv, TypeOK, LockInv, RecordInv, Fits, Progress, Active, At, Target, Holds
<1> QED
  BY <1>1, PrepareKeepsInvariant, UseKeepsInvariant, ChangeKeepsInvariant, WaitKeepsInvariant,
    KillKeepsInvariant, DirectoryKeepsInvariant DEF Next, Step

-----------------------------------------------------------------------------
(* The lock excludes, and the record never lies.                           *)

(* The record current_commit is away from before a process touches the     *)
(* work tree until after, so that it names the content of the tree at      *)
(* every step, and at most one process is past the lock.                   *)
THEOREM Invariance == Spec => []IInv
BY InitKeepsInvariant, StepKeepsInvariant, PTL DEF Spec

(* Whoever uses the prepared work tree finds the commit it asked for,      *)
(* whichever processes were killed and wherever.                           *)
THEOREM PreparedTrees == Spec => []PreparedIsCommit
<1>1. IInv => PreparedIsCommit
  BY DEF IInv, PreparedIsCommit, Progress, Holds
<1> QED
  BY <1>1, Invariance, PTL

\* What dev mode answers is the answer to the request, and the only steps that
\* answer are those that compare and that commit.
LEMMA AnswersAreSource ==
  ASSUME ServiceCommitIsSource, [Next]_vars
  PROVE  ServiceCommitIsSource'
<1>1. ASSUME NEW p \in Procs, CheckNewChanges(p), made' # made
      PROVE  ServiceCommitIsSource'
  <2> DEFINE r == task[p].req
             index == RevertedIndex(r)
  <2>1. index = branch.tree /\ WithSource(index, r) = index
        /\ made' = [tree |-> branch.tree, of |-> source, req |-> r]
    BY <1>1 DEF CheckNewChanges, Made
  <2>2. \A x \in Paths : index[x] = IF x \in r.excluded THEN r.commit.tree[x] ELSE branch.tree[x]
    BY DEF RevertedIndex
  <2>3. \A x \in Paths : index[x] = IF x \in r.excluded THEN index[x] ELSE source[x]
    <3>1. \A x \in Paths : WithSource(index, r)[x] = IF x \in r.excluded THEN index[x] ELSE source[x]
      BY DEF WithSource
    <3> QED
      BY <2>1, <3>1
  <2> HIDE DEF index, r
  <2> QED
    BY <2>1, <2>2, <2>3 DEF ServiceCommitIsSource
<1>2. ASSUME NEW p \in Procs, CommitNewChanges(p), made' # made
      PROVE  ServiceCommitIsSource'
  <2> DEFINE r == task[p].req
             index == WithSource(RevertedIndex(r), r)
  <2>1. made' = [tree |-> index, of |-> source, req |-> r]
    BY <1>2 DEF CommitNewChanges, Made
  <2>2. \A x \in Paths : index[x] = IF x \in r.excluded THEN r.commit.tree[x] ELSE source[x]
    BY DEF WithSource, RevertedIndex
  <2> HIDE DEF index, r
  <2> QED
    BY <2>1, <2>2 DEF ServiceCommitIsSource
<1>3. CASE made' \in {made, NoFile}
  BY <1>3 DEF ServiceCommitIsSource
<1>4. ASSUME NEW p \in Procs,
             Step(p) \/ Kill(p) \/ \E r \in Requests : Ask(p, r),
             ~CheckNewChanges(p), ~CommitNewChanges(p)
      PROVE  made' \in {made, NoFile}
  BY <1>4 DEF Step, Kill, Ask, Lock, LockTimeout, PrepareWorkTree, ForgetInvalidTree,
    RemoveInvalidTree, RemoveRecord, SwitchWorkTree, SwitchSubmodules, RecordCommit, UseTree,
    CommitsNotPresent, SwitchedToFrom, ForgetBeforeChange, CreateDetachedMergeCommit, RecordMerge,
    PrepareServiceBranch, GitFails, dev
<1>5. ASSUME Unregister \/ CollectBegin \/ CollectEnd \/ CollectKilled \/ Edit \/ UNCHANGED vars
      PROVE  made' = made
  BY <1>5 DEF Unregister, CollectBegin, CollectEnd, CollectKilled, Edit, vars, dev
<1> QED
  BY <1>1, <1>2, <1>3, <1>4, <1>5 DEF Next

(* The commit that dev mode builds has the user's files where they are not *)
(* excluded and those of HEAD where they are, for every history of the     *)
(* service branch.                                                         *)
THEOREM ServiceCommits == Spec => []ServiceCommitIsSource
<1>1. Init => ServiceCommitIsSource
  BY DEF Init, ServiceCommitIsSource
<1> QED
  BY <1>1, AnswersAreSource, PTL DEF Spec

-----------------------------------------------------------------------------
(* GitHistory.                                                             *)

-----------------------------------------------------------------------------
(* Greatest numbers and images of finite sets.                             *)

LEMMA LeastNatural ==
  ASSUME NEW S \in SUBSET Nat, S # {}
  PROVE  \E n \in S : \A m \in S : n <= m
<1> DEFINE Less == {p \in Nat \X Nat : p[1] < p[2]}
<1>1. IsWellFoundedOn(Less, Nat)
  BY NatLessThanWellFounded, Zenon DEF OpToRel
<1>2. PICK n \in S : \A m \in S : ~(<<m, n>> \in Less)
  BY <1>1, WFMin, Zenon
<1>3. \A m \in S : ~(m < n)
  BY <1>2
<1> QED
  BY <1>3

LEMMA GreatestNatural ==
  ASSUME NEW S \in SUBSET Nat, S # {}, IsFiniteSet(S)
  PROVE  \E n \in S : \A m \in S : m <= n
<1> DEFINE HasGreatest(T) == \E n \in T : \A m \in T : m <= n
           Bad == {k \in Nat : \E T \in SUBSET Nat : /\ T # {} /\ IsFiniteSet(T) /\ Cardinality(T) = k
                                                     /\ ~HasGreatest(T)}
<1>1. ASSUME Bad # {} PROVE FALSE
  <2>1. PICK k \in Bad : \A j \in Bad : k <= j
    BY <1>1, LeastNatural
  <2>2. PICK T \in SUBSET Nat : T # {} /\ IsFiniteSet(T) /\ Cardinality(T) = k /\ ~HasGreatest(T)
    BY <2>1
  <2>3. PICK x \in T : TRUE
    BY <2>2
  <2> DEFINE U == T \ {x}
  <2>4. IsFiniteSet(U) /\ Cardinality(U) = k - 1 /\ U \in SUBSET Nat
    BY <2>2, <2>3, FS_RemoveElement
  <2>5. Cardinality(U) \in Nat
    BY <2>4, FS_CardinalityType
  <2>6. U # {} => HasGreatest(U)
    BY <2>1, <2>4, <2>5
  <2>7. CASE U = {}
    BY <2>2, <2>3, <2>7
  <2>8. CASE U # {}
    <3>1. PICK n \in U : \A m \in U : m <= n
      BY <2>6, <2>8
    <3>2. CASE x <= n
      BY <2>2, <2>3, <3>1, <3>2
    <3>3. CASE ~(x <= n)
      <4>1. \A m \in T : m <= x
        BY <2>2, <2>3, <3>1, <3>3
      <4> QED
        BY <2>2, <2>3, <4>1
    <3> QED
      BY <3>2, <3>3
  <2> QED
    BY <2>7, <2>8
<1>2. Cardinality(S) \in Nat
  BY FS_CardinalityType
<1> QED
  BY <1>1, <1>2

LEMMA ImageOf ==
  ASSUME NEW S, IsFiniteSet(S), NEW f, S \subseteq DOMAIN f
  PROVE  /\ IsFiniteSet({f[x] : x \in S})
         /\ Cardinality({f[x] : x \in S}) <= Cardinality(S)
<1> DEFINE g == [x \in S |-> f[x]]
           T == {f[x] : x \in S}
<1>1. g \in Surjection(S, T)
  BY DEF Surjection
<1> QED
  BY <1>1, FS_Surjection

-----------------------------------------------------------------------------
(* Limits: what the youngest commits of the stages are cut down to.        *)

Dates == when \in [Commits -> Nat]

\* A stage that is cut off has "last" others with commits as young as its own.
LEMMA CutOff ==
  ASSUME Dates, NEW A, IsFiniteSet(A), NEW f \in [A -> Commits], NEW last \in Nat,
         NEW L \in SUBSET {f[t] : t \in A},
         Cardinality(L) = IF Cardinality({f[t] : t \in A}) < last
                          THEN Cardinality({f[t] : t \in A}) ELSE last,
         \A c \in L, d \in {f[t] : t \in A} \ L : when[c] >= when[d],
         NEW s \in A, f[s] \notin L
  PROVE  /\ Cardinality(L) = last
         /\ Cardinality({t \in A \ {s} : when[f[t]] >= when[f[s]]}) >= last
<1> DEFINE all == {f[t] : t \in A}
           T == {t \in A \ {s} : when[f[t]] >= when[f[s]]}
           I == {f[t] : t \in T}
<1>1. IsFiniteSet(all) /\ Cardinality(all) \in Nat /\ IsFiniteSet(T) /\ Cardinality(T) \in Nat
  BY ImageOf, FS_Subset, FS_CardinalityType
<1>2. IsFiniteSet(L) /\ Cardinality(L) # Cardinality(all) /\ L # all
  BY <1>1, FS_Subset
<1>3. Cardinality(L) = last
  BY <1>2
<1>4. IsFiniteSet(I) /\ Cardinality(I) <= Cardinality(T) /\ Cardinality(I) \in Nat
  BY <1>1, ImageOf, FS_CardinalityType
<1>5. L \subseteq I
  <2> SUFFICES ASSUME NEW c \in L PROVE c \in I
    OBVIOUS
  <2>1. PICK t \in A : c = f[t]
    OBVIOUS
  <2>2. t # s /\ when[c] >= when[f[s]]
    BY <2>1
  <2> QED
    BY <2>1, <2>2
<1>6. Cardinality(L) <= Cardinality(I)
  BY <1>4, <1>5, FS_Subset
<1> QED
  BY <1>1, <1>3, <1>4, <1>6

\* Of things of different ages the "last" youngest are those with fewer than
\* "last" younger ones.
LEMMA TopOf ==
  ASSUME NEW C, IsFiniteSet(C), NEW f \in [C -> Nat], \A c, d \in C : c # d => f[c] # f[d],
         NEW last \in Nat, NEW L \in SUBSET C,
         Cardinality(L) = IF Cardinality(C) < last THEN Cardinality(C) ELSE last,
         \A c \in L, d \in C \ L : f[c] >= f[d],
         NEW c \in C
  PROVE  c \in L <=> Cardinality({d \in C : f[d] > f[c]}) < last
<1> DEFINE N == {d \in C : f[d] > f[c]}
<1>1. /\ IsFiniteSet(L) /\ IsFiniteSet(N)
      /\ Cardinality(L) \in Nat /\ Cardinality(N) \in Nat /\ Cardinality(C) \in Nat
  BY FS_Subset, FS_CardinalityType
<1>2. ASSUME c \in L PROVE Cardinality(N) < last
  <2>1. N \subseteq L \ {c}
    BY <1>2
  <2>2. IsFiniteSet(L \ {c}) /\ Cardinality(L \ {c}) = Cardinality(L) - 1
    BY <1>1, <1>2, FS_RemoveElement
  <2>3. Cardinality(N) <= Cardinality(L) - 1
    BY <2>1, <2>2, FS_Subset
  <2> QED
    BY <1>1, <2>3
<1>3. ASSUME c \notin L PROVE Cardinality(N) >= last
  <2>1. Cardinality(L) # Cardinality(C)
    BY <1>3, FS_Subset
  <2>2. L \subseteq N
    BY <1>3
  <2>3. Cardinality(L) <= Cardinality(N)
    BY <1>1, <2>2, FS_Subset
  <2> QED
    BY <1>1, <2>1, <2>3
<1> QED
  BY <1>1, <1>2, <1>3

\* A nonempty finite set of commits has a youngest one.
LEMMA Youngest ==
  ASSUME Dates, NEW C \in SUBSET Commits, IsFiniteSet(C), C # {}
  PROVE  \E c \in C : \A d \in C : when[d] <= when[c]
<1> DEFINE S == {when[c] : c \in C}
<1>1. S \in SUBSET Nat /\ S # {} /\ IsFiniteSet(S)
  BY ImageOf DEF Dates
<1>2. PICK n \in S : \A m \in S : m <= n
  BY <1>1, GreatestNatural
<1> QED
  BY <1>2

-----------------------------------------------------------------------------
(* Types.                                                                  *)

\* What was chosen at the start: the repository and werf.yaml.
InputOK ==
  /\ parents \in [Commits -> Seq(Commits)]
  /\ Dates
  /\ head \in [Refs -> Commits]
  /\ policies \in PolicyChoices

\* What the phases leave empty, and that records are only ever deleted.
PhaseOK ==
  /\ phase # "scan" => scan = NoScan /\ todo = {}
  /\ phase = "policies" => reached = {} /\ stop = {}
  /\ phase # "policies" => next = Len(KeepPolicies) + 1
  /\ first = [given |-> first.given, saved |-> first.saved]
  /\ first.given \in [Stages -> SUBSET (Commits \cup {Gone})]
  /\ \A s \in Stages : metadata[s] \subseteq first.given[s]

Policies == [refs : SUBSET Refs, limit : Limits, images : Limits]

LEMMA PoliciesOK ==
  ASSUME InputOK
  PROVE  /\ KeepPolicies \in Seq(Policies) /\ Len(KeepPolicies) \in Nat
         /\ DOMAIN KeepPolicies = 1..Len(KeepPolicies)
         /\ \A k \in 1..Len(KeepPolicies) : KeepPolicies[k] \in Policies
<1>1. DefaultImages \in Limits /\ NoLimit \in Limits
  BY DEF DefaultImages, NoLimit, Limit, Limits, NoIn
<1>2. \A n \in Int, w \in Nat : Limit(n, w, "And") \in Limits
  BY DEF Limit, Limits
<1>3. 0 \in Nat /\ WeekAgo \in Nat /\ MainBranches \subseteq Refs /\ Tags \subseteq Refs /\ Branches \subseteq Refs
  BY HistoryAssumption DEF Refs
<1>4. DefaultPolicies \in Seq(Policies)
  <2>1. /\ [refs |-> Tags, limit |-> Limit(10, NoIn, "And"), images |-> DefaultImages] \in Policies
        /\ [refs |-> Branches, limit |-> Limit(10, WeekAgo, "And"), images |-> Limit(2, WeekAgo, "And")]
             \in Policies
        /\ [refs |-> MainBranches, limit |-> NoLimit, images |-> Limit(10, NoIn, "And")] \in Policies
    BY <1>1, <1>2, <1>3 DEF Policies, NoIn
  <2> QED
    BY <2>1 DEF DefaultPolicies
<1>5. policies \in Seq(Policies)
  BY HistoryAssumption DEF InputOK, Policies
<1>6. KeepPolicies \in Seq(Policies)
  BY <1>4, <1>5 DEF KeepPolicies
<1> QED
  BY <1>6

\* Of the commits that a stage was found on, LatestCommit is a youngest one.
LEMMA LatestOK ==
  ASSUME Dates, NEW found \in Seq(Commits), NEW sought, NEW s \in ReachedStages(found, sought)
  PROVE  /\ LatestCommit(s, found, sought) \in Range(found) \cap sought[s]
         /\ \A c \in Range(found) \cap sought[s] : when[c] <= when[LatestCommit(s, found, sought)]
<1> DEFINE C == Range(found) \cap sought[s]
<1>1. C \in SUBSET Commits /\ IsFiniteSet(C) /\ C # {}
  <2>1. Range(found) \subseteq Commits
    BY DEF Range
  <2> QED
    BY <2>1, HistoryAssumption, FS_Subset DEF ReachedStages
<1>2. PICK c \in C : \A d \in C : when[d] <= when[c]
  BY <1>1, Youngest
<1> DEFINE I == {i \in DOMAIN found : found[i] \in sought[s] /\ when[found[i]] = when[c]}
<1>3. I \in SUBSET Nat /\ I # {}
  BY <1>2 DEF Range
<1>4. PICK i \in I : \A j \in I : i <= j
  BY <1>3, LeastNatural
<1> DEFINE P(k) == /\ found[k] \in sought[s]
                   /\ \A j \in DOMAIN found : found[j] \in sought[s] =>
                        \/ when[found[j]] < when[found[k]]
                        \/ when[found[j]] = when[found[k]] /\ k <= j
<1>5. i \in DOMAIN found /\ P(i)
  <2>1. \A j \in DOMAIN found : found[j] \in sought[s] => found[j] \in C /\ when[found[j]] \in Nat
    BY <1>1 DEF Range, Dates
  <2> QED
    BY <1>2, <1>4, <2>1 DEF Dates
<1> DEFINE k == CHOOSE n \in DOMAIN found : P(n)
<1>6. k \in DOMAIN found /\ P(k)
  BY <1>5
<1>7. LatestCommit(s, found, sought) = found[k]
  BY DEF LatestCommit
<1>8. found[k] \in C /\ \A d \in C : when[d] \in Nat
  BY <1>1, <1>6 DEF Range, Dates
<1> HIDE DEF k
<1>9. \A d \in C : when[d] <= when[found[k]]
  BY <1>6, <1>8 DEF Range
<1> QED
  BY <1>7, <1>8, <1>9

\* The commits of a stage that a limit lets a scan seek.
Young(s, limit) ==
  {c \in metadata[s] \ {Gone} : limit.op = "Or" \/ limit.in = NoIn \/ when[c] > limit.in}

Recorded == metadata \in [Stages -> SUBSET (Commits \cup {Gone})]

LEMMA ExpectedOK ==
  ASSUME Recorded, NEW limit \in Limits
  PROVE  /\ DOMAIN Expected(limit) \subseteq Stages
         /\ \A s \in DOMAIN Expected(limit) :
              /\ Expected(limit)[s] = Young(s, limit) /\ Expected(limit)[s] \subseteq Commits
              /\ limit.last # 0 /\ metadata[s] # {}
         /\ limit.last # 0 => \A s \in Stages : Young(s, limit) # {} => s \in DOMAIN Expected(limit)
<1> DEFINE all == {t \in Stages : metadata[t] # {}}
           young(s) == {c \in StageIDCommitList[s] : when[c] > limit.in}
<1>1. /\ DOMAIN StageIDCommitList = all
      /\ \A s \in all : StageIDCommitList[s] = metadata[s] \ {Gone}
  BY DEF StageIDCommitList
<1>2. CASE limit.last = 0
  <2>1. DOMAIN Expected(limit) = {}
    BY <1>2 DEF Expected
  <2> QED
    BY <1>2, <2>1
<1>3. CASE limit.last # 0 /\ limit.in # NoIn /\ limit.op = "And"
  <2>1. Expected(limit) = [s \in {t \in all : young(t) # {}} |-> young(s)]
    BY <1>1, <1>3 DEF Expected
  <2>2. \A s \in all : young(s) = Young(s, limit)
    BY <1>1, <1>3 DEF Young
  <2>3. \A s \in Stages : Young(s, limit) \subseteq Commits /\ (Young(s, limit) # {} => s \in all)
    BY DEF Young, Recorded
  <2> HIDE DEF young
  <2> QED
    BY <1>3, <2>1, <2>2, <2>3
<1>4. CASE limit.last # 0 /\ ~(limit.in # NoIn /\ limit.op = "And")
  <2>1. Expected(limit) = StageIDCommitList
    BY <1>4 DEF Expected
  <2>2. limit.op = "Or" \/ limit.in = NoIn
    BY <1>4 DEF Limits
  <2>3. \A s \in all : StageIDCommitList[s] = Young(s, limit)
    BY <1>1, <2>2 DEF Young
  <2>4. \A s \in Stages : Young(s, limit) \subseteq Commits /\ (Young(s, limit) # {} => s \in all)
    BY DEF Young, Recorded
  <2> QED
    BY <1>1, <1>4, <2>1, <2>3, <2>4
<1> QED
  BY <1>2, <1>3, <1>4

LEMMA StopOK ==
  ASSUME NEW found \in Seq(Commits), NEW sought, NEW limit
  PROVE  /\ StopCommits(found, sought, limit) \subseteq Commits
         /\ StopCommits(found, sought, limit) # {} =>
              /\ limit.last < 0 \/ Cardinality(ReachedStages(found, sought)) < limit.last
              /\ sought = StageIDCommitList
              /\ ReachedStages(found, sought) = DOMAIN sought
<1>1. ASSUME DOMAIN sought # {}, ReachedStages(found, sought) = DOMAIN sought
      PROVE  Last(found) \in Commits
  <2>1. PICK c \in Range(found) : TRUE
    BY <1>1 DEF ReachedStages
  <2>2. PICK i \in DOMAIN found : TRUE
    BY <2>1 DEF Range
  <2> QED
    BY <2>2 DEF Last
<1> QED
  BY <1>1 DEF StopCommits

HistoryTypes == InputOK /\ HistoryTypeOK /\ PhaseOK

LEMMA TypesInit ==
  ASSUME HistoryInit
  PROVE  HistoryTypes
<1>1. InputOK
  BY HistoryAssumption DEF HistoryInit, InputOK, Dates
<1>2. Len(KeepPolicies) \in Nat
  BY <1>1, PoliciesOK
<1>3. DefaultImages \in Limits
  BY DEF DefaultImages, Limits, NoIn
<1>4. HistoryTypeOK
  BY <1>2, <1>3 DEF HistoryInit, HistoryTypeOK
<1> QED
  BY <1>1, <1>4 DEF HistoryInit, HistoryTypes, PhaseOK

LEMMA InputSame ==
  ASSUME UNCHANGED input
  PROVE  KeepPolicies' = KeepPolicies /\ (InputOK => InputOK')
BY DEF input, KeepPolicies, InputOK, Dates

\* What a policy selects are references that it names.
LEMMA LimitedRefs ==
  ASSUME NEW refs, NEW limit, NEW R \in ApplyReferencesLimit(refs, limit)
  PROVE  R \subseteq refs
<1>1. \A L \in FilterReferencesByLast(refs, limit.last) : L \subseteq refs
  BY DEF FilterReferencesByLast, kSubset
<1> QED
  BY <1>1 DEF ApplyReferencesLimit, FilterReferencesByIn

LEMMA TypesApply ==
  ASSUME HistoryTypes, ApplyPolicy
  PROVE  HistoryTypes'
<1> USE DEF HistoryTypes
<1>1. KeepPolicies' = KeepPolicies /\ InputOK'
  BY InputSame DEF ApplyPolicy
<1>2. Len(KeepPolicies) \in Nat /\ next \in 1..Len(KeepPolicies) /\ KeepPolicies[next] \in Policies
  BY PoliciesOK DEF ApplyPolicy, HistoryTypeOK
<1>3. PICK refs \in ApplyReferencesLimit(KeepPolicies[next].refs, KeepPolicies[next].limit) :
        /\ selected' = selected \cup refs
        /\ keep' = [r \in Refs |-> IF r \in refs THEN KeepPolicies[next].images ELSE keep[r]]
  BY DEF ApplyPolicy
<1>4. refs \subseteq Refs
  BY <1>2, <1>3, LimitedRefs DEF Policies
<1>5. HistoryTypeOK'
  <2>1. selected' \subseteq Refs /\ todo' \subseteq selected' /\ keep' \in [Refs -> Limits]
    BY <1>2, <1>3, <1>4 DEF HistoryTypeOK, ApplyPolicy, Policies
  <2>2. next' \in 1..(Len(KeepPolicies) + 1)
    BY <1>2 DEF ApplyPolicy
  <2> QED
    BY <1>1, <2>1, <2>2 DEF HistoryTypeOK, ApplyPolicy, Scans
<1>6. PhaseOK'
  BY <1>1 DEF PhaseOK, ApplyPolicy
<1> QED
  BY <1>1, <1>5, <1>6

LEMMA TypesStart ==
  ASSUME HistoryTypes, StartScan
  PROVE  HistoryTypes'
<1> USE DEF HistoryTypes
<1>1. KeepPolicies' = KeepPolicies /\ InputOK'
  BY InputSame DEF StartScan
<1>2. Len(KeepPolicies) \in Nat /\ next = Len(KeepPolicies) + 1
  BY PoliciesOK DEF StartScan, HistoryTypeOK
<1>3. scan' = NoScan
  BY DEF StartScan, PhaseOK
<1>4. HistoryTypeOK'
  BY <1>1, <1>3 DEF HistoryTypeOK, StartScan
<1>5. PhaseOK'
  BY <1>1, <1>2 DEF PhaseOK, StartScan
<1> QED
  BY <1>1, <1>4, <1>5

LEMMA TypesReference ==
  ASSUME HistoryTypes, NEW r \in Refs, ScanReference(r)
  PROVE  HistoryTypes'
<1> USE DEF HistoryTypes
<1>1. KeepPolicies' = KeepPolicies /\ InputOK'
  BY InputSame DEF ScanReference
<1> DEFINE new == [ref |-> r, found |-> <<>>, scanned |-> {}, level |-> <<head[r]>>, parents |-> <<>>]
<1>2. scan' # NoScan => scan' \in Scans /\ scan'.ref \in todo'
  <2>1. <<head[r]>> \in Seq(Commits) /\ <<>> \in Seq(Commits)
    BY DEF InputOK
  <2>2. new \in Scans /\ new.ref = r
    BY <2>1 DEF Scans
  <2> HIDE DEF new
  <2>3. scan' = scan \/ (scan' = new /\ todo' = todo)
    BY DEF ScanReference, new
  <2>4. scan = NoScan /\ r \in todo
    BY DEF ScanReference
  <2> QED
    BY <2>2, <2>3, <2>4
<1> HIDE DEF new
<1>3. HistoryTypeOK'
  BY <1>1, <1>2 DEF HistoryTypeOK, ScanReference, Scans
<1>4. PhaseOK'
  BY <1>1 DEF PhaseOK, ScanReference
<1> QED
  BY <1>1, <1>3, <1>4

LEMMA TypesCommit ==
  ASSUME HistoryTypes, ScanCommit
  PROVE  HistoryTypes'
<1> USE DEF HistoryTypes
<1>1. KeepPolicies' = KeepPolicies /\ InputOK'
  BY InputSame DEF ScanCommit
<1> DEFINE c == Head(scan.level)
           found == HandleCommit(c)
<1>2. scan \in Scans /\ scan.ref \in todo
  BY DEF ScanCommit, Scanning, HistoryTypeOK
<1>3. c \in Commits /\ Tail(scan.level) \in Seq(Commits) /\ found \in Seq(Commits)
      /\ scan.parents \o parents[c] \in Seq(Commits)
  BY <1>2 DEF ScanCommit, Scans, HandleCommit, InputOK
<1> HIDE DEF c, found
<1>4. scan' \in Scans /\ scan'.ref = scan.ref
  <2>1. \/ scan' = [scan EXCEPT !.level = Tail(scan.level)]
        \/ scan' = [scan EXCEPT !.level = Tail(scan.level), !.found = found]
        \/ scan' = [scan EXCEPT !.level = <<>>, !.found = found]
        \/ scan' = [scan EXCEPT !.level = Tail(scan.level), !.found = found, !.scanned = @ \cup {c},
                                !.parents = @ \o parents[c]]
    BY DEF ScanCommit, c, found
  <2>2. CASE scan' = [scan EXCEPT !.level = Tail(scan.level)]
    BY <1>2, <1>3, <2>2 DEF Scans
  <2>3. CASE scan' = [scan EXCEPT !.level = Tail(scan.level), !.found = found]
    BY <1>2, <1>3, <2>3 DEF Scans
  <2>4. CASE scan' = [scan EXCEPT !.level = <<>>, !.found = found]
    <3>1. <<>> \in Seq(Commits)
      OBVIOUS
    <3> QED
      BY <1>2, <1>3, <2>4, <3>1 DEF Scans
  <2>5. CASE scan' = [scan EXCEPT !.level = Tail(scan.level), !.found = found,
                                  !.scanned = @ \cup {c}, !.parents = @ \o parents[c]]
    BY <1>2, <1>3, <2>5 DEF Scans
  <2> QED
    BY <2>1, <2>2, <2>3, <2>4, <2>5
<1>5. HistoryTypeOK'
  BY <1>1, <1>2, <1>4 DEF HistoryTypeOK, ScanCommit, Scans
<1>6. PhaseOK'
  BY <1>1 DEF PhaseOK, ScanCommit, Scanning
<1> QED
  BY <1>1, <1>5, <1>6

LEMMA TypesParents ==
  ASSUME HistoryTypes, ScanParents
  PROVE  HistoryTypes'
<1> USE DEF HistoryTypes
<1>1. KeepPolicies' = KeepPolicies /\ InputOK'
  BY InputSame DEF ScanParents
<1>2. scan' \in Scans /\ scan'.ref \in todo
  BY DEF ScanParents, Scanning, HistoryTypeOK, Scans
<1>3. HistoryTypeOK'
  BY <1>1, <1>2 DEF HistoryTypeOK, ScanParents, Scans
<1>4. PhaseOK'
  BY <1>1 DEF PhaseOK, ScanParents, Scanning
<1> QED
  BY <1>1, <1>3, <1>4

\* The stages that the scan has found, and the commit each is found on last.
FoundStages == ReachedStages(scan.found, Sought)
FoundOn(s) == LatestCommit(s, scan.found, Sought)

LEMMA ScanTypes ==
  ASSUME HistoryTypes, Scanning
  PROVE  /\ scan \in Scans /\ scan.ref \in todo /\ scan.ref \in selected /\ keep[scan.ref] \in Limits
         /\ DOMAIN Sought \subseteq Stages
         /\ \A s \in DOMAIN Sought :
              /\ Sought[s] = Young(s, keep[scan.ref]) /\ Sought[s] \subseteq Commits
              /\ keep[scan.ref].last # 0 /\ metadata[s] # {}
         /\ keep[scan.ref].last # 0 =>
              \A s \in Stages : Young(s, keep[scan.ref]) # {} => s \in DOMAIN Sought
         /\ FoundStages \subseteq DOMAIN Sought
         /\ \A s \in FoundStages :
              /\ FoundOn(s) \in Range(scan.found) \cap Sought[s]
              /\ \A c \in Range(scan.found) \cap Sought[s] : when[c] <= when[FoundOn(s)]
<1>1. scan \in Scans /\ scan.ref \in todo /\ scan.ref \in selected /\ keep[scan.ref] \in Limits
  BY DEF HistoryTypes, HistoryTypeOK, Scanning
<1>2. Recorded /\ Dates /\ scan.found \in Seq(Commits)
  BY <1>1 DEF HistoryTypes, HistoryTypeOK, InputOK, Recorded, Scans
<1>3. FoundStages \subseteq DOMAIN Sought
  BY DEF FoundStages, ReachedStages
<1>4. \A s \in FoundStages :
        /\ FoundOn(s) \in Range(scan.found) \cap Sought[s]
        /\ \A c \in Range(scan.found) \cap Sought[s] : when[c] <= when[FoundOn(s)]
  BY <1>2, LatestOK DEF FoundStages, FoundOn
<1> QED
  BY <1>1, <1>2, <1>3, <1>4, ExpectedOK DEF Sought

\* What the end of a scan saves.
LEMMA ScanSaves ==
  ASSUME ScanReferenceHistory
  PROVE  LET limit == keep[scan.ref]
             all == {FoundOn(s) : s \in FoundStages}
         IN  \E C : /\ IF limit.last > 0 /\ Cardinality(FoundStages) > limit.last
                       THEN C \in HandleExtra(all, limit) ELSE C = all
                    /\ reached' = reached \cup {s \in FoundStages : FoundOn(s) \in C}
                    /\ hit' = [s \in Stages |-> IF s \in FoundStages /\ FoundOn(s) \in C
                                                THEN hit[s] \cup {FoundOn(s)} ELSE hit[s]]
<1> DEFINE limit == keep[scan.ref]
           all == {FoundOn(s) : s \in FoundStages}
           extra == limit.last > 0 /\ Cardinality(FoundStages) > limit.last
<1>1. PICK C \in IF extra THEN HandleExtra(all, limit) ELSE {all} :
        /\ reached' = reached \cup {s \in FoundStages : FoundOn(s) \in C}
        /\ hit' = [s \in Stages |-> IF s \in {t \in FoundStages : FoundOn(t) \in C}
                                    THEN hit[s] \cup {FoundOn(s)} ELSE hit[s]]
  BY DEF ScanReferenceHistory, FoundStages, FoundOn
<1> HIDE DEF limit, all, extra
<1>2. hit' = [s \in Stages |-> IF s \in FoundStages /\ FoundOn(s) \in C
                               THEN hit[s] \cup {FoundOn(s)} ELSE hit[s]]
  BY <1>1
<1>3. IF extra THEN C \in HandleExtra(all, limit) ELSE C = all
  BY <1>1
<1> QED
  BY <1>1, <1>2, <1>3 DEF limit, all, extra

LEMMA TypesHistory ==
  ASSUME HistoryTypes, ScanReferenceHistory
  PROVE  HistoryTypes'
<1> USE DEF HistoryTypes
<1>1. KeepPolicies' = KeepPolicies /\ InputOK'
  BY InputSame DEF ScanReferenceHistory
<1>2. Scanning
  BY DEF ScanReferenceHistory
<1>3. PICK C : /\ reached' = reached \cup {s \in FoundStages : FoundOn(s) \in C}
               /\ hit' = [s \in Stages |-> IF s \in FoundStages /\ FoundOn(s) \in C
                                           THEN hit[s] \cup {FoundOn(s)} ELSE hit[s]]
  BY ScanSaves
<1>4. FoundStages \subseteq Stages /\ \A s \in FoundStages : FoundOn(s) \in Commits
  BY <1>2, ScanTypes
<1>5. stop' \subseteq Commits
  BY <1>2, ScanTypes, StopOK DEF ScanReferenceHistory, HistoryTypeOK, Scans
<1>6. reached' \subseteq Stages /\ hit' \in [Stages -> SUBSET Commits]
  BY <1>3, <1>4 DEF HistoryTypeOK
<1>7. HistoryTypeOK'
  BY <1>1, <1>5, <1>6 DEF HistoryTypeOK, ScanReferenceHistory
<1>8. PhaseOK'
  BY <1>1, <1>2 DEF PhaseOK, ScanReferenceHistory, Scanning
<1> QED
  BY <1>1, <1>7, <1>8

LEMMA TypesEnd ==
  ASSUME HistoryTypes, EndScan
  PROVE  HistoryTypes'
<1> USE DEF HistoryTypes
<1>1. KeepPolicies' = KeepPolicies /\ InputOK'
  BY InputSame DEF EndScan
<1>2. HistoryTypeOK'
  BY <1>1 DEF HistoryTypeOK, EndScan, Scans
<1>3. first' = [given |-> first.given, saved |-> first'.saved]
  BY DEF PhaseOK, EndScan
<1>4. PhaseOK'
  BY <1>1, <1>3 DEF PhaseOK, EndScan
<1> QED
  BY <1>1, <1>2, <1>4

\* Deleting records leaves the hits, and never adds a record.
LEMMA RecordsLeft ==
  ASSUME HistoryTypes, CleanupImageMetadata
  PROVE  /\ metadata' \in [Stages -> SUBSET (Commits \cup {Gone})]
         /\ \A s \in Stages : /\ metadata'[s] \subseteq metadata[s]
                              /\ s \in reached => metadata[s] \cap hit[s] \subseteq metadata'[s]
<1>1. PICK failed : metadata' = [s \in Stages |-> (metadata[s] \ RecordsToDelete[s])
                                     \cup {c \in RecordsToDelete[s] : <<s, c>> \in failed}]
  BY DEF CleanupImageMetadata
<1>2. \A s \in Stages : /\ RecordsToDelete[s] \subseteq metadata[s]
                        /\ s \in reached => RecordsToDelete[s] = metadata[s] \ hit[s]
  BY DEF RecordsToDelete
<1>3. \A s \in Stages : metadata[s] \subseteq Commits \cup {Gone}
  BY DEF HistoryTypes, HistoryTypeOK
<1> QED
  BY <1>1, <1>2, <1>3

LEMMA TypesMetadata ==
  ASSUME HistoryTypes, CleanupImageMetadata
  PROVE  HistoryTypes'
<1> USE DEF HistoryTypes
<1>1. KeepPolicies' = KeepPolicies /\ InputOK'
  BY InputSame DEF CleanupImageMetadata
<1>2. HistoryTypeOK'
  BY <1>1, RecordsLeft DEF HistoryTypeOK, CleanupImageMetadata, Scans
<1>3. PhaseOK'
  BY <1>1, RecordsLeft DEF PhaseOK, CleanupImageMetadata
<1> QED
  BY <1>1, <1>2, <1>3

LEMMA TypesAgain ==
  ASSUME HistoryTypes, Again
  PROVE  HistoryTypes'
<1> USE DEF HistoryTypes
<1>1. KeepPolicies' = KeepPolicies /\ InputOK' /\ Len(KeepPolicies) \in Nat
  BY InputSame, PoliciesOK DEF Again
<1>2. DefaultImages \in Limits
  BY DEF DefaultImages, Limits, NoIn
<1>3. HistoryTypeOK'
  BY <1>1, <1>2 DEF HistoryTypeOK, Again, Scans, PhaseOK
<1>4. PhaseOK'
  BY <1>1 DEF PhaseOK, Again
<1> QED
  BY <1>1, <1>3, <1>4

LEMMA TypesUnchanged ==
  ASSUME HistoryTypes, UNCHANGED historyVars
  PROVE  HistoryTypes'
<1> USE DEF HistoryTypes
<1>1. KeepPolicies' = KeepPolicies /\ InputOK'
  BY InputSame DEF historyVars
<1>2. HistoryTypeOK'
  BY <1>1 DEF HistoryTypeOK, historyVars, Scans
<1>3. PhaseOK'
  BY <1>1 DEF PhaseOK, historyVars
<1> QED
  BY <1>1, <1>2, <1>3

LEMMA TypesNext ==
  ASSUME HistoryTypes, [HistoryNext]_historyVars
  PROVE  HistoryTypes'
BY TypesApply, TypesStart, TypesReference, TypesCommit, TypesParents, TypesHistory, TypesEnd,
   TypesMetadata, TypesAgain, TypesUnchanged DEF HistoryNext, Finished

-----------------------------------------------------------------------------
(* Policies: which references are selected, and with which limit.          *)

\* The policies before k that select the reference.
Before(r, k) == {j \in PoliciesOf(r) : j < k}

\* The references are those that the policies applied so far select, each with
\* the limit of the last of them.
PolicyInv ==
  DistinctAges =>
    \A r \in Refs :
      /\ r \in selected <=> Before(r, next) # {}
      /\ \A j \in Before(r, next) :
           (\A i \in Before(r, next) : i <= j) => keep[r] = KeepPolicies[j].images

\* A policy selects exactly the references it is said to select.
LEMMA PolicySelects ==
  ASSUME InputOK, DistinctAges, NEW p \in Policies,
         NEW R \in ApplyReferencesLimit(p.refs, p.limit), NEW r \in Refs
  PROVE  r \in R <=> SelectedBy(r, p)
<1> DEFINE refs == p.refs
           limit == p.limit
           before == {q \in refs \ {r} : CreatedAt(q) >= CreatedAt(r)}
           byIn == limit.in = NoIn \/ CreatedAt(r) > limit.in
           byLast == limit.last < 0 \/ Cardinality(before) < limit.last
           age == [q \in refs |-> CreatedAt(q)]
<1>1. refs \in SUBSET Refs /\ IsFiniteSet(refs) /\ limit \in Limits
  BY HistoryAssumption, FS_Union, FS_Subset DEF Policies, Refs
<1>2. \A q \in Refs : CreatedAt(q) \in Nat
  BY HistoryAssumption DEF CreatedAt, InputOK, Dates
<1>3. age \in [refs -> Nat] /\ \A q, t \in refs : q # t => age[q] # age[t]
  BY <1>1, <1>2 DEF DistinctAges
<1>4. PICK L \in FilterReferencesByLast(refs, limit.last) :
        R = IF limit.op = "Or" THEN FilterReferencesByIn(refs, limit.in) \cup L
                               ELSE FilterReferencesByIn(refs, limit.in) \cap L
  BY DEF ApplyReferencesLimit
<1>5. r \in FilterReferencesByIn(refs, limit.in) <=> r \in refs /\ byIn
  BY DEF FilterReferencesByIn
<1>6. ASSUME r \in refs PROVE r \in L <=> byLast
  <2>1. before = {q \in refs : age[q] > age[r]}
    BY <1>1, <1>2, <1>3, <1>6
  <2>2. limit.last \in Int /\ Cardinality(refs) \in Nat
    BY <1>1, FS_CardinalityType DEF Limits
  <2>3. CASE limit.last < 0
    BY <1>6, <2>3 DEF FilterReferencesByLast
  <2>4. CASE limit.last >= 0 /\ Cardinality(refs) < limit.last
    <3>1. L = refs
      BY <2>4 DEF FilterReferencesByLast
    <3>2. Cardinality(before) <= Cardinality(refs) /\ Cardinality(before) \in Nat
      BY <1>1, FS_Subset, FS_CardinalityType
    <3> QED
      BY <1>6, <2>2, <2>4, <3>1, <3>2
  <2>5. CASE limit.last >= 0 /\ ~(Cardinality(refs) < limit.last)
    <3>1. /\ L \in SUBSET refs /\ Cardinality(L) = limit.last /\ limit.last \in Nat
          /\ \A q \in L, t \in refs \ L : CreatedAt(q) >= CreatedAt(t)
      BY <2>2, <2>5 DEF FilterReferencesByLast, kSubset
    <3>2. \A q \in L, t \in refs \ L : age[q] >= age[t]
      BY <3>1
    <3> HIDE DEF age, refs, limit, before
    <3>3. r \in L <=> Cardinality({q \in refs : age[q] > age[r]}) < limit.last
      BY <1>1, <1>3, <1>6, <2>2, <2>5, <3>1, <3>2, TopOf
    <3> QED
      BY <2>1, <2>2, <2>5, <3>3
  <2> QED
    BY <2>2, <2>3, <2>4, <2>5
<1>7. L \subseteq refs
  BY DEF FilterReferencesByLast, kSubset
<1> QED
  BY <1>4, <1>5, <1>6, <1>7 DEF SelectedBy

\* The operators that only read the repository and werf.yaml.
LEMMA SameAges ==
  ASSUME UNCHANGED input
  PROVE  /\ DistinctAges' = DistinctAges
         /\ \A r : PoliciesOf(r)' = PoliciesOf(r)
BY DEF DistinctAges, CreatedAt, PoliciesOf, SelectedBy, KeepPolicies, input

LEMMA PolicyStep ==
  ASSUME HistoryTypes, PolicyInv, ApplyPolicy
  PROVE  PolicyInv'
<1>1. /\ DistinctAges' = DistinctAges /\ KeepPolicies' = KeepPolicies
      /\ \A r : PoliciesOf(r)' = PoliciesOf(r)
  BY SameAges, InputSame DEF ApplyPolicy
<1> SUFFICES ASSUME DistinctAges, NEW r \in Refs
             PROVE  /\ r \in selected' <=> Before(r, next)' # {}
                    /\ \A j \in Before(r, next)' :
                         (\A i \in Before(r, next)' : i <= j) => keep'[r] = KeepPolicies[j].images
  BY <1>1 DEF PolicyInv
<1>2. InputOK /\ next \in 1..Len(KeepPolicies) /\ KeepPolicies[next] \in Policies
      /\ DOMAIN KeepPolicies = 1..Len(KeepPolicies) /\ Len(KeepPolicies) \in Nat
  BY PoliciesOK DEF ApplyPolicy, HistoryTypes, HistoryTypeOK
<1>3. PICK R \in ApplyReferencesLimit(KeepPolicies[next].refs, KeepPolicies[next].limit) :
        /\ selected' = selected \cup R
        /\ keep' = [q \in Refs |-> IF q \in R THEN KeepPolicies[next].images ELSE keep[q]]
  BY DEF ApplyPolicy
<1>4. r \in R <=> SelectedBy(r, KeepPolicies[next])
  BY <1>2, <1>3, PolicySelects
<1>5. PoliciesOf(r) \subseteq 1..Len(KeepPolicies) /\ (next \in PoliciesOf(r) <=> r \in R)
  BY <1>2, <1>4 DEF PoliciesOf
<1>6. Before(r, next)' = Before(r, next) \cup (IF r \in R THEN {next} ELSE {})
  <2>1. Before(r, next)' = {j \in PoliciesOf(r) : j < next + 1}
    BY <1>1 DEF Before, ApplyPolicy
  <2> QED
    BY <1>2, <1>5, <2>1 DEF Before
<1>7. \A j \in Before(r, next) : j < next /\ j \in Nat
  BY <1>2, <1>5 DEF Before
<1>8. /\ r \in selected <=> Before(r, next) # {}
      /\ \A j \in Before(r, next) :
           (\A i \in Before(r, next) : i <= j) => keep[r] = KeepPolicies[j].images
  BY DEF PolicyInv
<1>9. CASE r \in R
  <2>1. \A j \in Before(r, next)' : (\A i \in Before(r, next)' : i <= j) => j = next
    <3>1. next \in Before(r, next)' /\ \A j \in Before(r, next)' : j \in Before(r, next) \/ j = next
      BY <1>6, <1>9
    <3> QED
      BY <1>2, <1>7, <3>1
  <2> QED
    BY <1>3, <1>6, <1>9, <2>1
<1>10. CASE r \notin R
  BY <1>3, <1>6, <1>8, <1>10
<1> QED
  BY <1>9, <1>10

LEMMA PolicyNext ==
  ASSUME HistoryTypes, PolicyInv, [HistoryNext]_historyVars
  PROVE  PolicyInv'
<1>1. CASE ApplyPolicy
  BY <1>1, PolicyStep
<1>2. CASE Again
  <2>1. \A r : PoliciesOf(r)' \subseteq Nat \ {0}
    <3>1. \A r : PoliciesOf(r)' = PoliciesOf(r)
      BY <1>2, SameAges DEF Again
    <3> QED
      BY <3>1, PoliciesOK DEF PoliciesOf, HistoryTypes
  <2>2. \A r : Before(r, next)' = {}
    BY <1>2, <2>1 DEF Before, Again
  <2> QED
    BY <1>2, <2>2 DEF PolicyInv, Again
<1>3. CASE UNCHANGED <<input, next, selected, keep>>
  <2>1. /\ DistinctAges' = DistinctAges /\ KeepPolicies' = KeepPolicies
        /\ \A r : PoliciesOf(r)' = PoliciesOf(r)
    BY <1>3, SameAges, InputSame
  <2>2. \A r : Before(r, next)' = Before(r, next)
    BY <1>3, <2>1 DEF Before
  <2> QED
    BY <1>3, <2>1, <2>2 DEF PolicyInv
<1> QED
  BY <1>1, <1>2, <1>3 DEF HistoryNext, Finished, StartScan, ScanReference, ScanCommit, ScanParents,
     ScanReferenceHistory, EndScan, CleanupImageMetadata, historyVars

LEMMA PolicyInit ==
  ASSUME HistoryInit, HistoryTypes
  PROVE  PolicyInv
<1>1. \A r : PoliciesOf(r) \subseteq Nat \ {0}
  BY PoliciesOK DEF PoliciesOf, HistoryTypes
<1>2. \A r : Before(r, next) = {}
  BY <1>1 DEF Before, HistoryInit
<1> QED
  BY <1>2 DEF PolicyInv, HistoryInit

\* Once all policies are applied, selected references have the limit they are
\* promised.
LEMMA Selected ==
  ASSUME HistoryTypes, PolicyInv, phase # "policies" \/ next > Len(KeepPolicies),
         DistinctAges, NEW r \in Refs
  PROVE  /\ r \in selected <=> PoliciesOf(r) # {}
         /\ r \in selected => keep[r] = ImagesLimit(r)
<1> DEFINE P == PoliciesOf(r)
<1>1. next = Len(KeepPolicies) + 1 /\ Len(KeepPolicies) \in Nat /\ P \subseteq 1..Len(KeepPolicies)
  BY PoliciesOK DEF HistoryTypes, PhaseOK, HistoryTypeOK, PoliciesOf
<1>2. Before(r, next) = P
  BY <1>1 DEF Before
<1>3. ASSUME P # {} PROVE \E k \in P : \A j \in P : j <= k
  <2>1. IsFiniteSet(1..Len(KeepPolicies))
    BY <1>1, FS_Interval
  <2>2. IsFiniteSet(P) /\ P \in SUBSET Nat
    BY <1>1, <2>1, FS_Subset
  <2> QED
    BY <1>3, <2>2, GreatestNatural
<1>4. r \in selected <=> P # {}
  BY <1>2 DEF PolicyInv
<1> DEFINE k == CHOOSE n \in P : \A j \in P : j <= n
<1>5. P # {} => k \in P /\ \A j \in P : j <= k
  BY <1>3
<1>6. ImagesLimit(r) = KeepPolicies[k].images
  BY DEF ImagesLimit
<1> HIDE DEF k
<1>7. P # {} => keep[r] = KeepPolicies[k].images
  BY <1>2, <1>5 DEF PolicyInv
<1> QED
  BY <1>4, <1>6, <1>7

-----------------------------------------------------------------------------
(* The scan of a reference.                                                *)

\* A commit that some stage the scan of r seeks is recorded on.
Seen(r, c) == \E s \in DOMAIN Expected(keep[r]) : c \in Expected(keep[r])[s]
Frontier(x) == Range(x.level) \cup Range(x.parents)

\* Nothing of the history is missed: what was not scanned is still to be visited.
Covered(x) ==
  /\ head[x.ref] \in x.scanned \cup Frontier(x)
  /\ \A c \in x.scanned : Range(parents[c]) \subseteq x.scanned \cup Frontier(x)

AllFound(x) == ReachedStages(x.found, Expected(keep[x.ref])) = DOMAIN Expected(keep[x.ref])

\* In a line the scan goes from the youngest commit to the oldest.
InLine(x) ==
  /\ Len(x.level) + Len(x.parents) <= 1
  /\ Covered(x) \/ (x.level = <<>> /\ x.parents = <<>>)
  /\ \A c \in x.scanned \cup Range(x.found), d \in Ancestors(x.ref) \ (x.scanned \cup Range(x.found)) :
       when[d] < when[c]

ScanOK(x) ==
  /\ DOMAIN Expected(keep[x.ref]) # {}
  /\ Range(x.found) \cup x.scanned \cup Frontier(x) \subseteq Ancestors(x.ref)
  /\ \A c \in x.scanned : Seen(x.ref, c) => c \in Range(x.found)
  /\ x.ref \in Tags =>
       /\ x.parents = <<>> /\ x.scanned = {}
       /\ stop = {} => head[x.ref] \in Range(x.level) \/ (Seen(x.ref, head[x.ref]) => head[x.ref] \in Range(x.found))
  /\ (x.ref \notin Tags /\ stop = {}) => (Covered(x) \/ AllFound(x)) /\ (Line => InLine(x))

ScanInv == Scanning => ScanOK(scan)

LEMMA ScanSame ==
  ASSUME UNCHANGED <<input, metadata, keep, stop>>
  PROVE  ScanOK(scan)' <=> ScanOK(scan')
<1>1. \A r : Ancestors(r)' = Ancestors(r)
  BY DEF Ancestors, History, input
<1>2. \A q : Expected(q)' = Expected(q)
  BY DEF Expected, StageIDCommitList, input
<1>3. Line' = Line
  BY DEF Line, input
<1> QED
  BY <1>1, <1>2, <1>3 DEF ScanOK, Seen, Frontier, Covered, AllFound, InLine, input

LEMMA AncestorsOK ==
  ASSUME InputOK, NEW r \in Refs
  PROVE  /\ Ancestors(r) \subseteq Commits /\ head[r] \in Ancestors(r)
         /\ r \in Tags => Ancestors(r) = {head[r]}
         /\ r \notin Tags =>
              /\ \A c \in Ancestors(r) : Range(parents[c]) \subseteq Ancestors(r)
              /\ \A C \in SUBSET Commits :
                   (head[r] \in C /\ \A c \in C : Range(parents[c]) \subseteq C) => Ancestors(r) \subseteq C
<1>1. head[r] \in Commits /\ \A c \in Commits : Range(parents[c]) \subseteq Commits
  BY DEF InputOK, Range
<1>2. CASE r \in Tags
  BY <1>1, <1>2 DEF Ancestors
<1>3. CASE r \notin Tags
  <2>1. Ancestors(r) = {c \in Commits : \A C \in History(r) : c \in C}
    BY <1>3 DEF Ancestors
  <2>2. head[r] \in Ancestors(r)
    BY <1>1, <2>1 DEF History
  <2>3. ASSUME NEW c \in Ancestors(r), NEW p \in Range(parents[c]) PROVE p \in Ancestors(r)
    <3>1. \A C \in History(r) : Range(parents[c]) \subseteq C
      BY <2>1, <2>3 DEF History
    <3> QED
      BY <1>1, <2>1, <2>3, <3>1
  <2>4. \A C \in SUBSET Commits :
          (head[r] \in C /\ \A c \in C : Range(parents[c]) \subseteq C) => Ancestors(r) \subseteq C
    BY <2>1 DEF History
  <2> QED
    BY <1>3, <2>1, <2>2, <2>3, <2>4
<1> QED
  BY <1>2, <1>3

\* Sequences of commits as sets.
LEMMA RangeOf ==
  ASSUME NEW S
  PROVE  /\ Range(<<>>) = {}
         /\ \A e \in S : Range(<<e>>) = {e}
         /\ \A q \in Seq(S) : Range(q) \subseteq S /\ (q # <<>> => Range(q) = {Head(q)} \cup Range(Tail(q)))
         /\ \A q \in Seq(S), e \in S : Range(Append(q, e)) = Range(q) \cup {e}
         /\ \A q, t \in Seq(S) : Range(q \o t) = Range(q) \cup Range(t)
<1>1. Range(<<>>) = {} /\ \A e \in S : Range(<<e>>) = {e}
  BY DEF Range
<1>2. ASSUME NEW q \in Seq(S) PROVE Range(q) \subseteq S
  BY DEF Range
<1>3. ASSUME NEW q \in Seq(S), q # <<>> PROVE Range(q) = {Head(q)} \cup Range(Tail(q))
  <2>1. Len(q) \in Nat /\ Len(q) >= 1 /\ Head(q) = q[1] /\ DOMAIN q = 1..Len(q)
    BY <1>3
  <2>2. DOMAIN Tail(q) = 1..(Len(q) - 1) /\ \A i \in 1..(Len(q) - 1) : Tail(q)[i] = q[i + 1]
    BY <1>3, <2>1
  <2>3. ASSUME NEW e \in Range(q) PROVE e \in {Head(q)} \cup Range(Tail(q))
    <3>1. PICK i \in 1..Len(q) : e = q[i]
      BY <2>1, <2>3 DEF Range
    <3>2. CASE i = 1
      BY <2>1, <3>1, <3>2
    <3>3. CASE i # 1
      <4>1. i - 1 \in 1..(Len(q) - 1) /\ Tail(q)[i - 1] = q[i]
        BY <2>1, <2>2, <3>1, <3>3
      <4> QED
        BY <2>2, <3>1, <4>1 DEF Range
    <3> QED
      BY <3>2, <3>3
  <2>4. ASSUME NEW e \in Range(Tail(q)) PROVE e \in Range(q)
    <3>1. PICK i \in 1..(Len(q) - 1) : e = Tail(q)[i]
      BY <2>2, <2>4 DEF Range
    <3> QED
      BY <2>1, <2>2, <3>1 DEF Range
  <2>5. Head(q) \in Range(q)
    BY <2>1 DEF Range
  <2> QED
    BY <2>3, <2>4, <2>5
<1>4. ASSUME NEW q \in Seq(S), NEW e \in S PROVE Range(Append(q, e)) = Range(q) \cup {e}
  <2>1. /\ Len(q) \in Nat /\ DOMAIN q = 1..Len(q) /\ DOMAIN Append(q, e) = 1..(Len(q) + 1)
        /\ \A i \in 1..Len(q) : Append(q, e)[i] = q[i]
        /\ Append(q, e)[Len(q) + 1] = e
    OBVIOUS
  <2> QED
    BY <2>1 DEF Range
<1>5. ASSUME NEW q \in Seq(S), NEW t \in Seq(S) PROVE Range(q \o t) = Range(q) \cup Range(t)
  <2>1. /\ Len(q) \in Nat /\ DOMAIN q = 1..Len(q) /\ Len(t) \in Nat /\ DOMAIN t = 1..Len(t)
        /\ DOMAIN (q \o t) = 1..(Len(q) + Len(t))
        /\ \A i \in 1..Len(q) : (q \o t)[i] = q[i]
        /\ \A i \in 1..Len(t) : (q \o t)[Len(q) + i] = t[i]
    OBVIOUS
  <2>2. \A i \in 1..(Len(q) + Len(t)) : i \in 1..Len(q) \/ (i - Len(q) \in 1..Len(t) /\ i = Len(q) + (i - Len(q)))
    BY <2>1
  <2>3. \A e \in Range(q \o t) : e \in Range(q) \/ e \in Range(t)
    BY <2>1, <2>2 DEF Range
  <2>4. \A e \in Range(q) : e \in Range(q \o t)
    BY <2>1 DEF Range
  <2>5. \A e \in Range(t) : e \in Range(q \o t)
    <3>1. \A i \in 1..Len(t) : Len(q) + i \in 1..(Len(q) + Len(t))
      BY <2>1
    <3> QED
      BY <2>1, <3>1 DEF Range
  <2> QED
    BY <2>3, <2>4, <2>5
<1> QED
  BY <1>1, <1>2, <1>3, <1>4, <1>5

\* In a line all that is neither scanned nor next is older than the next commit.
LEMMA LineOlder ==
  ASSUME InputOK, Line, NEW x \in Scans, x.ref \notin Tags, Covered(x),
         x.scanned \subseteq Ancestors(x.ref), NEW c \in Ancestors(x.ref), Frontier(x) \subseteq {c},
         NEW d \in Ancestors(x.ref)
  PROVE  d \in x.scanned \/ d = c \/ when[d] < when[c]
<1> DEFINE r == x.ref
           C == x.scanned \cup {c} \cup {e \in Ancestors(r) : when[e] < when[c]}
<1>1. r \in Refs
  BY DEF Scans
<1>2. Ancestors(r) \subseteq Commits /\ \A e \in Ancestors(r) : Range(parents[e]) \subseteq Ancestors(r)
  BY <1>1, AncestorsOK
<1>3. C \in SUBSET Commits /\ head[r] \in C
  BY <1>2 DEF Covered
<1>4. ASSUME NEW e \in C, NEW p \in Range(parents[e]) PROVE p \in C
  <2>1. e \in Ancestors(r) /\ p \in Ancestors(r) /\ when[p] < when[e]
    BY <1>2, <1>3, <1>4 DEF Line
  <2>2. CASE e \in x.scanned
    BY <1>4, <2>2 DEF Covered
  <2>3. CASE e \notin x.scanned
    <3>1. e = c \/ when[e] < when[c]
      BY <1>4, <2>3
    <3>2. when[e] \in Nat /\ when[p] \in Nat /\ when[c] \in Nat
      BY <1>2, <2>1 DEF InputOK, Dates
    <3> QED
      BY <2>1, <3>1, <3>2
  <2> QED
    BY <2>2, <2>3
<1>5. Ancestors(r) \subseteq C
  <2> HIDE DEF C
  <2> QED
    BY <1>1, <1>3, <1>4, AncestorsOK
<1> QED
  BY <1>5

LEMMA ScanBegins ==
  ASSUME HistoryTypes, NEW r \in Refs, DOMAIN Expected(keep[r]) # {},
         NEW x, x.ref = r, x.found = <<>>, x.scanned = {}, x.level = <<head[r]>>, x.parents = <<>>
  PROVE  ScanOK(x)
<1>1. /\ Range(x.found) = {} /\ Frontier(x) = {head[r]} /\ Range(x.level) = {head[r]}
      /\ Len(x.level) = 1 /\ Len(x.parents) = 0
  <2>1. head[r] \in Commits
    BY DEF HistoryTypes, InputOK
  <2>2. Range(<<head[r]>>) = {head[r]} /\ Range(<<>>) = {}
    BY <2>1, RangeOf
  <2>3. Len(<<head[r]>>) = 1 /\ Len(<<>>) = 0
    OBVIOUS
  <2> QED
    BY <2>2, <2>3 DEF Frontier
<1>2. head[r] \in Ancestors(r)
  BY AncestorsOK DEF HistoryTypes
<1>3. Covered(x) /\ InLine(x)
  BY <1>1 DEF Covered, InLine
<1> QED
  BY <1>1, <1>2, <1>3 DEF ScanOK

\* What is found on a commit.
LEMMA Handled ==
  ASSUME HistoryTypes, Scanning, NEW c \in Commits
  PROVE  /\ HandleCommit(c) \in Seq(Commits)
         /\ Range(HandleCommit(c)) = Range(scan.found) \cup (IF Seen(scan.ref, c) THEN {c} ELSE {})
<1>1. scan.found \in Seq(Commits)
  BY ScanTypes DEF Scans
<1> QED
  BY <1>1, RangeOf DEF HandleCommit, Seen, Sought

LEMMA OneLeft ==
  ASSUME NEW S, NEW q \in Seq(S), q # <<>>, NEW t \in Seq(S), Len(q) + Len(t) <= 1
  PROVE  Len(q) = 1 /\ Tail(q) = <<>> /\ t = <<>>
<1>1. Len(q) \in Nat /\ Len(t) \in Nat /\ Len(q) # 0
  OBVIOUS
<1>2. Len(q) = 1 /\ Len(t) = 0
  <2>1. \A m, n \in Nat : (m # 0 /\ m + n <= 1) => m = 1 /\ n = 0
    OBVIOUS
  <2> QED
    BY <1>1, <2>1
<1>3. Len(Tail(q)) = 0 /\ Tail(q) \in Seq(S)
  BY <1>2
<1>4. \A u \in Seq(S) : Len(u) = 0 => u = <<>>
  OBVIOUS
<1> QED
  BY <1>2, <1>3, <1>4

LEMMA CommitOK ==
  ASSUME HistoryTypes, ScanInv, ScanCommit
  PROVE  ScanOK(scan')
<1>0. PICK x, y, r, c, f : x = scan /\ y = scan' /\ r = x.ref /\ c = Head(x.level) /\ f = HandleCommit(c)
  OBVIOUS
<1>1. /\ Scanning /\ InputOK /\ x \in Scans /\ r \in Refs /\ ScanOK(x)
      /\ x.level \in Seq(Commits) /\ x.level # <<>> /\ x.parents \in Seq(Commits)
      /\ x.found \in Seq(Commits) /\ x.scanned \subseteq Commits
  BY <1>0, ScanTypes DEF ScanCommit, HistoryTypes, ScanInv, Scans
<1>2. /\ c \in Commits /\ Tail(x.level) \in Seq(Commits) /\ Len(Tail(x.level)) = Len(x.level) - 1
      /\ Len(x.level) \in Nat /\ Len(x.level) >= 1 /\ Len(x.parents) \in Nat
      /\ parents[c] \in Seq(Commits)
  BY <1>0, <1>1 DEF InputOK
<1>3. Range(x.level) = {c} \cup Range(Tail(x.level)) /\ Range(<<>>) = {}
  BY <1>0, <1>1, RangeOf
<1>4. Range(x.parents \o parents[c]) = Range(x.parents) \cup Range(parents[c])
  BY <1>1, <1>2, RangeOf
<1>5. f \in Seq(Commits) /\ Range(f) = Range(x.found) \cup (IF Seen(r, c) THEN {c} ELSE {})
  BY <1>0, <1>1, <1>2, Handled
<1>6. c \in Ancestors(r)
  BY <1>0, <1>1, <1>3 DEF ScanOK, Frontier
<1>7. /\ Ancestors(r) \subseteq Commits /\ (r \in Tags => Ancestors(r) = {head[r]})
      /\ r \notin Tags => Range(parents[c]) \subseteq Ancestors(r)
  BY <1>1, <1>6, AncestorsOK
<1>8. \/ c \in x.scanned \cup stop /\ y = [x EXCEPT !.level = Tail(x.level)]
      \/ c \notin x.scanned \cup stop /\ r \in Tags /\ y = [x EXCEPT !.level = Tail(x.level), !.found = f]
      \/ /\ c \notin x.scanned \cup stop /\ r \notin Tags
         /\ ReachedStages(f, Expected(keep[r])) = DOMAIN Expected(keep[r])
         /\ y = [x EXCEPT !.level = <<>>, !.found = f]
      \/ /\ c \notin x.scanned \cup stop /\ r \notin Tags
         /\ ReachedStages(f, Expected(keep[r])) # DOMAIN Expected(keep[r])
         /\ y = [x EXCEPT !.level = Tail(x.level), !.found = f, !.scanned = @ \cup {c},
                          !.parents = @ \o parents[c]]
  BY <1>0 DEF ScanCommit, Sought
<1>a. r = x.ref
  BY <1>0
<1> USE <1>a
<1>9. (Line /\ r \notin Tags /\ stop = {}) =>
        /\ Covered(x) /\ Len(x.level) = 1 /\ x.parents = <<>> /\ Tail(x.level) = <<>> /\ Frontier(x) = {c}
        /\ \A d \in Ancestors(r) : d \in x.scanned \/ d = c \/ when[d] < when[c]
  <2> SUFFICES ASSUME Line, r \notin Tags, stop = {}
               PROVE  /\ Covered(x) /\ Len(x.level) = 1 /\ x.parents = <<>>
                      /\ Tail(x.level) = <<>> /\ Frontier(x) = {c}
                      /\ \A d \in Ancestors(r) : d \in x.scanned \/ d = c \/ when[d] < when[c]
    OBVIOUS
  <2>1. InLine(x)
    BY <1>1 DEF ScanOK
  <2>2. Covered(x) /\ Len(x.level) + Len(x.parents) <= 1
    BY <1>1, <2>1 DEF InLine
  <2>3. Len(x.level) = 1 /\ x.parents = <<>> /\ Tail(x.level) = <<>>
    BY <1>1, <2>2, OneLeft
  <2>4. Frontier(x) = {c}
    BY <1>3, <2>3 DEF Frontier
  <2>5. \A d \in Ancestors(r) : d \in x.scanned \/ d = c \/ when[d] < when[c]
    BY <1>1, <1>6, <2>2, <2>4, LineOlder DEF ScanOK
  <2> QED
    BY <2>2, <2>3, <2>4, <2>5
<1>10. CASE c \in x.scanned \cup stop /\ y = [x EXCEPT !.level = Tail(x.level)]
  <2>1. /\ y.ref = r /\ y.found = x.found /\ y.scanned = x.scanned /\ y.parents = x.parents
        /\ y.level = Tail(x.level)
    BY <1>1, <1>10 DEF Scans
  <2>2. Frontier(x) = Frontier(y) \cup {c} /\ (stop = {} => c \in x.scanned)
    BY <1>3, <1>10, <2>1 DEF Frontier
  <2>3. stop = {} => (Covered(x) => Covered(y))
    BY <2>1, <2>2 DEF Covered
  <2>4. AllFound(x) => AllFound(y)
    BY <2>1 DEF AllFound
  <2>5. (Line /\ r \notin Tags /\ stop = {}) => InLine(y)
    <3>1. (Line /\ r \notin Tags /\ stop = {}) => InLine(x)
      BY <1>0, <1>1 DEF ScanOK
    <3>2. (Line /\ r \notin Tags /\ stop = {}) => Len(y.level) + Len(y.parents) <= 1
      <4>1. Len(<<>>) = 0
        OBVIOUS
      <4>2. 0 + 0 <= 1
        OBVIOUS
      <4> QED
        BY <1>9, <2>1, <4>1, <4>2
    <3> QED
      BY <1>9, <2>1, <2>3, <3>1, <3>2 DEF InLine
  <2>6. r \in Tags => stop # {}
    BY <1>0, <1>1, <2>2 DEF ScanOK
  <2> QED
    BY <1>0, <1>1, <2>1, <2>2, <2>3, <2>4, <2>5, <2>6 DEF ScanOK
<1>11. CASE c \notin x.scanned \cup stop /\ r \in Tags /\ y = [x EXCEPT !.level = Tail(x.level), !.found = f]
  <2>1. /\ y.ref = r /\ y.found = f /\ y.scanned = x.scanned /\ y.parents = x.parents
        /\ y.level = Tail(x.level)
    BY <1>1, <1>5, <1>11 DEF Scans
  <2>2. Frontier(y) \subseteq Frontier(x)
    BY <1>3, <2>1 DEF Frontier
  <2>3. c = head[r] /\ (Seen(r, head[r]) => head[r] \in Range(f))
    BY <1>5, <1>6, <1>7, <1>11
  <2> QED
    BY <1>0, <1>1, <1>5, <1>6, <1>11, <2>1, <2>2, <2>3 DEF ScanOK
<1>12. CASE /\ c \notin x.scanned \cup stop /\ r \notin Tags
            /\ ReachedStages(f, Expected(keep[r])) = DOMAIN Expected(keep[r])
            /\ y = [x EXCEPT !.level = <<>>, !.found = f]
  <2>1. /\ y.ref = r /\ y.found = f /\ y.scanned = x.scanned /\ y.parents = x.parents
        /\ y.level = <<>>
    BY <1>1, <1>5, <1>12 DEF Scans
  <2>2. Frontier(y) \subseteq Frontier(x)
    BY <1>3, <2>1 DEF Frontier
  <2>3. AllFound(y)
    BY <1>12, <2>1 DEF AllFound
  <2>4. ASSUME Line, stop = {} PROVE InLine(y)
    <3>1. InLine(x) /\ x.parents = <<>> /\ \A d \in Ancestors(r) : d \in x.scanned \/ d = c \/ when[d] < when[c]
      BY <1>0, <1>1, <1>9, <1>12, <2>4 DEF ScanOK
    <3>2. Len(y.level) + Len(y.parents) <= 1 /\ y.level = <<>> /\ y.parents = <<>>
      BY <2>1, <3>1
    <3>3. \A e \in y.scanned \cup Range(y.found), d \in Ancestors(r) \ (y.scanned \cup Range(y.found)) :
            when[d] < when[e]
      BY <1>5, <2>1, <3>1 DEF InLine
    <3> QED
      BY <2>1, <3>2, <3>3 DEF InLine
  <2> QED
    BY <1>0, <1>1, <1>5, <1>6, <1>12, <2>1, <2>2, <2>3, <2>4 DEF ScanOK
<1>13. CASE /\ c \notin x.scanned \cup stop /\ r \notin Tags
            /\ ReachedStages(f, Expected(keep[r])) # DOMAIN Expected(keep[r])
            /\ y = [x EXCEPT !.level = Tail(x.level), !.found = f, !.scanned = @ \cup {c},
                             !.parents = @ \o parents[c]]
  <2>1. /\ y.ref = r /\ y.found = f /\ y.scanned = x.scanned \cup {c}
        /\ y.parents = x.parents \o parents[c] /\ y.level = Tail(x.level)
    BY <1>1, <1>2, <1>5, <1>13 DEF Scans
  <2>2. Frontier(y) = Range(Tail(x.level)) \cup Range(x.parents) \cup Range(parents[c])
    BY <1>4, <2>1 DEF Frontier
  <2>3. Frontier(x) = {c} \cup Range(Tail(x.level)) \cup Range(x.parents)
    BY <1>3 DEF Frontier
  <2>4. ASSUME stop = {} PROVE Covered(y)
    <3>1. \A s \in ReachedStages(x.found, Expected(keep[r])) : s \in ReachedStages(f, Expected(keep[r]))
      BY <1>5 DEF ReachedStages
    <3>2. \A s \in ReachedStages(f, Expected(keep[r])) : s \in DOMAIN Expected(keep[r])
      BY DEF ReachedStages
    <3>3. ~AllFound(x)
      BY <1>13, <3>1, <3>2 DEF AllFound
    <3>4. Covered(x)
      BY <1>0, <1>1, <1>13, <2>4, <3>3 DEF ScanOK
    <3> QED
      BY <2>1, <2>2, <2>3, <3>4 DEF Covered
  <2>5. ASSUME Line, stop = {} PROVE InLine(y)
    <3>1. /\ InLine(x) /\ x.parents = <<>> /\ Tail(x.level) = <<>>
          /\ \A d \in Ancestors(r) : d \in x.scanned \/ d = c \/ when[d] < when[c]
      BY <1>0, <1>1, <1>9, <1>13, <2>5 DEF ScanOK
    <3>2. Len(parents[c]) <= 1
      BY <1>2, <2>5 DEF Line
    <3>3. Len(y.level) + Len(y.parents) <= 1
      <4>1. Len(<<>>) = 0 /\ Len(parents[c]) \in Nat /\ <<>> \o parents[c] = parents[c]
        BY <1>2
      <4>2. Len(y.level) = 0 /\ Len(y.parents) = Len(parents[c])
        BY <2>1, <3>1, <4>1
      <4> QED
        BY <3>2, <4>1, <4>2
    <3>4. \A e \in y.scanned \cup Range(y.found), d \in Ancestors(r) \ (y.scanned \cup Range(y.found)) :
            when[d] < when[e]
      BY <1>5, <2>1, <3>1 DEF InLine
    <3> QED
      BY <2>1, <2>4, <2>5, <3>3, <3>4 DEF InLine
  <2>6. /\ Range(y.found) \cup y.scanned \cup Frontier(y) \subseteq Ancestors(r)
        /\ \A e \in y.scanned : Seen(r, e) => e \in Range(y.found)
    BY <1>0, <1>1, <1>5, <1>6, <1>7, <1>13, <2>1, <2>2, <2>3 DEF ScanOK
  <2> QED
    BY <1>0, <1>1, <1>13, <2>1, <2>4, <2>5, <2>6 DEF ScanOK
<1> QED
  BY <1>0, <1>8, <1>10, <1>11, <1>12, <1>13

LEMMA ParentsOK ==
  ASSUME HistoryTypes, ScanInv, ScanParents
  PROVE  ScanOK(scan')
<1>1. PICK x, y : x = scan /\ y = scan'
  OBVIOUS
<1>2. /\ x \in Scans /\ ScanOK(x) /\ x.level = <<>> /\ x.parents # <<>>
      /\ y = [x EXCEPT !.level = x.parents, !.parents = <<>>]
  BY <1>1, ScanTypes DEF ScanParents, ScanInv
<1>3. /\ y.ref = x.ref /\ y.found = x.found /\ y.scanned = x.scanned
      /\ y.level = x.parents /\ y.parents = <<>>
  BY <1>2 DEF Scans
<1>4. Frontier(y) = Frontier(x)
  BY <1>2, <1>3, RangeOf DEF Frontier
<1>5. Covered(x) => Covered(y)
  BY <1>3, <1>4 DEF Covered
<1>6. AllFound(x) => AllFound(y)
  BY <1>3 DEF AllFound
<1>7. InLine(x) => InLine(y)
  <2>1. Len(x.parents) \in Nat /\ Len(<<>>) = 0
    BY <1>2 DEF Scans
  <2>2. Len(y.level) + Len(y.parents) = Len(x.level) + Len(x.parents)
    BY <1>2, <1>3, <2>1
  <2> QED
    BY <1>2, <1>3, <1>5, <2>2 DEF InLine
<1> QED
  BY <1>1, <1>2, <1>3, <1>4, <1>5, <1>6, <1>7 DEF ScanOK

LEMMA ScanNext ==
  ASSUME HistoryTypes, ScanInv, [HistoryNext]_historyVars
  PROVE  ScanInv'
<1>1. CASE ScanCommit
  <2>1. ScanOK(scan)'
    BY <1>1, CommitOK, ScanSame DEF ScanCommit
  <2> QED
    BY <2>1 DEF ScanInv
<1>2. CASE ScanParents
  <2>1. ScanOK(scan)'
    BY <1>2, ParentsOK, ScanSame DEF ScanParents
  <2> QED
    BY <2>1 DEF ScanInv
<1>3. ASSUME NEW r \in Refs, ScanReference(r) PROVE ScanInv'
  <2>1. CASE DOMAIN Expected(keep[r]) = {}
    BY <1>3, <2>1 DEF ScanReference, ScanInv, Scanning
  <2>2. CASE DOMAIN Expected(keep[r]) # {}
    <3>1. scan' = [ref |-> r, found |-> <<>>, scanned |-> {}, level |-> <<head[r]>>, parents |-> <<>>]
      BY <1>3, <2>2 DEF ScanReference
    <3>2. /\ scan'.ref = r /\ scan'.found = <<>> /\ scan'.scanned = {}
          /\ scan'.level = <<head[r]>> /\ scan'.parents = <<>>
      BY <3>1
    <3>3. ScanOK(scan')
      BY <2>2, <3>2, ScanBegins
    <3>4. ScanOK(scan)'
      BY <1>3, <3>3, ScanSame DEF ScanReference
    <3> QED
      BY <3>4 DEF ScanInv
  <2> QED
    BY <2>1, <2>2
<1>4. CASE UNCHANGED historyVars
  <2>1. ScanOK(scan)' <=> ScanOK(scan)
    BY <1>4, ScanSame DEF historyVars
  <2> QED
    BY <1>4, <2>1 DEF ScanInv, historyVars, Scanning
<1>5. CASE ApplyPolicy \/ EndScan \/ CleanupImageMetadata \/ Again
  BY <1>5 DEF ScanInv, Scanning, ApplyPolicy, EndScan, CleanupImageMetadata, Again
<1>6. CASE StartScan \/ ScanReferenceHistory
  BY <1>6 DEF ScanInv, Scanning, StartScan, ScanReferenceHistory, HistoryTypes, PhaseOK
<1> QED
  BY <1>1, <1>2, <1>3, <1>4, <1>5, <1>6 DEF HistoryNext, Finished

LEMMA OneRecord ==
  ASSUME NEW C \in SUBSET (Commits \cup {Gone}), Cardinality(C) <= 1, NEW c \in C, NEW d \in C
  PROVE  c = d
<1>1. IsFiniteSet(C) /\ Cardinality(C) \in Nat
  BY HistoryAssumption, FS_AddElement, FS_Subset, FS_CardinalityType
<1>2. IsFiniteSet(C \ {c}) /\ Cardinality(C \ {c}) = Cardinality(C) - 1 /\ Cardinality(C \ {c}) \in Nat
  BY <1>1, FS_RemoveElement, FS_CardinalityType
<1>3. Cardinality(C \ {c}) = 0
  BY <1>1, <1>2
<1>4. C \ {c} = {}
  BY <1>2, <1>3, FS_EmptySet
<1> QED
  BY <1>4

\* A scan that no stop commit has cut short finds the stages that are recorded in
\* the history, each on its youngest commit.
LEMMA ScanFinds ==
  ASSUME HistoryTypes, ScanInv, Scanning, scan.level = <<>>, scan.parents = <<>>, stop = {},
         Unambiguous(metadata)
  PROVE  /\ keep[scan.ref].last # 0
         /\ FoundStages = {s \in Stages : Counted(s, scan.ref, keep[scan.ref], metadata) # {}}
         /\ \A s \in FoundStages :
              /\ FoundOn(s) \in Counted(s, scan.ref, keep[scan.ref], metadata)
              /\ \A c \in Counted(s, scan.ref, keep[scan.ref], metadata) : when[c] <= when[FoundOn(s)]
<1>1. PICK r, limit : r = scan.ref /\ limit = keep[r]
  OBVIOUS
<1>2. /\ scan \in Scans /\ r \in Refs /\ ScanOK(scan) /\ limit \in Limits /\ limit.last # 0
      /\ DOMAIN Sought # {} /\ Sought = Expected(limit)
  BY <1>1, ScanTypes DEF ScanInv, ScanOK, Scans, Sought
<1>3. /\ Ancestors(r) \subseteq Commits /\ (r \in Tags => Ancestors(r) = {head[r]})
      /\ head[r] \in Ancestors(r)
  BY <1>2, AncestorsOK DEF HistoryTypes
<1>4. \A s \in Stages : Counted(s, r, limit, metadata) = Young(s, limit) \cap Ancestors(r)
  BY <1>3, HistoryAssumption DEF Counted, Young
<1>5. \A s \in Stages : \A c \in Counted(s, r, limit, metadata) :
        s \in DOMAIN Sought /\ c \in Sought[s] /\ c \in Ancestors(r) /\ Seen(r, c)
  <2> SUFFICES ASSUME NEW s \in Stages, NEW c \in Counted(s, r, limit, metadata)
               PROVE  s \in DOMAIN Sought /\ c \in Sought[s] /\ c \in Ancestors(r) /\ Seen(r, c)
    OBVIOUS
  <2>1. c \in Young(s, limit) /\ c \in Ancestors(r)
    BY <1>4
  <2>2. s \in DOMAIN Sought /\ Sought[s] = Young(s, limit)
    BY <1>1, <1>2, <2>1, ScanTypes
  <2> QED
    BY <1>1, <1>2, <2>1, <2>2 DEF Seen
<1>6. \A s \in FoundStages :
        /\ s \in Stages
        /\ FoundOn(s) \in Counted(s, r, limit, metadata)
        /\ FoundOn(s) \in Range(scan.found)
        /\ \A c \in Range(scan.found) \cap Sought[s] : when[c] <= when[FoundOn(s)]
  <2>1. Range(scan.found) \subseteq Ancestors(r)
    BY <1>1, <1>2 DEF ScanOK
  <2> QED
    BY <1>1, <1>4, <2>1, ScanTypes
<1>7. Frontier(scan) = {}
  BY RangeOf DEF Frontier
<1>8. \/ \A c \in Ancestors(r) : Seen(r, c) => c \in Range(scan.found)
      \/ r \notin Tags /\ AllFound(scan)
  <2>1. CASE r \in Tags
    BY <1>1, <1>2, <1>3, <2>1, RangeOf DEF ScanOK
  <2>2. CASE r \notin Tags /\ Covered(scan)
    <3>1. head[r] \in scan.scanned /\ \A c \in scan.scanned : Range(parents[c]) \subseteq scan.scanned
      BY <1>1, <1>7, <2>2 DEF Covered
    <3>2. scan.scanned \in SUBSET Commits
      BY <1>2 DEF Scans
    <3>3. Ancestors(r) \subseteq scan.scanned
      BY <1>2, <2>2, <3>1, <3>2, AncestorsOK DEF HistoryTypes
    <3> QED
      BY <1>1, <1>2, <3>3 DEF ScanOK
  <2>3. CASE r \notin Tags /\ ~Covered(scan)
    BY <1>1, <1>2, <2>3 DEF ScanOK
  <2> QED
    BY <2>1, <2>2, <2>3
<1>9. \A s \in Stages : Counted(s, r, limit, metadata) # {} => s \in FoundStages
  <2> SUFFICES ASSUME NEW s \in Stages, NEW c \in Counted(s, r, limit, metadata)
               PROVE  s \in FoundStages
    OBVIOUS
  <2>1. s \in DOMAIN Sought /\ c \in Sought[s] /\ c \in Ancestors(r) /\ Seen(r, c)
    BY <1>5
  <2>2. CASE c \in Range(scan.found)
    BY <2>1, <2>2 DEF FoundStages, ReachedStages
  <2>3. CASE AllFound(scan)
    BY <1>1, <1>2, <2>1, <2>3 DEF AllFound, FoundStages
  <2> QED
    BY <1>8, <2>1, <2>2, <2>3
<1>10. ASSUME NEW s \in FoundStages, NEW c \in Counted(s, r, limit, metadata)
       PROVE  when[c] <= when[FoundOn(s)]
  <2>1. s \in DOMAIN Sought /\ c \in Sought[s] /\ c \in Ancestors(r) /\ Seen(r, c)
    BY <1>5, <1>6, <1>10
  <2>2. CASE c \in Range(scan.found)
    BY <1>6, <1>10, <2>1, <2>2
  <2>3. CASE c \notin Range(scan.found)
    <3>1. r \notin Tags /\ c \notin scan.scanned
      BY <1>1, <1>2, <1>8, <2>1, <2>3 DEF ScanOK
    <3>2. when[c] \in Nat /\ when[FoundOn(s)] \in Nat /\ FoundOn(s) \in Counted(s, r, limit, metadata)
      BY <1>3, <1>4, <1>6, <1>10, <2>1 DEF HistoryTypes, InputOK, Dates
    <3>3. CASE Line
      <4>1. InLine(scan)
        BY <1>1, <1>2, <3>1, <3>3 DEF ScanOK
      <4>2. when[c] < when[FoundOn(s)]
        BY <1>1, <1>6, <1>10, <2>1, <2>3, <3>1, <4>1 DEF InLine
      <4> QED
        BY <3>2, <4>2
    <3>4. CASE \A t \in Stages : Cardinality(metadata[t]) <= 1
      <4>1. c \in metadata[s] /\ FoundOn(s) \in metadata[s] /\ s \in Stages
        BY <1>6, <1>10, <3>2 DEF Counted
      <4>2. metadata[s] \in SUBSET (Commits \cup {Gone})
        BY <4>1 DEF HistoryTypes, HistoryTypeOK
      <4>3. c = FoundOn(s)
        BY <3>4, <4>1, <4>2, OneRecord
      <4> QED
        BY <3>2, <4>3
    <3> QED
      BY <3>3, <3>4 DEF Unambiguous
  <2> QED
    BY <2>2, <2>3
<1> QED
  BY <1>1, <1>2, <1>6, <1>9, <1>10

-----------------------------------------------------------------------------
(* What the policies promise is saved.                                     *)

LEMMA NewestIs ==
  ASSUME Dates, NEW C \in SUBSET Commits, NEW c \in C, \A d \in C : when[d] <= when[c]
  PROVE  NewestDate(C) = when[c]
<1> DEFINE P(d) == d \in {when[e] : e \in C} /\ \A e \in C : when[e] <= d
           n == CHOOSE d \in {when[e] : e \in C} : \A e \in C : when[e] <= d
<1>1. P(when[c])
  OBVIOUS
<1>2. P(n)
  BY <1>1
<1>3. NewestDate(C) = n
  BY DEF NewestDate
<1> HIDE DEF n
<1>4. when[c] <= n /\ n <= when[c] /\ n \in Nat /\ when[c] \in Nat
  BY <1>2 DEF Dates
<1> QED
  BY <1>3, <1>4

\* What is cut down to the limit, by "last" and "in".
LEMMA ExtraIs ==
  ASSUME NEW all, NEW limit \in Limits, NEW C \in HandleExtra(all, limit)
  PROVE  \E L \in SUBSET all :
           /\ Cardinality(L) = IF Cardinality(all) < limit.last THEN Cardinality(all) ELSE limit.last
           /\ \A c \in L, d \in all \ L : when[c] >= when[d]
           /\ limit.in = NoIn => C = L
           /\ limit.in # NoIn /\ limit.op = "And" => C = {c \in L : when[c] > limit.in}
           /\ limit.in # NoIn /\ limit.op = "Or" => C = L \cup {c \in all : when[c] > limit.in}
<1>1. PICK L \in SUBSET all :
        /\ Cardinality(L) = IF Cardinality(all) < limit.last THEN Cardinality(all) ELSE limit.last
        /\ \A c \in L, d \in all \ L : when[c] >= when[d]
        /\ C = CASE limit.in = NoIn -> L
                 [] limit.in # NoIn /\ limit.op = "And" -> L \cap {c \in all : when[c] > limit.in}
                 [] OTHER -> L \cup {c \in all : when[c] > limit.in}
  BY DEF HandleExtra
<1>2. limit.in = NoIn => C = L
  <2> SUFFICES ASSUME limit.in = NoIn PROVE C = L
    OBVIOUS
  <2> QED
    BY <1>1
<1>3. limit.in # NoIn /\ limit.op = "And" => C = L \cap {c \in all : when[c] > limit.in}
  BY <1>1
<1>4. ASSUME limit.in # NoIn, limit.op = "Or" PROVE C = L \cup {c \in all : when[c] > limit.in}
  <2>1. limit.op # "And"
    BY <1>4
  <2> QED
    BY <1>1, <1>4, <2>1
<1> QED
  BY <1>1, <1>2, <1>3, <1>4

LEMMA PromisedSaved ==
  ASSUME HistoryTypes, ScanInv, ScanReferenceHistory, stop = {}, Unambiguous(metadata),
         keep[scan.ref] = ImagesLimit(scan.ref), NEW s \in Promised(scan.ref, metadata)
  PROVE  s \in reached'
<1>1. PICK r, limit, A : r = scan.ref /\ limit = keep[r] /\ A = FoundStages
  OBVIOUS
<1>2. /\ Scanning /\ scan.level = <<>> /\ scan.parents = <<>> /\ limit \in Limits /\ Dates
  BY <1>1, ScanTypes DEF ScanReferenceHistory, Scanning, HistoryTypes, InputOK
<1>3. /\ limit.last # 0 /\ A = {t \in Stages : Counted(t, r, limit, metadata) # {}}
      /\ \A t \in A : /\ FoundOn(t) \in Counted(t, r, limit, metadata)
                      /\ \A c \in Counted(t, r, limit, metadata) : when[c] <= when[FoundOn(t)]
  BY <1>1, <1>2, ScanFinds
<1>4. \A t \in A : /\ NewestDate(Counted(t, r, limit, metadata)) = when[FoundOn(t)]
                   /\ FoundOn(t) \in Commits /\ when[FoundOn(t)] \in Nat
  <2> SUFFICES ASSUME NEW t \in A
               PROVE  /\ NewestDate(Counted(t, r, limit, metadata)) = when[FoundOn(t)]
                      /\ FoundOn(t) \in Commits /\ when[FoundOn(t)] \in Nat
    OBVIOUS
  <2>1. Ancestors(r) \subseteq Commits
    BY <1>1, <1>2, ScanTypes, AncestorsOK DEF HistoryTypes, Scans
  <2>2. Counted(t, r, limit, metadata) \in SUBSET Commits
    BY <2>1 DEF Counted
  <2> QED
    BY <1>2, <1>3, <2>2, NewestIs DEF Dates
<1>5. /\ s \in A
      /\ \/ limit.last < 0
         \/ Cardinality({t \in A \ {s} : when[FoundOn(t)] >= when[FoundOn(s)]}) < limit.last
         \/ limit.op = "Or" /\ limit.in # NoIn /\ when[FoundOn(s)] > limit.in
  <2> DEFINE newest(t) == NewestDate(Counted(t, r, limit, metadata))
  <2>1. /\ s \in A
        /\ \/ limit.last < 0
           \/ Cardinality({t \in A \ {s} : newest(t) >= newest(s)}) < limit.last
           \/ limit.op = "Or" /\ limit.in # NoIn /\ newest(s) > limit.in
    BY <1>1, <1>3 DEF Promised
  <2>2. \A t \in A : newest(t) = when[FoundOn(t)]
    BY <1>4
  <2> HIDE DEF newest
  <2>3. {t \in A \ {s} : newest(t) >= newest(s)} = {t \in A \ {s} : when[FoundOn(t)] >= when[FoundOn(s)]}
    BY <2>1, <2>2
  <2> QED
    BY <2>1, <2>2, <2>3
<1> DEFINE all == {FoundOn(t) : t \in A}
<1>6. PICK C : /\ IF limit.last > 0 /\ Cardinality(A) > limit.last
                  THEN C \in HandleExtra(all, limit) ELSE C = all
               /\ reached' = reached \cup {t \in A : FoundOn(t) \in C}
  BY <1>1, ScanSaves
<1>7. CASE ~(limit.last > 0 /\ Cardinality(A) > limit.last)
  BY <1>5, <1>6, <1>7
<1>8. CASE limit.last > 0 /\ Cardinality(A) > limit.last
  <2>1. PICK L \in SUBSET all :
           /\ Cardinality(L) = IF Cardinality(all) < limit.last THEN Cardinality(all) ELSE limit.last
           /\ \A c \in L, d \in all \ L : when[c] >= when[d]
           /\ limit.in = NoIn => C = L
           /\ limit.in # NoIn /\ limit.op = "And" => C = {c \in L : when[c] > limit.in}
           /\ limit.in # NoIn /\ limit.op = "Or" => C = L \cup {c \in all : when[c] > limit.in}
    <3>1. C \in HandleExtra(all, limit)
      BY <1>6, <1>8
    <3> HIDE DEF all
    <3> QED
      BY <1>2, <3>1, ExtraIs
  <2>2. CASE FoundOn(s) \in L
    <3>1. limit.op = "And" \/ limit.op = "Or"
      BY <1>2 DEF Limits
    <3>2. limit.in # NoIn /\ limit.op = "And" => when[FoundOn(s)] > limit.in
      BY <1>3, <1>5 DEF Counted
    <3>3. FoundOn(s) \in C
      BY <2>1, <2>2, <3>1, <3>2
    <3> QED
      BY <1>5, <1>6, <3>3
  <2>3. CASE FoundOn(s) \notin L
    <3> DEFINE f == [t \in A |-> FoundOn(t)]
    <3>1. f \in [A -> Commits] /\ all = {f[t] : t \in A} /\ f[s] \notin L
      BY <1>4, <1>5, <2>3
    <3>2. limit.last \in Nat
      BY <1>2, <1>8 DEF Limits
    <3>3. IsFiniteSet(A)
      BY <1>3, HistoryAssumption, FS_Subset
    <3>4. {t \in A \ {s} : when[f[t]] >= when[f[s]]} = {t \in A \ {s} : when[FoundOn(t)] >= when[FoundOn(s)]}
      BY <1>5
    <3> HIDE DEF f, all
    <3>5. Cardinality({t \in A \ {s} : when[f[t]] >= when[f[s]]}) >= limit.last
      BY <1>2, <1>5, <2>1, <3>1, <3>2, <3>3, CutOff
    <3>6. Cardinality({t \in A \ {s} : when[f[t]] >= when[f[s]]}) \in Nat
      BY <3>3, FS_Subset, FS_CardinalityType
    <3>7. limit.op = "Or" /\ limit.in # NoIn /\ when[FoundOn(s)] > limit.in
      BY <1>5, <1>8, <3>2, <3>4, <3>5, <3>6
    <3>8. FoundOn(s) \in C
      BY <1>5, <2>1, <3>7 DEF all
    <3> QED
      BY <1>5, <1>6, <3>8
  <2> QED
    BY <2>2, <2>3
<1> QED
  BY <1>7, <1>8

\* A stop commit is left only once every stage that has records is reached.
StopInv == stop # {} => \A s \in Stages : metadata[s] # {} => s \in reached

\* What the scanned references promise is reached.
KeptInv ==
  (phase \in {"scan", "metadata"} /\ DistinctAges /\ Unambiguous(metadata)) =>
    \A r \in selected \ todo : Promised(r, metadata) \subseteq reached

\* Every reached stage has a reference that asks for it.
AskedInv ==
  \A s \in reached : \E r \in selected :
    keep[r].last # 0 /\ Counted(s, r, keep[r], first.given) # {}

\* What is saved grows; when a stop commit is left, all stages are saved.
LEMMA ScanReaches ==
  ASSUME HistoryTypes, ScanReferenceHistory
  PROVE  /\ reached \subseteq reached' /\ reached' \subseteq reached \cup FoundStages
         /\ stop' = {} => stop = {}
         /\ stop' # {} /\ stop = {} => \A s \in Stages : metadata[s] # {} => s \in reached'
<1>1. Scanning /\ stop' = stop \cup StopCommits(scan.found, Sought, keep[scan.ref])
  BY DEF ScanReferenceHistory
<1>2. /\ scan.found \in Seq(Commits) /\ keep[scan.ref].last \in Int /\ FoundStages \subseteq Stages
  BY <1>1, ScanTypes DEF Scans, Limits
<1>3. Cardinality(FoundStages) \in Nat
  BY <1>2, HistoryAssumption, FS_Subset, FS_CardinalityType
<1>4. PICK C : /\ IF keep[scan.ref].last > 0 /\ Cardinality(FoundStages) > keep[scan.ref].last
                  THEN C \in HandleExtra({FoundOn(s) : s \in FoundStages}, keep[scan.ref])
                  ELSE C = {FoundOn(s) : s \in FoundStages}
               /\ reached' = reached \cup {s \in FoundStages : FoundOn(s) \in C}
  BY ScanSaves
<1>5. ASSUME stop' # {}, stop = {}, NEW s \in Stages, metadata[s] # {} PROVE s \in reached'
  <2>1. StopCommits(scan.found, Sought, keep[scan.ref]) # {}
    BY <1>1, <1>5
  <2>2. /\ keep[scan.ref].last < 0 \/ Cardinality(FoundStages) < keep[scan.ref].last
        /\ Sought = StageIDCommitList /\ FoundStages = DOMAIN Sought
    BY <1>2, <2>1, StopOK DEF FoundStages
  <2>3. s \in FoundStages
    BY <1>5, <2>2 DEF StageIDCommitList
  <2>4. C = {FoundOn(t) : t \in FoundStages}
    BY <1>2, <1>3, <1>4, <2>2
  <2> QED
    BY <1>4, <2>3, <2>4
<1> QED
  BY <1>1, <1>4, <1>5

LEMMA StopNext ==
  ASSUME HistoryTypes, StopInv, [HistoryNext]_historyVars
  PROVE  StopInv'
<1>1. CASE ScanReferenceHistory
  <2>1. UNCHANGED metadata
    BY <1>1 DEF ScanReferenceHistory
  <2> QED
    BY <1>1, <2>1, ScanReaches DEF StopInv
<1>2. CASE Again
  BY <1>2 DEF Again, StopInv
<1>3. CASE CleanupImageMetadata
  <2>1. UNCHANGED <<stop, reached>>
    BY <1>3 DEF CleanupImageMetadata
  <2> QED
    BY <1>3, <2>1, RecordsLeft DEF StopInv
<1>4. CASE UNCHANGED <<stop, metadata, reached>>
  BY <1>4 DEF StopInv
<1> QED
  BY <1>1, <1>2, <1>3, <1>4 DEF HistoryNext, Finished, ApplyPolicy, StartScan, ScanReference,
     ScanCommit, ScanParents, EndScan, historyVars

LEMMA SameCounted ==
  ASSUME UNCHANGED <<input, keep>>, first'.given = first.given
  PROVE  \A s, r : Counted(s, r, keep[r], first.given)' = Counted(s, r, keep[r], first.given)
<1>1. \A r : Ancestors(r)' = Ancestors(r)
  BY DEF Ancestors, History, input
<1> QED
  BY <1>1 DEF Counted, input

LEMMA AskedNext ==
  ASSUME HistoryTypes, ScanInv, AskedInv, [HistoryNext]_historyVars
  PROVE  AskedInv'
<1>1. CASE ApplyPolicy \/ Again
  BY <1>1 DEF ApplyPolicy, Again, HistoryTypes, PhaseOK, AskedInv
<1>2. CASE ScanReferenceHistory
  <2>1. UNCHANGED <<input, keep, selected>> /\ first'.given = first.given
    BY <1>2 DEF ScanReferenceHistory
  <2>2. \A s, r : Counted(s, r, keep[r], first.given)' = Counted(s, r, keep[r], first.given)
    BY <2>1, SameCounted
  <2>3. ASSUME NEW s \in FoundStages
        PROVE  keep[scan.ref].last # 0 /\ Counted(s, scan.ref, keep[scan.ref], first.given) # {}
    <3>1. Scanning /\ ScanOK(scan)
      BY <1>2 DEF ScanReferenceHistory, ScanInv
    <3>2. /\ s \in DOMAIN Sought /\ s \in Stages /\ keep[scan.ref].last # 0
          /\ FoundOn(s) \in Range(scan.found) /\ FoundOn(s) \in Young(s, keep[scan.ref])
      BY <2>3, <3>1, ScanTypes
    <3>3. FoundOn(s) \in Ancestors(scan.ref)
      BY <3>1, <3>2 DEF ScanOK
    <3>4. FoundOn(s) \in first.given[s]
      BY <3>2 DEF Young, HistoryTypes, PhaseOK
    <3>5. FoundOn(s) \in Counted(s, scan.ref, keep[scan.ref], first.given)
      BY <3>2, <3>3, <3>4 DEF Counted, Young
    <3> QED
      BY <3>2, <3>5
  <2>4. scan.ref \in selected
    BY <1>2, ScanTypes DEF ScanReferenceHistory
  <2>5. \A s \in reached' : s \in reached \/ s \in FoundStages
    BY <1>2, ScanReaches
  <2> QED
    BY <2>1, <2>2, <2>3, <2>4, <2>5 DEF AskedInv
<1>3. CASE UNCHANGED <<input, keep, selected, reached>> /\ first'.given = first.given
  <2>1. \A s, r : Counted(s, r, keep[r], first.given)' = Counted(s, r, keep[r], first.given)
    BY <1>3, SameCounted
  <2> QED
    BY <1>3, <2>1 DEF AskedInv
<1>4. CASE EndScan
  <2>1. first'.given = first.given
    BY <1>4 DEF EndScan, HistoryTypes, PhaseOK
  <2> QED
    BY <1>3, <1>4, <2>1 DEF EndScan
<1> QED
  BY <1>1, <1>2, <1>3, <1>4 DEF HistoryNext, Finished, StartScan, ScanReference,
     ScanCommit, ScanParents, CleanupImageMetadata, historyVars

LEMMA SamePromised ==
  ASSUME UNCHANGED <<input, metadata>>
  PROVE  /\ DistinctAges' = DistinctAges /\ Unambiguous(metadata)' = Unambiguous(metadata)
         /\ \A r : Promised(r, metadata)' = Promised(r, metadata)
<1>1. \A r : Ancestors(r)' = Ancestors(r)
  BY DEF Ancestors, History, input
<1>3. KeepPolicies' = KeepPolicies /\ DistinctAges' = DistinctAges /\ \A r : PoliciesOf(r)' = PoliciesOf(r)
  BY InputSame, SameAges
<1>4. \A r : ImagesLimit(r)' = ImagesLimit(r)
  BY <1>3 DEF ImagesLimit
<1>6. Unambiguous(metadata)' = Unambiguous(metadata)
  BY DEF Unambiguous, Line, input
<1>7. ASSUME NEW r PROVE Promised(r, metadata)' = Promised(r, metadata)
  <2> DEFINE counted(s) == Counted(s, r, ImagesLimit(r), metadata)
             newest(s) == NewestDate(counted(s))
             present == {s \in Stages : counted(s) # {}}
             younger(s) == {t \in present \ {s} : newest(t) >= newest(s)}
             wanted(s) == LET q == ImagesLimit(r) IN
                          \/ q.last < 0
                          \/ Cardinality(younger(s)) < q.last
                          \/ q.op = "Or" /\ q.in # NoIn /\ newest(s) > q.in
  <2>1. \A s : counted(s)' = counted(s)
    BY <1>1, <1>4 DEF Counted, input
  <2>2. \A s : newest(s)' = newest(s)
    <3> HIDE DEF counted
    <3> QED
      BY <2>1 DEF NewestDate, input
  <2>3. Promised(r, metadata) = IF ImagesLimit(r).last = 0 THEN {} ELSE {s \in present : wanted(s)}
    BY DEF Promised
  <2>4. Promised(r, metadata)' = IF ImagesLimit(r)'.last = 0 THEN {} ELSE {s \in present' : wanted(s)'}
    BY DEF Promised
  <2> HIDE DEF counted, newest
  <2>5. present' = present
    BY <2>1
  <2> HIDE DEF present
  <2>6. \A s : younger(s)' = younger(s)
    BY <2>2, <2>5
  <2> HIDE DEF younger
  <2>7. \A s : wanted(s)' = wanted(s)
    BY <1>4, <2>2, <2>6
  <2> HIDE DEF wanted
  <2> QED
    BY <1>4, <2>3, <2>4, <2>5, <2>7
<1> QED
  BY <1>3, <1>6, <1>7

\* Nothing counts for a reference that has nothing to seek.
LEMMA NothingCounted ==
  ASSUME HistoryTypes, NEW r \in Refs, keep[r] = ImagesLimit(r),
         \/ DOMAIN Expected(keep[r]) = {}
         \/ \A s \in Stages : metadata[s] \subseteq {Gone}
  PROVE  ImagesLimit(r).last # 0 => \A s \in Stages : Counted(s, r, ImagesLimit(r), metadata) = {}
<1> DEFINE limit == ImagesLimit(r)
<1>1. limit \in Limits /\ Recorded
  BY DEF HistoryTypes, HistoryTypeOK, Recorded
<1>2. Ancestors(r) \subseteq Commits
  BY AncestorsOK DEF HistoryTypes
<1> HIDE DEF limit
<1>3. \A s \in Stages : Counted(s, r, limit, metadata) \subseteq Young(s, limit)
  BY <1>2, HistoryAssumption DEF Counted, Young
<1>4. limit.last # 0 => \A s \in Stages : Young(s, limit) = {}
  <2>1. CASE DOMAIN Expected(limit) = {}
    BY <1>1, <2>1, ExpectedOK
  <2>2. CASE \A s \in Stages : metadata[s] \subseteq {Gone}
    BY <2>2 DEF Young
  <2> QED
    BY <2>1, <2>2 DEF limit
<1> QED
  BY <1>3, <1>4 DEF limit

LEMMA NothingPromised ==
  ASSUME HistoryTypes, NEW r \in Refs, keep[r] = ImagesLimit(r),
         \/ DOMAIN Expected(keep[r]) = {}
         \/ \A s \in Stages : metadata[s] \subseteq {Gone}
  PROVE  Promised(r, metadata) = {}
BY NothingCounted DEF Promised

LEMMA PromisedRecorded ==
  ASSUME NEW r, NEW s \in Promised(r, metadata)
  PROVE  s \in Stages /\ metadata[s] # {}
<1>1. s \in Stages /\ Counted(s, r, ImagesLimit(r), metadata) # {}
  BY DEF Promised
<1> QED
  BY <1>1 DEF Counted

LEMMA KeptNext ==
  ASSUME HistoryTypes, PolicyInv, ScanInv, StopInv, KeptInv, [HistoryNext]_historyVars
  PROVE  KeptInv'
<1>1. CASE phase' \notin {"scan", "metadata"}
  BY <1>1 DEF KeptInv
<1>2. ASSUME UNCHANGED <<input, metadata>>, phase' \in {"scan", "metadata"},
             DistinctAges /\ Unambiguous(metadata) =>
               \A r \in selected' \ todo' : Promised(r, metadata) \subseteq reached'
      PROVE  KeptInv'
  BY <1>2, SamePromised DEF KeptInv
<1>3. ASSUME phase # "policies" \/ next > Len(KeepPolicies), DistinctAges, NEW r \in selected
      PROVE  r \in Refs /\ keep[r] = ImagesLimit(r)
  BY <1>3, Selected DEF HistoryTypes, HistoryTypeOK
<1>4. CASE StartScan
  <2>1. ASSUME DistinctAges, NEW r \in selected' \ todo' PROVE Promised(r, metadata) = {}
    BY <1>3, <1>4, <2>1, NothingPromised DEF StartScan
  <2> QED
    BY <1>2, <1>4, <2>1 DEF StartScan
<1>5. ASSUME NEW r \in Refs, ScanReference(r) PROVE KeptInv'
  <2>1. /\ UNCHANGED <<input, metadata, selected, reached>> /\ phase = "scan" /\ phase' = "scan" /\ r \in todo
        /\ todo' = todo \/ (todo' = todo \ {r} /\ DOMAIN Expected(keep[r]) = {})
    BY <1>5 DEF ScanReference
  <2>2. ASSUME DistinctAges, Unambiguous(metadata), NEW q \in selected' \ todo'
        PROVE  Promised(q, metadata) \subseteq reached'
    <3>1. CASE q \in selected \ todo
      BY <2>1, <2>2, <3>1 DEF KeptInv
    <3>2. CASE q = r /\ DOMAIN Expected(keep[r]) = {}
      BY <1>3, <2>1, <2>2, <3>2, NothingPromised
    <3> QED
      BY <2>1, <2>2, <3>1, <3>2
  <2> QED
    BY <1>2, <2>1, <2>2
<1>6. CASE ScanReferenceHistory
  <2>1. /\ UNCHANGED <<input, metadata, selected>> /\ phase = "scan" /\ phase' = "scan"
        /\ todo' = todo \ {scan.ref} /\ Scanning
    BY <1>6 DEF ScanReferenceHistory, Scanning
  <2>2. reached \subseteq reached' /\ scan.ref \in selected
    BY <1>6, <2>1, ScanReaches, ScanTypes
  <2>3. ASSUME DistinctAges, Unambiguous(metadata), NEW q \in selected' \ todo'
        PROVE  Promised(q, metadata) \subseteq reached'
    <3>1. CASE q # scan.ref
      BY <2>1, <2>2, <2>3, <3>1 DEF KeptInv
    <3>2. CASE q = scan.ref /\ stop = {}
      BY <1>3, <1>6, <2>1, <2>2, <2>3, <3>2, PromisedSaved
    <3>3. CASE stop # {}
      BY <2>2, <3>3, PromisedRecorded DEF StopInv
    <3> QED
      BY <3>1, <3>2, <3>3
  <2> QED
    BY <1>2, <2>1, <2>3
<1>7. ASSUME UNCHANGED <<input, metadata, selected, todo, reached>>,
             phase' \in {"scan", "metadata"}, phase \in {"scan", "metadata"}
      PROVE  KeptInv'
  BY <1>2, <1>7 DEF KeptInv
<1>8. CASE ScanCommit \/ ScanParents \/ EndScan
  BY <1>7, <1>8 DEF ScanCommit, ScanParents, Scanning, EndScan
<1>9. CASE UNCHANGED historyVars
  BY <1>1, <1>7, <1>9 DEF historyVars
<1>10. CASE ApplyPolicy \/ CleanupImageMetadata \/ Again
  BY <1>1, <1>10 DEF ApplyPolicy, CleanupImageMetadata, Again
<1> QED
  BY <1>4, <1>5, <1>6, <1>8, <1>9, <1>10 DEF HistoryNext, Finished

\* The inductive invariant behind PromisedAreKept.
HistoryInv == HistoryTypes /\ PolicyInv /\ ScanInv /\ StopInv /\ AskedInv /\ KeptInv

LEMMA HistoryInvInit ==
  ASSUME HistoryInit
  PROVE  HistoryInv
<1>1. HistoryTypes /\ PolicyInv
  BY TypesInit, PolicyInit
<1> QED
  BY <1>1 DEF HistoryInit, HistoryInv, ScanInv, Scanning, StopInv, AskedInv, KeptInv

LEMMA HistoryInvNext ==
  ASSUME HistoryInv, [HistoryNext]_historyVars
  PROVE  HistoryInv'
<1>1. HistoryTypes' /\ PolicyInv' /\ ScanInv'
  BY TypesNext, PolicyNext, ScanNext DEF HistoryInv
<1>2. StopInv' /\ AskedInv' /\ KeptInv'
  BY StopNext, AskedNext, KeptNext DEF HistoryInv
<1> QED
  BY <1>1, <1>2 DEF HistoryInv

LEMMA PromisedFollow ==
  ASSUME HistoryInv
  PROVE  PromisedAreKept
<1>1. ASSUME phase = "metadata", DistinctAges, Unambiguous(metadata), NEW r \in Refs, PoliciesOf(r) # {}
      PROVE  Promised(r, metadata) \subseteq reached
  <2>1. r \in selected
    BY <1>1, Selected DEF HistoryInv
  <2>2. todo = {}
    BY <1>1 DEF HistoryInv, HistoryTypes, PhaseOK
  <2> QED
    BY <1>1, <2>1, <2>2 DEF HistoryInv, KeptInv
<1> QED
  BY <1>1 DEF PromisedAreKept, HistoryInv, AskedInv

\* The variables keep their types; records are of known commits only.
THEOREM HistoryTyped == HistorySpec => []HistoryTypeOK
<1>1. HistoryInit => HistoryTypes
  BY TypesInit
<1>2. HistoryTypes /\ [HistoryNext]_historyVars => HistoryTypes'
  BY TypesNext
<1>3. HistoryTypes => HistoryTypeOK
  BY DEF HistoryTypes
<1> QED
  BY <1>1, <1>2, <1>3, PTL DEF HistorySpec

\* Whatever the repository, the policies and the records: what the
\* policies promise to keep for a reference is saved by the scan, and nothing is
\* saved that no selected reference asks for.
THEOREM PromisesHold == HistorySpec => []PromisedAreKept
<1>1. HistoryInit => HistoryInv
  BY HistoryInvInit
<1>2. HistoryInv /\ [HistoryNext]_historyVars => HistoryInv'
  BY HistoryInvNext
<1>3. HistoryInv => PromisedAreKept
  BY PromisedFollow
<1> QED
  BY <1>1, <1>2, <1>3, PTL DEF HistorySpec

-----------------------------------------------------------------------------
(* The cleanup decides the same again.  With dates that differ, what is kept  *)
(* for a reference is a function of the records.                           *)

CountedOf(s, r, M) == Counted(s, r, ImagesLimit(r), M)
Present(r, M) == {s \in Stages : CountedOf(s, r, M) # {}}
NewestOf(s, r, M) ==
  CHOOSE c \in CountedOf(s, r, M) : \A d \in CountedOf(s, r, M) : when[d] <= when[c]
Tops(r, M) == {NewestOf(s, r, M) : s \in Present(r, M)}
Newer(c, r, M) == {d \in Tops(r, M) : when[d] > when[c]}

\* Among the newest "last" commits, or young enough by itself.
IsKept(c, r, M) ==
  LET limit == ImagesLimit(r) IN
  /\ limit.last # 0
  /\ \/ limit.last < 0
     \/ Cardinality(Newer(c, r, M)) < limit.last
     \/ limit.op = "Or" /\ limit.in # NoIn /\ when[c] > limit.in
Kept(r, M) == {s \in Present(r, M) : IsKept(NewestOf(s, r, M), r, M)}

Records == [Stages -> SUBSET (Commits \cup {Gone})]

LEMMA NewestOfOK ==
  ASSUME InputOK, NEW r \in Refs, NEW M \in Records, NEW s \in Present(r, M)
  PROVE  /\ s \in Stages /\ NewestOf(s, r, M) \in CountedOf(s, r, M)
         /\ NewestOf(s, r, M) \in Commits /\ NewestOf(s, r, M) \in M[s]
         /\ when[NewestOf(s, r, M)] \in Nat
         /\ \A c \in CountedOf(s, r, M) : c \in Commits /\ when[c] \in Nat /\ when[c] <= when[NewestOf(s, r, M)]
<1> DEFINE C == CountedOf(s, r, M)
<1>1. C \in SUBSET Commits /\ C \subseteq M[s] /\ C # {} /\ s \in Stages
  BY AncestorsOK DEF Present, CountedOf, Counted
<1>2. IsFiniteSet(C)
  BY <1>1, HistoryAssumption, FS_Subset
<1>3. \E c \in C : \A d \in C : when[d] <= when[c]
  BY <1>1, <1>2, Youngest DEF InputOK
<1>4. NewestOf(s, r, M) \in C /\ \A d \in C : when[d] <= when[NewestOf(s, r, M)]
  BY <1>3 DEF NewestOf
<1>5. \A c \in Commits : when[c] \in Nat
  BY DEF InputOK, Dates
<1> QED
  BY <1>1, <1>4, <1>5

LEMMA NewestOfIs ==
  ASSUME InputOK, DistinctDates, NEW r \in Refs, NEW M \in Records, NEW s \in Stages,
         NEW c \in CountedOf(s, r, M), \A d \in CountedOf(s, r, M) : when[d] <= when[c]
  PROVE  s \in Present(r, M) /\ NewestOf(s, r, M) = c
<1>1. s \in Present(r, M)
  BY DEF Present
<1> DEFINE n == NewestOf(s, r, M)
<1>2. n \in Commits /\ c \in Commits /\ when[n] \in Nat /\ when[c] \in Nat /\ when[c] <= when[n] /\ when[n] <= when[c]
  BY <1>1, NewestOfOK
<1> HIDE DEF n
<1>3. when[n] = when[c]
  BY <1>2
<1>4. n = c
  BY <1>2, <1>3 DEF DistinctDates
<1> QED
  BY <1>1, <1>4 DEF n

LEMMA TopsOK ==
  ASSUME InputOK, NEW r \in Refs, NEW M \in Records
  PROVE  /\ Tops(r, M) \subseteq Commits /\ IsFiniteSet(Tops(r, M))
         /\ IsFiniteSet(Present(r, M))
         /\ Cardinality(Tops(r, M)) <= Cardinality(Present(r, M))
         /\ \A c : Newer(c, r, M) \subseteq Tops(r, M) /\ IsFiniteSet(Newer(c, r, M))
                   /\ Cardinality(Newer(c, r, M)) \in Nat
<1> DEFINE A == Present(r, M)
           f == [s \in A |-> NewestOf(s, r, M)]
<1>1. IsFiniteSet(A)
  BY HistoryAssumption, FS_Subset DEF Present
<1>2. Tops(r, M) \subseteq Commits
  BY NewestOfOK DEF Tops
<1>3. IsFiniteSet(Tops(r, M))
  BY <1>2, HistoryAssumption, FS_Subset
<1>4. Tops(r, M) = {f[s] : s \in A} /\ A \subseteq DOMAIN f
  BY DEF Tops
<1> HIDE DEF f, A
<1>5. Cardinality(Tops(r, M)) <= Cardinality(A)
  BY <1>1, <1>4, ImageOf
<1>6. \A c : Newer(c, r, M) \subseteq Tops(r, M)
  BY DEF Newer
<1>7. \A c : IsFiniteSet(Newer(c, r, M)) /\ Cardinality(Newer(c, r, M)) \in Nat
  BY <1>3, <1>6, FS_Subset, FS_CardinalityType
<1> QED
  BY <1>1, <1>2, <1>3, <1>5, <1>6, <1>7 DEF A

\* Deleting records other than the newest ones of what is kept for a reference
\* does not change what is kept for it.
LEMMA KeptStable ==
  ASSUME InputOK, DistinctDates, NEW r \in Refs, ImagesLimit(r) \in Limits,
         NEW M \in Records, NEW N \in Records, \A s \in Stages : N[s] \subseteq M[s],
         \A s \in Kept(r, M) : NewestOf(s, r, M) \in N[s]
  PROVE  Kept(r, N) = Kept(r, M)
<1>1. PICK last : last = ImagesLimit(r).last /\ last \in Int
  BY DEF Limits
<1>2. PICK in : in = ImagesLimit(r).in /\ in \in Nat
  BY DEF Limits
<1>3. ASSUME NEW s \in Present(r, N)
      PROVE  /\ s \in Present(r, M) /\ when[NewestOf(s, r, N)] <= when[NewestOf(s, r, M)]
             /\ when[NewestOf(s, r, N)] \in Nat /\ when[NewestOf(s, r, M)] \in Nat
  <2>1. s \in Stages /\ CountedOf(s, r, N) \subseteq CountedOf(s, r, M) /\ CountedOf(s, r, N) # {}
    BY <1>3 DEF Present, CountedOf, Counted
  <2>2. s \in Present(r, M)
    BY <2>1 DEF Present
  <2> QED
    BY <1>3, <2>1, <2>2, NewestOfOK
<1>4. ASSUME NEW s \in Kept(r, M)
      PROVE  s \in Present(r, N) /\ NewestOf(s, r, N) = NewestOf(s, r, M)
  <2>1. s \in Present(r, M) /\ s \in Stages
    BY <1>4 DEF Kept, Present
  <2>2. NewestOf(s, r, M) \in CountedOf(s, r, N)
    BY <1>4, <2>1, NewestOfOK DEF CountedOf, Counted
  <2>3. CountedOf(s, r, N) \subseteq CountedOf(s, r, M)
    BY <2>1 DEF CountedOf, Counted
  <2>4. \A d \in CountedOf(s, r, N) : when[d] <= when[NewestOf(s, r, M)]
    BY <2>1, <2>3, NewestOfOK
  <2> QED
    BY <2>1, <2>2, <2>4, NewestOfIs
<1>5. \A d \in Tops(r, M) : (last > 0 /\ Cardinality(Newer(d, r, M)) < last) => d \in Tops(r, N)
  <2> SUFFICES ASSUME NEW t \in Present(r, M), last > 0,
                      Cardinality(Newer(NewestOf(t, r, M), r, M)) < last
               PROVE  NewestOf(t, r, M) \in Tops(r, N)
    BY DEF Tops
  <2>1. t \in Kept(r, M)
    BY <1>1 DEF Kept, IsKept
  <2> QED
    BY <1>4, <2>1 DEF Tops
<1>6. ASSUME NEW s \in Kept(r, M) PROVE s \in Kept(r, N)
  <2>1. PICK c : c = NewestOf(s, r, M) /\ c = NewestOf(s, r, N)
    BY <1>4, <1>6
  <2>2. IsKept(c, r, M) /\ s \in Present(r, N) /\ s \in Present(r, M) /\ when[c] \in Nat
    BY <1>4, <1>6, <2>1, NewestOfOK DEF Kept
  <2>3. ASSUME last > 0, Cardinality(Newer(c, r, M)) < last PROVE Cardinality(Newer(c, r, N)) < last
    <3>1. ASSUME NEW t \in Present(r, N), when[NewestOf(t, r, N)] > when[c]
          PROVE  NewestOf(t, r, N) \in Newer(c, r, M)
      <4>1. PICK d, e : d = NewestOf(t, r, N) /\ e = NewestOf(t, r, M)
        OBVIOUS
      <4>2. t \in Present(r, M) /\ when[d] <= when[e] /\ when[d] \in Nat /\ when[e] \in Nat
        BY <1>3, <3>1, <4>1
      <4>3. when[e] > when[c]
        BY <2>2, <3>1, <4>1, <4>2
      <4>4. Newer(e, r, M) \subseteq Newer(c, r, M)
        <5>1. \A q \in Tops(r, M) : when[q] \in Nat
          BY TopsOK DEF InputOK, Dates
        <5> QED
          BY <2>2, <4>2, <4>3, <5>1 DEF Newer
      <4>5. Cardinality(Newer(e, r, M)) <= Cardinality(Newer(c, r, M))
        BY <4>4, TopsOK, FS_Subset
      <4>6. Cardinality(Newer(e, r, M)) < last
        BY <1>1, <2>3, <4>5, TopsOK
      <4>7. t \in Kept(r, M)
        BY <1>1, <2>3, <4>1, <4>2, <4>6 DEF Kept, IsKept
      <4>8. d = e
        BY <1>4, <4>1, <4>7
      <4> QED
        BY <4>1, <4>2, <4>3, <4>8 DEF Newer, Tops
    <3>2. Newer(c, r, N) \subseteq Newer(c, r, M)
      BY <3>1 DEF Newer, Tops
    <3>3. Cardinality(Newer(c, r, N)) <= Cardinality(Newer(c, r, M))
      BY <3>2, TopsOK, FS_Subset
    <3> QED
      BY <1>1, <2>3, <3>3, TopsOK
  <2>4. Cardinality(Newer(c, r, M)) \in Nat
    BY TopsOK
  <2>5. IsKept(c, r, N)
    BY <1>1, <2>2, <2>3, <2>4 DEF IsKept
  <2> QED
    BY <2>1, <2>2, <2>5 DEF Kept
<1>7. ASSUME NEW s \in Kept(r, N) PROVE s \in Kept(r, M)
  <2>1. PICK b, c : b = NewestOf(s, r, M) /\ c = NewestOf(s, r, N)
    OBVIOUS
  <2>2. /\ IsKept(c, r, N) /\ s \in Present(r, N) /\ s \in Present(r, M)
        /\ when[c] <= when[b] /\ when[c] \in Nat /\ when[b] \in Nat
    BY <1>3, <1>7, <2>1 DEF Kept
  <2>3. ASSUME last > 0, Cardinality(Newer(c, r, N)) < last PROVE Cardinality(Newer(b, r, M)) < last
    <3> SUFFICES ASSUME ~(Cardinality(Newer(b, r, M)) < last) PROVE FALSE
      OBVIOUS
    <3> DEFINE Z == {e \in Tops(r, M) : ~(Cardinality(Newer(e, r, M)) < last)}
    <3>1. Z \in SUBSET Commits /\ IsFiniteSet(Z) /\ b \in Z
      <4>1. Tops(r, M) \subseteq Commits /\ IsFiniteSet(Tops(r, M)) /\ Z \subseteq Tops(r, M)
        BY TopsOK
      <4>2. IsFiniteSet(Z)
        BY <4>1, FS_Subset
      <4>3. b \in Tops(r, M)
        BY <2>1, <2>2 DEF Tops
      <4> QED
        BY <4>1, <4>2, <4>3
    <3>2. PICK z \in Z : \A e \in Z : when[e] <= when[z]
      BY <3>1, Youngest DEF InputOK
    <3>3. \A e \in Commits : when[e] \in Nat
      BY DEF InputOK, Dates
    <3>4. ASSUME NEW d \in Newer(z, r, M) PROVE d \in Newer(c, r, N)
      <4>1. d \in Tops(r, M) /\ when[d] > when[z] /\ d \in Commits /\ z \in Commits
        BY <3>1, <3>4, TopsOK DEF Newer
      <4>2. d \notin Z
        BY <3>2, <3>3, <4>1
      <4>3. d \in Tops(r, N)
        BY <1>5, <2>3, <4>1, <4>2
      <4>4. when[d] > when[c]
        BY <2>2, <3>1, <3>2, <3>3, <4>1
      <4> QED
        BY <4>3, <4>4 DEF Newer
    <3>5. Cardinality(Newer(z, r, M)) <= Cardinality(Newer(c, r, N))
      BY <3>4, TopsOK, FS_Subset
    <3>6. ~(Cardinality(Newer(z, r, M)) < last)
      BY <3>2
    <3> QED
      BY <1>1, <2>3, <3>5, <3>6, TopsOK
  <2>4. Cardinality(Newer(c, r, N)) \in Nat
    BY TopsOK
  <2>5. IsKept(b, r, M)
    BY <1>1, <1>2, <2>2, <2>3, <2>4 DEF IsKept
  <2> QED
    BY <2>1, <2>2, <2>5 DEF Kept
<1> QED
  BY <1>6, <1>7

\* What a complete scan saves for a reference is what is kept for it, hit on the
\* newest commits.
LEMMA ScanKeeps ==
  ASSUME HistoryTypes, ScanInv, ScanReferenceHistory, stop = {}, Unambiguous(metadata), DistinctDates,
         keep[scan.ref] = ImagesLimit(scan.ref)
  PROVE  /\ reached' = reached \cup Kept(scan.ref, metadata)
         /\ \A s \in Stages : hit[s] \subseteq hit'[s]
         /\ \A s \in Kept(scan.ref, metadata) : NewestOf(s, scan.ref, metadata) \in hit'[s]
<1>1. PICK r, M, limit, A : r = scan.ref /\ M = metadata /\ limit = ImagesLimit(r) /\ A = FoundStages
  OBVIOUS
<1>2. /\ Scanning /\ scan.level = <<>> /\ scan.parents = <<>> /\ limit \in Limits /\ InputOK
      /\ r \in Refs /\ M \in Records
  BY <1>1, ScanTypes DEF ScanReferenceHistory, Scanning, HistoryTypes, HistoryTypeOK, Scans, Records
<1>3. /\ limit.last # 0 /\ A = Present(r, M)
      /\ \A s \in A : /\ FoundOn(s) \in CountedOf(s, r, M)
                      /\ \A c \in CountedOf(s, r, M) : when[c] <= when[FoundOn(s)]
  BY <1>1, <1>2, ScanFinds DEF Present, CountedOf
<1>4. \A s \in A : s \in Stages /\ FoundOn(s) = NewestOf(s, r, M)
  <2>1. A \subseteq Stages
    BY <1>3 DEF Present
  <2> QED
    BY <1>2, <1>3, <2>1, NewestOfIs
<1>5. {FoundOn(s) : s \in A} = Tops(r, M)
  BY <1>3, <1>4 DEF Tops
<1>6. PICK C : /\ IF limit.last > 0 /\ Cardinality(A) > limit.last
                  THEN C \in HandleExtra(Tops(r, M), limit) ELSE C = Tops(r, M)
               /\ reached' = reached \cup {s \in A : FoundOn(s) \in C}
               /\ hit' = [s \in Stages |-> IF s \in A /\ FoundOn(s) \in C
                                           THEN hit[s] \cup {FoundOn(s)} ELSE hit[s]]
  BY <1>1, <1>5, ScanSaves
<1>7. /\ limit.last \in Int /\ limit.in \in Nat /\ (limit.op = "And" \/ limit.op = "Or")
      /\ Cardinality(A) \in Nat /\ Cardinality(Tops(r, M)) \in Nat /\ IsFiniteSet(Tops(r, M))
      /\ Cardinality(Tops(r, M)) <= Cardinality(A)
      /\ \A c \in Tops(r, M) : c \in Commits /\ when[c] \in Nat
  BY <1>2, <1>3, TopsOK, FS_CardinalityType DEF Limits, InputOK, Dates
<1>8. ASSUME NEW s \in A PROVE FoundOn(s) \in C <=> IsKept(FoundOn(s), r, M)
  <2>1. PICK c : c = FoundOn(s) /\ c \in Tops(r, M)
    BY <1>5, <1>8
  <2>2. Newer(c, r, M) \subseteq Tops(r, M) /\ IsFiniteSet(Newer(c, r, M)) /\ Cardinality(Newer(c, r, M)) \in Nat
    BY <1>2, TopsOK
  <2>3. CASE limit.last < 0
    <3>1. C = Tops(r, M)
      BY <1>6, <1>7, <2>3
    <3> QED
      BY <1>1, <1>3, <2>1, <2>3, <3>1 DEF IsKept
  <2>4. CASE limit.last > 0 /\ ~(Cardinality(A) > limit.last)
    <3>1. C = Tops(r, M)
      BY <1>6, <2>4
    <3>2. Newer(c, r, M) \subseteq Tops(r, M) \ {c}
      BY <1>7, <2>1 DEF Newer
    <3>3. IsFiniteSet(Tops(r, M) \ {c}) /\ Cardinality(Tops(r, M) \ {c}) = Cardinality(Tops(r, M)) - 1
      BY <1>7, <2>1, FS_RemoveElement
    <3>4. Cardinality(Newer(c, r, M)) <= Cardinality(Tops(r, M)) - 1
      BY <3>2, <3>3, FS_Subset
    <3>5. Cardinality(Newer(c, r, M)) < limit.last
      BY <1>7, <2>2, <2>4, <3>4
    <3> QED
      BY <1>1, <1>3, <2>1, <3>1, <3>5 DEF IsKept
  <2>5. CASE limit.last > 0 /\ Cardinality(A) > limit.last
    <3>1. C \in HandleExtra(Tops(r, M), limit)
      BY <1>6, <2>5
    <3>2. PICK L \in SUBSET Tops(r, M) :
            /\ Cardinality(L) = IF Cardinality(Tops(r, M)) < limit.last
                                THEN Cardinality(Tops(r, M)) ELSE limit.last
            /\ \A e \in L, d \in Tops(r, M) \ L : when[e] >= when[d]
            /\ limit.in = NoIn => C = L
            /\ limit.in # NoIn /\ limit.op = "And" => C = {e \in L : when[e] > limit.in}
            /\ limit.in # NoIn /\ limit.op = "Or" => C = L \cup {e \in Tops(r, M) : when[e] > limit.in}
      BY <1>2, <3>1, ExtraIs
    <3> DEFINE f == [e \in Tops(r, M) |-> when[e]]
    <3>3. /\ f \in [Tops(r, M) -> Nat] /\ \A e, d \in Tops(r, M) : e # d => f[e] # f[d]
          /\ \A e \in L, d \in Tops(r, M) \ L : f[e] >= f[d]
      BY <1>7, <3>2 DEF DistinctDates
    <3>4. {d \in Tops(r, M) : f[d] > f[c]} = Newer(c, r, M)
      BY <2>1 DEF Newer
    <3>5. limit.last \in Nat
      BY <1>7, <2>5
    <3> HIDE DEF f
    <3>6. c \in L <=> Cardinality({d \in Tops(r, M) : f[d] > f[c]}) < limit.last
      BY <1>7, <2>1, <3>2, <3>3, <3>5, TopOf
    <3>7. c \in L <=> Cardinality(Newer(c, r, M)) < limit.last
      BY <3>4, <3>6
    <3>8. limit.in # NoIn /\ limit.op = "And" => when[c] > limit.in
      BY <1>1, <1>3, <1>8, <2>1 DEF CountedOf, Counted
    <3>9. c \in C <=> c \in L \/ (limit.op = "Or" /\ limit.in # NoIn /\ when[c] > limit.in)
      <4>1. CASE limit.in = NoIn
        BY <3>2, <4>1
      <4>2. CASE limit.in # NoIn /\ limit.op = "And"
        BY <3>2, <3>8, <4>2
      <4>3. CASE limit.in # NoIn /\ limit.op = "Or"
        BY <2>1, <3>2, <4>3
      <4> QED
        BY <1>7, <4>1, <4>2, <4>3
    <3> QED
      BY <1>1, <1>7, <2>1, <2>5, <3>7, <3>9 DEF IsKept
  <2> QED
    BY <1>3, <1>7, <2>3, <2>4, <2>5
<1>9. {s \in A : FoundOn(s) \in C} = Kept(r, M)
  BY <1>3, <1>4, <1>8 DEF Kept
<1>10. \A s \in Kept(r, M) : s \in A /\ FoundOn(s) \in C /\ s \in Stages /\ FoundOn(s) = NewestOf(s, r, M)
  BY <1>4, <1>9
<1>11. \A s \in Stages : hit[s] \subseteq hit'[s]
  BY <1>6
<1>12. \A s \in Kept(r, M) : NewestOf(s, r, M) \in hit'[s]
  BY <1>6, <1>10
<1> QED
  BY <1>1, <1>6, <1>9, <1>11, <1>12

\* These depend on the input and the records only.
LEMMA SameKept ==
  ASSUME UNCHANGED input
  PROVE  /\ DistinctDates' = DistinctDates
         /\ \A r : /\ Kept(r, metadata)' = Kept(r, metadata')
                   /\ \A s : NewestOf(s, r, metadata)' = NewestOf(s, r, metadata')
<1>1. \A r : Ancestors(r)' = Ancestors(r)
  BY DEF Ancestors, History, input
<1>2. KeepPolicies' = KeepPolicies /\ \A r : PoliciesOf(r)' = PoliciesOf(r)
  BY InputSame, SameAges
<1>3. \A r : ImagesLimit(r)' = ImagesLimit(r)
  BY <1>2 DEF ImagesLimit
<1>4. DistinctDates' = DistinctDates
  BY DEF DistinctDates, input
<1>5. when' = when
  BY DEF input
<1>6. ASSUME NEW r
      PROVE  /\ Kept(r, metadata)' = Kept(r, metadata')
             /\ \A s : NewestOf(s, r, metadata)' = NewestOf(s, r, metadata')
  <2>1. \A s : CountedOf(s, r, metadata)' = CountedOf(s, r, metadata')
    BY <1>1, <1>3, <1>5 DEF CountedOf, Counted
  <2>2. \A s : NewestOf(s, r, metadata)' = NewestOf(s, r, metadata')
    BY <1>5, <2>1 DEF NewestOf
  <2>3. Present(r, metadata)' = Present(r, metadata')
    BY <2>1 DEF Present
  <2>4. Tops(r, metadata)' = Tops(r, metadata')
    BY <2>2, <2>3 DEF Tops
  <2>5. \A s : Newer(NewestOf(s, r, metadata), r, metadata)' = Newer(NewestOf(s, r, metadata'), r, metadata')
    BY <1>5, <2>2, <2>4 DEF Newer
  <2>6. \A s : IsKept(NewestOf(s, r, metadata), r, metadata)' <=> IsKept(NewestOf(s, r, metadata'), r, metadata')
    BY <1>3, <1>5, <2>2, <2>5 DEF IsKept
  <2>7. Kept(r, metadata)' = Kept(r, metadata')
    BY <2>3, <2>6 DEF Kept
  <2> QED
    BY <2>2, <2>7
<1> QED
  BY <1>4, <1>6

\* All that is kept for a reference was saved, on its newest commit.
FullyHit(r) ==
  \A s \in Kept(r, metadata) : s \in reached /\ NewestOf(s, r, metadata) \in hit[s]

\* The dates leave no choice, and neither do the records.
Settled == DistinctAges /\ DistinctDates /\ Unambiguous(first.given)

SavedInv ==
  (phase \in {"scan", "metadata"} /\ Settled) =>
    /\ \A s \in reached : \E r \in selected \ todo : s \in Kept(r, metadata) /\ FullyHit(r)
    /\ \A r \in selected \ todo :
         FullyHit(r) \/ \A s \in Stages : metadata[s] # {} => s \in reached

\* What is kept for some reference.
KeptAll(M) == {s \in Stages : \E r \in Refs : PoliciesOf(r) # {} /\ s \in Kept(r, M)}

StableInv ==
  (Settled /\ (round # 1 \/ phase \in {"metadata", "done"})) => first.saved = KeptAll(metadata)

LEMMA SettledSame ==
  ASSUME UNCHANGED input, first'.given = first.given
  PROVE  Settled' = Settled
BY SameAges, SameKept DEF Settled, Unambiguous, Line, input

\* The records of today are no more ambiguous than those of the first cleanup.
LEMMA StillUnambiguous ==
  ASSUME HistoryTypes, Unambiguous(first.given)
  PROVE  Unambiguous(metadata)
<1>1. CASE Line
  BY <1>1 DEF Unambiguous
<1>2. ASSUME \A s \in Stages : Cardinality(first.given[s]) <= 1
      PROVE  \A s \in Stages : Cardinality(metadata[s]) <= 1
  <2> SUFFICES ASSUME NEW s \in Stages PROVE Cardinality(metadata[s]) <= 1
    OBVIOUS
  <2>1. metadata[s] \subseteq first.given[s] /\ first.given[s] \subseteq Commits \cup {Gone}
    BY DEF HistoryTypes, PhaseOK
  <2>2. IsFiniteSet(first.given[s])
    BY <2>1, HistoryAssumption, FS_AddElement, FS_Subset
  <2>3. /\ Cardinality(metadata[s]) <= Cardinality(first.given[s]) /\ Cardinality(first.given[s]) \in Nat
        /\ IsFiniteSet(metadata[s])
    BY <2>1, <2>2, FS_Subset, FS_CardinalityType
  <2>4. Cardinality(metadata[s]) \in Nat
    BY <2>3, FS_CardinalityType
  <2> QED
    BY <1>2, <2>3, <2>4
<1> QED
  BY <1>1, <1>2 DEF Unambiguous

LEMMA NothingKept ==
  ASSUME HistoryTypes, NEW r \in Refs, keep[r] = ImagesLimit(r),
         \/ DOMAIN Expected(keep[r]) = {}
         \/ \A s \in Stages : metadata[s] \subseteq {Gone}
  PROVE  Kept(r, metadata) = {}
BY NothingCounted DEF Kept, IsKept, Present, CountedOf

LEMMA SavedNext ==
  ASSUME HistoryTypes, PolicyInv, ScanInv, StopInv, SavedInv, [HistoryNext]_historyVars
  PROVE  SavedInv'
<1>1. CASE phase' \notin {"scan", "metadata"}
  BY <1>1 DEF SavedInv
<1> DEFINE Full(r) == \A s \in Kept(r, metadata) : s \in reached' /\ NewestOf(s, r, metadata) \in hit'[s]
<1>2. ASSUME UNCHANGED <<input, metadata>>, first'.given = first.given, phase' \in {"scan", "metadata"},
             Settled => /\ \A s \in reached' : \E r \in selected' \ todo' : s \in Kept(r, metadata) /\ Full(r)
                        /\ \A r \in selected' \ todo' :
                             Full(r) \/ \A s \in Stages : metadata[s] # {} => s \in reached'
      PROVE  SavedInv'
  <2>1. \A r : Kept(r, metadata)' = Kept(r, metadata) /\ \A s : NewestOf(s, r, metadata)' = NewestOf(s, r, metadata)
    BY <1>2, SameKept
  <2>2. \A r : FullyHit(r)' <=> Full(r)
    BY <2>1 DEF FullyHit
  <2>3. Settled' = Settled
    BY <1>2, SettledSame
  <2> HIDE DEF Full
  <2> QED
    BY <1>2, <2>1, <2>2, <2>3 DEF SavedInv
<1>3. ASSUME phase # "policies" \/ next > Len(KeepPolicies), Settled, NEW r \in selected
      PROVE  r \in Refs /\ keep[r] = ImagesLimit(r)
  BY <1>3, Selected DEF HistoryTypes, HistoryTypeOK, Settled
<1>4. CASE StartScan
  <2>1. ASSUME Settled, NEW r \in selected' \ todo' PROVE Kept(r, metadata) = {}
    BY <1>3, <1>4, <2>1, NothingKept DEF StartScan
  <2>2. reached' = {} /\ UNCHANGED <<input, metadata, first>> /\ phase' = "scan"
    BY <1>4 DEF StartScan, HistoryTypes, PhaseOK
  <2> QED
    BY <1>2, <2>1, <2>2
<1>5. ASSUME UNCHANGED <<reached, hit>>, phase \in {"scan", "metadata"}, Settled, NEW r, FullyHit(r)
      PROVE  Full(r)
  BY <1>5 DEF FullyHit
<1>6. ASSUME NEW r \in Refs, ScanReference(r) PROVE SavedInv'
  <2>1. /\ UNCHANGED <<input, metadata, selected, reached, hit, first>> /\ phase = "scan" /\ phase' = "scan"
        /\ r \in todo /\ (todo' = todo \/ (todo' = todo \ {r} /\ DOMAIN Expected(keep[r]) = {}))
    BY <1>6 DEF ScanReference
  <2>2. ASSUME Settled
        PROVE  /\ \A s \in reached' : \E q \in selected' \ todo' : s \in Kept(q, metadata) /\ Full(q)
               /\ \A q \in selected' \ todo' :
                    Full(q) \/ \A s \in Stages : metadata[s] # {} => s \in reached'
    <3>1. \A s \in reached : \E q \in selected \ todo : s \in Kept(q, metadata) /\ FullyHit(q)
      BY <2>1, <2>2 DEF SavedInv
    <3>2. \A q \in selected \ todo : FullyHit(q) \/ \A s \in Stages : metadata[s] # {} => s \in reached
      BY <2>1, <2>2 DEF SavedInv
    <3>3. todo' # todo => Full(r)
      BY <1>3, <2>1, <2>2, NothingKept DEF HistoryTypes, HistoryTypeOK
    <3> HIDE DEF Full
    <3> QED
      BY <1>5, <2>1, <2>2, <3>1, <3>2, <3>3
  <2> QED
    BY <1>2, <2>1, <2>2
<1>7. CASE ScanReferenceHistory
  <2>1. /\ UNCHANGED <<input, metadata, selected, first>> /\ phase = "scan" /\ phase' = "scan"
        /\ todo' = todo \ {scan.ref} /\ Scanning
    BY <1>7 DEF ScanReferenceHistory, Scanning
  <2>2. ASSUME Settled
        PROVE  /\ \A s \in reached' : \E q \in selected' \ todo' : s \in Kept(q, metadata) /\ Full(q)
               /\ \A q \in selected' \ todo' :
                    Full(q) \/ \A s \in Stages : metadata[s] # {} => s \in reached'
    <3>1. \A s \in reached : \E q \in selected \ todo : s \in Kept(q, metadata) /\ FullyHit(q)
      BY <2>1, <2>2 DEF SavedInv
    <3>2. \A q \in selected \ todo : FullyHit(q) \/ \A s \in Stages : metadata[s] # {} => s \in reached
      BY <2>1, <2>2 DEF SavedInv
    <3>3. /\ scan.ref \in selected /\ scan.ref \in todo /\ keep[scan.ref] = ImagesLimit(scan.ref)
          /\ FoundStages \subseteq Stages /\ \A s \in FoundStages : metadata[s] # {}
      BY <1>3, <2>1, <2>2, ScanTypes
    <3>4. reached \subseteq reached' /\ reached' \subseteq reached \cup FoundStages
      BY <1>7, ScanReaches
    <3>5. \A s \in Stages : hit[s] \subseteq hit'[s]
      BY <1>7, ScanSaves
    <3>6. \A q : FullyHit(q) => Full(q)
      <4>1. \A q : \A s \in Kept(q, metadata) : s \in Stages
        BY DEF Kept, Present
      <4> QED
        BY <3>4, <3>5, <4>1 DEF FullyHit
    <3>7. CASE stop # {}
      <4>1. reached' = reached /\ \A s \in Stages : metadata[s] # {} => s \in reached
        BY <3>3, <3>4, <3>7 DEF StopInv
      <4> HIDE DEF Full
      <4> QED
        BY <2>1, <3>1, <3>6, <4>1
    <3>8. CASE stop = {}
      <4>1. Unambiguous(metadata) /\ DistinctDates
        BY <2>2, StillUnambiguous DEF Settled
      <4>2. /\ reached' = reached \cup Kept(scan.ref, metadata)
            /\ \A s \in Kept(scan.ref, metadata) : NewestOf(s, scan.ref, metadata) \in hit'[s]
        BY <1>7, <3>3, <3>8, <4>1, ScanKeeps
      <4>3. Full(scan.ref)
        BY <4>2
      <4> HIDE DEF Full
      <4>4. \A s \in reached' : \E q \in selected' \ todo' : s \in Kept(q, metadata) /\ Full(q)
        BY <2>1, <3>1, <3>3, <3>6, <4>2, <4>3
      <4>5. \A q \in selected' \ todo' : Full(q) \/ \A s \in Stages : metadata[s] # {} => s \in reached'
        BY <2>1, <3>2, <3>4, <3>6, <4>3
      <4> QED
        BY <4>4, <4>5
    <3> QED
      BY <3>7, <3>8
  <2> QED
    BY <1>2, <2>1, <2>2
<1>8. ASSUME UNCHANGED <<input, metadata, selected, todo, reached, hit>>, first'.given = first.given,
             phase' \in {"scan", "metadata"}, phase \in {"scan", "metadata"}
      PROVE  SavedInv'
  <2>1. \A r : FullyHit(r) <=> Full(r)
    BY <1>8 DEF FullyHit
  <2>2. Settled => /\ \A s \in reached' : \E r \in selected' \ todo' : s \in Kept(r, metadata) /\ FullyHit(r)
                   /\ \A r \in selected' \ todo' :
                        FullyHit(r) \/ \A s \in Stages : metadata[s] # {} => s \in reached'
    BY <1>8 DEF SavedInv
  <2> HIDE DEF Full
  <2> QED
    BY <1>2, <1>8, <2>1, <2>2
<1>9. CASE ScanCommit \/ ScanParents
  BY <1>8, <1>9 DEF ScanCommit, ScanParents, Scanning
<1>10. CASE EndScan
  <2>1. first'.given = first.given
    BY <1>10 DEF EndScan, HistoryTypes, PhaseOK
  <2> QED
    BY <1>8, <1>10, <2>1 DEF EndScan
<1>11. CASE UNCHANGED historyVars
  BY <1>1, <1>8, <1>11 DEF historyVars
<1>12. CASE ApplyPolicy \/ CleanupImageMetadata \/ Again
  BY <1>1, <1>12 DEF ApplyPolicy, CleanupImageMetadata, Again
<1> QED
  BY <1>4, <1>6, <1>7, <1>9, <1>10, <1>11, <1>12 DEF HistoryNext, Finished

\* Once all references are scanned, what was reached is what the records make the
\* policies keep.
LEMMA ReachedIsKept ==
  ASSUME HistoryTypes, PolicyInv, SavedInv, phase \in {"scan", "metadata"}, todo = {}, Settled
  PROVE  reached = KeptAll(metadata)
<1>1. \A r \in Refs : r \in selected <=> PoliciesOf(r) # {}
  BY Selected DEF Settled
<1>2. /\ \A s \in reached : \E r \in selected : s \in Kept(r, metadata) /\ FullyHit(r)
      /\ \A r \in selected : FullyHit(r) \/ \A s \in Stages : metadata[s] # {} => s \in reached
  BY DEF SavedInv
<1>3. selected \subseteq Refs /\ reached \subseteq Stages
  BY DEF HistoryTypes, HistoryTypeOK
<1>4. \A r : \A s \in Kept(r, metadata) : s \in Stages /\ metadata[s] # {}
  BY DEF Kept, Present, CountedOf, Counted
<1>5. \A r \in selected : Kept(r, metadata) \subseteq reached
  BY <1>2, <1>4 DEF FullyHit
<1> QED
  BY <1>1, <1>2, <1>3, <1>5 DEF KeptAll

\* Deleting the records that were not hit does not change what is kept.
LEMMA DeletingChangesNothing ==
  ASSUME HistoryTypes, PolicyInv, SavedInv, CleanupImageMetadata, Settled
  PROVE  KeptAll(metadata') = KeptAll(metadata)
<1>1. phase = "metadata" /\ todo = {} /\ InputOK /\ DistinctDates /\ DistinctAges
  BY DEF CleanupImageMetadata, HistoryTypes, PhaseOK, Settled
<1>2. PICK M, N : M = metadata /\ N = metadata'
  OBVIOUS
<1>3. /\ M \in Records /\ N \in Records
      /\ \A s \in Stages : N[s] \subseteq M[s] /\ (s \in reached => M[s] \cap hit[s] \subseteq N[s])
  BY <1>2, RecordsLeft DEF Records, HistoryTypes, HistoryTypeOK
<1>4. reached = KeptAll(M)
  BY <1>1, <1>2, ReachedIsKept
<1>5. \A r \in Refs : /\ r \in selected <=> PoliciesOf(r) # {}
                      /\ r \in selected => ImagesLimit(r) \in Limits
  <2>1. \A r \in Refs : keep[r] \in Limits
    BY DEF HistoryTypes, HistoryTypeOK
  <2> QED
    BY <1>1, <2>1, Selected
<1>6. ASSUME NEW r \in Refs, r \in selected, FullyHit(r) PROVE Kept(r, N) = Kept(r, M)
  <2>1. \A s \in Kept(r, M) : NewestOf(s, r, M) \in N[s]
    <3> SUFFICES ASSUME NEW s \in Kept(r, M) PROVE NewestOf(s, r, M) \in N[s]
      OBVIOUS
    <3>1. s \in Present(r, M) /\ s \in reached /\ NewestOf(s, r, M) \in hit[s]
      BY <1>2, <1>6 DEF FullyHit, Kept
    <3>2. s \in Stages /\ NewestOf(s, r, M) \in M[s]
      BY <1>1, <1>3, <3>1, NewestOfOK
    <3> QED
      BY <1>3, <3>1, <3>2
  <2> QED
    BY <1>1, <1>3, <1>5, <1>6, <2>1, KeptStable
<1>7. /\ \A s \in reached : \E r \in selected : s \in Kept(r, M) /\ FullyHit(r)
      /\ \A r \in selected : FullyHit(r) \/ \A s \in Stages : M[s] # {} => s \in reached
  BY <1>1, <1>2 DEF SavedInv
<1>8. selected \subseteq Refs /\ reached \subseteq Stages
  BY DEF HistoryTypes, HistoryTypeOK
<1>9. ASSUME NEW s \in KeptAll(M) PROVE s \in KeptAll(N)
  BY <1>4, <1>5, <1>6, <1>7, <1>8, <1>9 DEF KeptAll
<1>10. ASSUME NEW s \in KeptAll(N) PROVE s \in KeptAll(M)
  <2>1. PICK r \in Refs : r \in selected /\ s \in Kept(r, N) /\ s \in Stages
    BY <1>5, <1>10 DEF KeptAll
  <2>2. CASE FullyHit(r)
    BY <1>5, <1>6, <2>1, <2>2 DEF KeptAll
  <2>3. CASE \A t \in Stages : M[t] # {} => t \in reached
    <3>1. N[s] # {}
      BY <2>1 DEF Kept, Present, CountedOf, Counted
    <3> QED
      BY <1>3, <1>4, <2>1, <2>3, <3>1
  <2> QED
    BY <1>7, <2>1, <2>2, <2>3
<1> QED
  BY <1>2, <1>9, <1>10

LEMMA StableNext ==
  ASSUME HistoryTypes, PolicyInv, SavedInv, StableInv, [HistoryNext]_historyVars
  PROVE  StableInv'
<1>1. ASSUME UNCHANGED input, first'.given = first.given
      PROVE  Settled' = Settled /\ KeptAll(metadata)' = KeptAll(metadata')
  <2>1. Settled' = Settled
    BY <1>1, SettledSame
  <2>2. \A r : PoliciesOf(r)' = PoliciesOf(r) /\ Kept(r, metadata)' = Kept(r, metadata')
    BY <1>1, SameAges, SameKept
  <2> QED
    BY <2>1, <2>2 DEF KeptAll
<1>2. CASE EndScan
  <2>1. /\ UNCHANGED <<input, metadata, round>> /\ phase = "scan" /\ todo = {}
        /\ first'.given = first.given /\ (round = 1 => first'.saved = reached) /\ (round # 1 => first' = first)
    BY <1>2 DEF EndScan, HistoryTypes, PhaseOK
  <2>2. Settled => first'.saved = KeptAll(metadata)
    BY <2>1, ReachedIsKept DEF StableInv
  <2> QED
    BY <1>1, <2>1, <2>2 DEF StableInv
<1>3. CASE CleanupImageMetadata
  <2>1. UNCHANGED <<input, first>> /\ phase = "metadata"
    BY <1>3 DEF CleanupImageMetadata
  <2>2. Settled => first.saved = KeptAll(metadata')
    BY <1>3, <2>1, DeletingChangesNothing DEF StableInv
  <2> QED
    BY <1>1, <2>1, <2>2 DEF StableInv
<1>4. CASE Again
  <2>1. UNCHANGED <<input, first, metadata>> /\ phase = "done"
    BY <1>4 DEF Again
  <2> QED
    BY <1>1, <2>1 DEF StableInv
<1>5. CASE UNCHANGED <<input, first, metadata, round>> /\ (phase' = phase \/ phase' = "scan")
  BY <1>1, <1>5 DEF StableInv
<1> QED
  BY <1>2, <1>3, <1>4, <1>5 DEF HistoryNext, Finished, ApplyPolicy, StartScan, ScanReference,
     ScanCommit, ScanParents, ScanReferenceHistory, historyVars

\* Where the dates and the records leave no choice, a cleanup that is
\* run again on the records that the earlier ones left, whichever deletions of
\* theirs failed, saves the stages that the first one saved.
THEOREM CleanupSettles == HistorySpec => []CleanupIsIdempotent
<1> DEFINE Inv == HistoryInv /\ SavedInv /\ StableInv
<1>1. HistoryInit => Inv
  BY HistoryInvInit DEF HistoryInit, SavedInv, StableInv
<1>2. Inv /\ [HistoryNext]_historyVars => Inv'
  BY HistoryInvNext, SavedNext, StableNext DEF HistoryInv
<1>3. Inv => CleanupIsIdempotent
  <2> SUFFICES ASSUME Inv, round > 1, phase = "metadata", Settled PROVE reached = first.saved
    BY DEF CleanupIsIdempotent, Settled
  <2>1. todo = {}
    BY DEF HistoryInv, HistoryTypes, PhaseOK
  <2> QED
    BY <2>1, ReachedIsKept DEF HistoryInv, StableInv
<1> QED
  BY <1>1, <1>2, <1>3, PTL DEF HistorySpec
=============================================================================
