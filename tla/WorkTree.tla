------------------------------ MODULE WorkTree ------------------------------
(***************************************************************************)
(* The work tree that werf keeps for a git repository on the host          *)
(* (pkg/true_git): one directory, shared by every werf process of the      *)
(* host, that is switched from commit to commit.  A file beside it,        *)
(* current_commit, says which commit it holds, and a request for that      *)
(* commit uses the tree as it is.  The record must therefore never         *)
(* outlive the content, whatever process is killed at whatever step.       *)
(*                                                                         *)
(* A commit is its content: the files, one value per path, and the version *)
(* of the submodules (0: it has none).  Git is external and modelled by    *)
(* what werf uses it for.  Every request holds the host lock               *)
(* "git_data_manager" shared, so the garbage collector of GitData, which   *)
(* holds it exclusively, runs between requests only; host locks are        *)
(* released when their holder dies.                                        *)
(***************************************************************************)
EXTENDS Naturals, FiniteSets

CONSTANTS
  Junk,         \* a content that belongs to no commit
  NoFile,       \* a file, a branch or an answer that is absent
  NoProc,       \* nobody holds the lock
  Procs,        \* werf processes and their parallel tasks
  Paths,        \* paths of the repository
  Values,       \* contents of a file (one of them may stand for "absent")
  Subs,         \* versions of the submodules, 0 for none
  Base,         \* the common ancestor of the commits that are merged
  Requests,     \* what may be asked for: [op, commit, from, excluded]
  MaxRequests,  \* bound on the requests of a behaviour
  MaxKills,     \* bound on killed processes
  MaxEdits      \* bound on the edits of the user's own work tree

Tree == [Paths -> Values]
Commit == [tree : Tree, sub : Subs]
Request == [op : {"archive", "patch", "handle", "merge", "service"},
            commit : Commit, from : Commit, excluded : SUBSET Paths]

ASSUME ConstantsAssumption ==
  /\ Junk \notin Commit /\ NoFile \notin Commit
  /\ NoProc \notin Procs
  /\ 0 \in Subs
  /\ Base \in Commit
  /\ Requests \subseteq Request
  /\ MaxRequests \in Nat /\ MaxKills \in Nat /\ MaxEdits \in Nat

VARIABLES
  wt,      \* the work tree: [here, sound, tree, sub]
  cur,     \* the file current_commit: a commit, NoFile or Junk (cut off)
  lock,    \* holder of the host lock "git_work_tree_cache <dir>"
  task,    \* of each process: [pc, req, target, retried]
  gc,      \* the garbage collector: "idle" or "removing"
  branch,  \* the service branch of dev mode: [tree, merged] or NoFile
  source,  \* the files of the user's own work tree
  made,    \* the answer of a service request: [tree, of, req], until the next request
  budget,  \* [requests, kills, edits]: the bounds spent
  torn,    \* ghost: the collector died in the middle of the directory
  stale    \* ghost: a merge changed the submodules and did not update them

vars == <<wt, cur, lock, task, gc, branch, source, made, budget, torn, stale>>

Idle == [pc |-> "idle"]
At(p, pc) == task[p].pc = pc
Goto(p, pc) == task' = [task EXCEPT ![p].pc = pc]
Active(p) == task[p] # Idle
Target(p) == task[p].target

Pcs == {"lock", "look", "forget", "remove", "unrecord", "switch", "submodules", "record", "use",
        "merge", "recordMerge", "checkout", "compare", "commit"}
Task == [pc : Pcs, req : Requests, target : Commit, retried : BOOLEAN]

\* Types of the variables.
TypeOK ==
  /\ wt \in [here : BOOLEAN, sound : BOOLEAN,
             tree : Tree \union {Junk}, sub : Subs \union {Junk}]
  /\ cur = NoFile \/ cur = Junk \/ cur \in Commit
  /\ lock \in Procs \union {NoProc}
  /\ task \in [Procs -> Task \union {Idle}]
  /\ gc \in {"idle", "removing"}
  /\ branch = NoFile \/ branch \in [tree : Tree, merged : SUBSET Commit]
  /\ source \in Tree
  /\ torn \in BOOLEAN /\ stale \in BOOLEAN

Init ==
  /\ wt = [here |-> FALSE, sound |-> FALSE, tree |-> Junk, sub |-> 0]
  /\ cur = NoFile
  /\ lock = NoProc
  /\ task = [p \in Procs |-> Idle]
  /\ gc = "idle"
  /\ branch = NoFile
  /\ source = Base.tree
  /\ made = NoFile
  /\ budget = [requests |-> 0, kills |-> 0, edits |-> 0]
  /\ torn = FALSE /\ stale = FALSE

dir == <<wt, cur>>
ghosts == <<torn, stale>>
dev == <<branch, source, made>>

-----------------------------------------------------------------------------
(* Requests and the lock of the directory.                                 *)

\* A patch between commits without submodules is computed in the repository
\* and takes the lock only.
Prepares(r) == r.op = "patch" => r.commit.sub # 0

Ask(p, r) ==
  /\ ~Active(p)
  /\ gc = "idle"
  /\ budget.requests < MaxRequests
  /\ budget' = [budget EXCEPT !.requests = @ + 1]
  /\ task' = [task EXCEPT ![p] = [pc |-> "lock", req |-> r, target |-> r.commit,
                                  retried |-> FALSE]]
  /\ made' = NoFile
  /\ UNCHANGED <<dir, lock, gc, branch, source, ghosts>>

Lock(p) ==
  /\ At(p, "lock")
  /\ lock = NoProc
  /\ lock' = p
  /\ Goto(p, IF Prepares(task[p].req) THEN "look" ELSE "use")
  /\ UNCHANGED <<dir, gc, dev, budget, ghosts>>

\* The lock is not obtained within its timeout of 600 seconds.
LockTimeout(p) ==
  /\ At(p, "lock")
  /\ lock \notin {NoProc, p}
  /\ task' = [task EXCEPT ![p] = Idle]
  /\ UNCHANGED <<dir, lock, gc, dev, budget, ghosts>>

Leave(p) == task' = [task EXCEPT ![p] = Idle] /\ lock' = NoProc

-----------------------------------------------------------------------------
(* prepareWorkTree.                                                        *)

\* The tree is used as it is when it is a registered, consistent work tree
\* and the record names the commit that is asked for.
PrepareWorkTree(p) ==
  /\ At(p, "look")
  /\ Goto(p, IF ~wt.here THEN "switch"
             ELSE IF ~wt.sound THEN "forget"
             ELSE IF cur = Target(p) THEN "use"
             ELSE IF cur # NoFile THEN "unrecord" ELSE "switch")
  /\ UNCHANGED <<dir, lock, gc, dev, budget, ghosts>>

\* An invalidated tree is removed, its record first.
ForgetInvalidTree(p) ==
  /\ At(p, "forget")
  /\ cur' = NoFile
  /\ Goto(p, "remove")
  /\ UNCHANGED <<wt, lock, gc, dev, budget, ghosts>>

RemoveInvalidTree(p) ==
  /\ At(p, "remove")
  /\ wt' = [wt EXCEPT !.here = FALSE, !.sound = FALSE, !.tree = Junk, !.sub = 0]
  /\ Goto(p, "switch")
  /\ UNCHANGED <<cur, lock, gc, dev, budget, ghosts>>

\* Mutant: the record stays until it is written anew.
RemoveRecordLater(p) ==
  /\ At(p, "unrecord")
  /\ Goto(p, "switch")
  /\ UNCHANGED <<dir, lock, gc, dev, budget, ghosts>>

\* The record of another commit is removed before the tree is touched.
RemoveRecord(p) ==
  /\ At(p, "unrecord")
  /\ cur' = NoFile
  /\ Goto(p, "switch")
  /\ UNCHANGED <<wt, lock, gc, dev, budget, ghosts>>

\* git worktree add, or git checkout --force; git reset --hard; git clean,
\* which removes the directories of submodules the commit does not have.
SwitchWorkTree(p) ==
  /\ At(p, "switch")
  /\ wt' = [here |-> TRUE, sound |-> TRUE, tree |-> Target(p).tree,
            sub |-> IF Target(p).sub = 0 THEN 0 ELSE wt.sub]
  /\ Goto(p, IF Target(p).sub = 0 THEN "record" ELSE "submodules")
  /\ UNCHANGED <<cur, lock, gc, dev, budget, ghosts>>

SwitchSubmodules(p) ==
  /\ At(p, "submodules")
  /\ wt' = [wt EXCEPT !.sub = Target(p).sub]
  /\ Goto(p, "record")
  /\ UNCHANGED <<cur, lock, gc, dev, budget, ghosts>>

RecordCommit(p) ==
  /\ At(p, "record")
  /\ cur' = Target(p)
  /\ torn' = FALSE /\ stale' = FALSE
  /\ Goto(p, "use")
  /\ UNCHANGED <<wt, lock, gc, dev, budget>>

-----------------------------------------------------------------------------
(* What a request does with the prepared tree, under the lock.             *)

\* writeArchive reads the files; WithWorkTree opens the repository; git diff
\* reads the commits and the submodules.
UseTree(p) ==
  /\ At(p, "use")
  /\ task[p].req.op \in {"archive", "patch", "handle"} /\ Target(p) = task[p].req.commit
  /\ Leave(p)
  /\ UNCHANGED <<dir, gc, dev, budget, ghosts>>

\* Mutant: the retry is not counted.
CommitsNeverPresent(p) ==
  /\ At(p, "use")
  /\ task[p].req.op = "patch" /\ Prepares(task[p].req)
  /\ Target(p) = task[p].req.commit
  /\ lock' = NoProc
  /\ task' = [task EXCEPT ![p].pc = "lock", ![p].target = task[p].req.from]
  /\ UNCHANGED <<dir, gc, dev, budget, ghosts>>

\* git diff does not find commits of a submodule: the tree is switched to the
\* commit the patch starts from and the patch is tried once more.
CommitsNotPresent(p) ==
  /\ At(p, "use")
  /\ task[p].req.op = "patch" /\ Prepares(task[p].req)
  /\ Target(p) = task[p].req.commit /\ ~task[p].retried
  /\ lock' = NoProc
  /\ task' = [task EXCEPT ![p].pc = "lock", ![p].retried = TRUE,
                          ![p].target = task[p].req.from]
  /\ UNCHANGED <<dir, gc, dev, budget, ghosts>>

SwitchedToFrom(p) ==
  /\ At(p, "use")
  /\ task[p].req.op = "patch" /\ Target(p) # task[p].req.commit
  /\ lock' = NoProc
  /\ task' = [task EXCEPT ![p].pc = "lock", ![p].target = task[p].req.commit]
  /\ UNCHANGED <<dir, gc, dev, budget, ghosts>>

-----------------------------------------------------------------------------
(* CreateDetachedMergeCommit: the virtual merge of a pull request.         *)

ForgetBeforeChange(p) ==
  /\ At(p, "use")
  /\ task[p].req.op \in {"merge", "service"}
  /\ cur' = NoFile
  /\ Goto(p, IF task[p].req.op = "merge" THEN "merge" ELSE "checkout")
  /\ UNCHANGED <<wt, lock, gc, dev, budget, ghosts>>

\* git merge by content: the side that differs from the ancestor wins.
ThreeWay(base, from, into) == IF from = base THEN into ELSE from
Conflict(base, from, into) == from # base /\ into # base /\ from # into
Conflicts(r) ==
  \/ \E x \in Paths : Conflict(Base.tree[x], r.from.tree[x], r.commit.tree[x])
  \/ Conflict(Base.sub, r.from.sub, r.commit.sub)
Merged(r) ==
  [tree |-> [x \in Paths |-> ThreeWay(Base.tree[x], r.from.tree[x], r.commit.tree[x])],
   sub  |-> ThreeWay(Base.sub, r.from.sub, r.commit.sub)]

\* git merge writes the files and leaves the submodules where they are.
CreateDetachedMergeCommit(p) ==
  /\ At(p, "merge")
  /\ LET r == task[p].req IN
       IF Conflicts(r)
       THEN /\ wt' = [wt EXCEPT !.tree = Junk]
            /\ Leave(p)
       ELSE /\ wt' = [wt EXCEPT !.tree = Merged(r).tree]
            /\ Goto(p, "recordMerge")
            /\ UNCHANGED lock
  /\ UNCHANGED <<cur, gc, dev, budget, ghosts>>

RecordMerge(p) ==
  /\ At(p, "recordMerge")
  /\ cur' = Merged(task[p].req)
  /\ stale' = (Merged(task[p].req).sub # task[p].req.commit.sub \/ stale)
  /\ Leave(p)
  /\ UNCHANGED <<wt, gc, dev, budget, torn>>

-----------------------------------------------------------------------------
(* SyncSourceWorktreeWithServiceBranch: dev mode commits the user's        *)
(* uncommitted files to a service branch and builds that commit.           *)

\* The branch is made of the commit, or the commit is merged into it with the
\* strategy "ours", which keeps the files of the branch.
PrepareServiceBranch(p) ==
  /\ At(p, "checkout")
  /\ LET c == task[p].req.commit IN
       branch' = IF branch = NoFile THEN [tree |-> c.tree, merged |-> {c}]
                 ELSE [branch EXCEPT !.merged = @ \union {c}]
  /\ wt' = [wt EXCEPT !.tree = branch'.tree]
  /\ Goto(p, "compare")
  /\ UNCHANGED <<cur, lock, gc, source, made, budget, ghosts>>

\* Mutant: what earlier runs committed of excluded paths stays.
UnrevertedIndex(r) == branch.tree

\* The index of the service work tree after the changes of excluded paths
\* are reverted to the commit.
RevertedIndex(r) ==
  [x \in Paths |-> IF x \in r.excluded THEN r.commit.tree[x] ELSE branch.tree[x]]
WithSource(index, r) ==
  [x \in Paths |-> IF x \in r.excluded THEN index[x] ELSE source[x]]

Made(p, tree, of) == [tree |-> tree, of |-> of, req |-> task[p].req]

\* git add --dry-run: nothing reverted and nothing new means the branch is
\* the answer.
CheckNewChanges(p) ==
  /\ At(p, "compare")
  /\ LET r == task[p].req
         index == RevertedIndex(r)
     IN  IF index = branch.tree /\ WithSource(index, r) = index
         THEN /\ made' = Made(p, branch.tree, source)
              /\ wt' = wt
              /\ Leave(p)
         ELSE /\ made' = made
              /\ wt' = [wt EXCEPT !.tree = index]
              /\ Goto(p, "commit")
              /\ UNCHANGED lock
  /\ UNCHANGED <<cur, gc, branch, source, budget, ghosts>>

\* git add, which reads the files again, and git commit, which fails when
\* there is nothing to commit.
CommitNewChanges(p) ==
  /\ At(p, "commit")
  /\ LET r == task[p].req
         index == WithSource(RevertedIndex(r), r)
     IN  IF index = branch.tree
         THEN UNCHANGED <<branch, made>>
         ELSE /\ branch' = [branch EXCEPT !.tree = index]
              /\ made' = Made(p, index, source)
  /\ wt' = [wt EXCEPT !.tree = branch'.tree]
  /\ Leave(p)
  /\ UNCHANGED <<cur, gc, source, budget, ghosts>>

-----------------------------------------------------------------------------
(* Faults and the other users of the directory.                            *)

\* A git command fails: the request fails and its locks are released; the
\* files it was about to write may be written in part.
GitFails(p) ==
  /\ task[p].pc \in {"switch", "submodules", "merge", "checkout"}
  /\ wt' = [wt EXCEPT !.here = TRUE,
                      !.tree = IF At(p, "submodules") THEN @ ELSE Junk,
                      !.sub = IF At(p, "submodules") THEN Junk ELSE @]
  /\ Leave(p)
  /\ UNCHANGED <<cur, gc, dev, budget, ghosts>>

\* The process is killed, before or in the middle of what it does next.
Kill(p) ==
  /\ Active(p)
  /\ budget.kills < MaxKills
  /\ budget' = [budget EXCEPT !.kills = @ + 1]
  /\ task' = [task EXCEPT ![p] = Idle]
  /\ lock' = IF lock = p THEN NoProc ELSE lock
  /\ \/ UNCHANGED dir
     \/ /\ task[p].pc \in {"switch", "remove", "merge", "checkout", "commit"}
        /\ \E sound \in {wt.sound, FALSE} :
             wt' = [wt EXCEPT !.here = TRUE, !.sound = sound, !.tree = Junk]
        /\ cur' = cur
     \/ /\ At(p, "submodules")
        /\ wt' = [wt EXCEPT !.sub = Junk]
        /\ cur' = cur
     \/ /\ task[p].pc \in {"record", "recordMerge"}
        /\ cur' = Junk
        /\ wt' = wt
  /\ UNCHANGED <<gc, dev, ghosts>>

\* The registration of the work tree is lost: a git worktree prune, or a
\* repository that was cloned anew.
Unregister ==
  /\ lock = NoProc
  /\ wt.here /\ wt.sound
  /\ wt' = [wt EXCEPT !.sound = FALSE]
  /\ UNCHANGED <<cur, lock, task, gc, dev, budget, ghosts>>

\* The collector removes the directory, file by file and in no order.
CollectBegin ==
  /\ gc = "idle" /\ wt.here
  /\ \A p \in Procs : ~Active(p)
  /\ gc' = "removing"
  /\ torn' = TRUE
  /\ wt' = [wt EXCEPT !.tree = Junk, !.sub = IF @ = 0 THEN 0 ELSE Junk]
  /\ cur' \in {cur, NoFile}
  /\ UNCHANGED <<lock, task, dev, budget, stale>>

CollectEnd ==
  /\ gc = "removing"
  /\ gc' = "idle"
  /\ torn' = FALSE
  /\ wt' = [here |-> FALSE, sound |-> FALSE, tree |-> Junk, sub |-> 0]
  /\ cur' = NoFile
  /\ UNCHANGED <<lock, task, dev, budget, stale>>

CollectKilled ==
  /\ gc = "removing"
  /\ budget.kills < MaxKills
  /\ budget' = [budget EXCEPT !.kills = @ + 1]
  /\ gc' = "idle"
  /\ UNCHANGED <<dir, lock, task, dev, ghosts>>

Edit ==
  /\ budget.edits < MaxEdits
  /\ budget' = [budget EXCEPT !.edits = @ + 1]
  /\ \E x \in Paths, v \in Values : source' = [source EXCEPT ![x] = v]
  /\ UNCHANGED <<dir, lock, task, gc, branch, made, ghosts>>

-----------------------------------------------------------------------------
Step(p) ==
  \/ Lock(p) \/ LockTimeout(p)
  \/ PrepareWorkTree(p) \/ ForgetInvalidTree(p) \/ RemoveInvalidTree(p)
  \/ RemoveRecord(p) \/ SwitchWorkTree(p) \/ SwitchSubmodules(p) \/ RecordCommit(p)
  \/ UseTree(p) \/ CommitsNotPresent(p) \/ SwitchedToFrom(p)
  \/ ForgetBeforeChange(p) \/ CreateDetachedMergeCommit(p) \/ RecordMerge(p)
  \/ PrepareServiceBranch(p) \/ CheckNewChanges(p) \/ CommitNewChanges(p)
  \/ GitFails(p)

Next ==
  \/ \E p \in Procs : Step(p) \/ Kill(p) \/ \E r \in Requests : Ask(p, r)
  \/ Unregister \/ CollectBegin \/ CollectEnd \/ CollectKilled \/ Edit

Fairness ==
  /\ \A p \in Procs : WF_vars(Step(p))
  /\ WF_vars(CollectEnd)

Spec == Init /\ [][Next]_vars /\ Fairness

-----------------------------------------------------------------------------
(* Properties.                                                             *)

\* Whoever uses the prepared tree finds the files of the commit it asked for,
\* whichever processes were killed before it, at whichever step (work_tree.go,
\* the record is removed first and written last).  The exception is a
\* collector killed in the middle of the directory: it may leave the record
\* beside half of the files.  It also finds the submodules of that commit,
\* unless the tree was left by a merge that moved them (merge.go records the
\* merged commit without updating submodules).
PreparedIsCommit ==
  \A p \in Procs :
    At(p, "use") /\ Prepares(task[p].req) /\ ~torn =>
      /\ wt.tree = Target(p).tree
      /\ ~stale => wt.sub = Target(p).sub

\* The commit that dev mode builds has the user's files where they are not
\* excluded and the files of HEAD where they are, whatever earlier runs with
\* other exclusions left on the service branch (service_branch.go).
ServiceCommitIsSource ==
  made # NoFile =>
    \A x \in Paths :
      made.tree[x] = IF x \in made.req.excluded THEN made.req.commit.tree[x] ELSE made.of[x]

\* Every request ends: the lock of a process that is killed or whose command
\* fails is free for the next one.
EveryRequestEnds == \A p \in Procs : Active(p) ~> ~Active(p)
=============================================================================
