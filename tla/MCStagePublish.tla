--------------------------- MODULE MCStagePublish ---------------------------
(***************************************************************************)
(* Instances of StagePublish.                                              *)
(***************************************************************************)
EXTENDS StagePublish, TLC

CONSTANTS p1, p2, t1, t2, t3, t4, d1, d2, c1, c2, c3

\* Where tasks run and what they build: two images of p1 have one digest, and
\* the image of another one shares the queries of p1 or p2.
TwoTasksInP1 == t1 :> p1 @@ t2 :> p1 @@ t3 :> p2 @@ t4 :> p2
ThreeTasksInP1 == t1 :> p1 @@ t2 :> p1 @@ t3 :> p2 @@ t4 :> p1
TwoDigests == t1 :> d1 @@ t2 :> d1 @@ t3 :> d1 @@ t4 :> d2

\* A stage that depends on git: branches c2 and c3 grow from c1.
GitAncestors == c1 :> {c1} @@ c2 :> {c1, c2} @@ c3 :> {c1, c3}
GitCommits == t1 :> c1 @@ t2 :> c2 @@ t3 :> c3 @@ t4 :> c3

\* A stage that does not.
AnyCommit == [c \in Commits |-> Commits]
OneCommit == [t \in Tasks |-> c1]

\* An old stage of c1, which only t2 may reuse: its parent is old enough.
OldStage == {[digest |-> d1, ts |-> 1, commit |-> c1, parent |-> 0]}
ParentsDiffer == t1 :> 2 @@ t2 :> 1 @@ t3 :> 2 @@ t4 :> 2
NoStages == {}
NoParents == [t \in Tasks |-> 0]

\* Stages of d1 in secondary storages: none; one that only p1 has.
NothingSecondary == [p \in Procs |-> {}]
LaterStage == {[digest |-> d1, ts |-> 2, commit |-> c1, parent |-> 0]}
SecondaryOfP1 == p1 :> LaterStage @@ p2 :> {}

NoSkew == [p \in Procs |-> 0]
P1Ahead == p1 :> 2 @@ p2 :> 0

SyncOn == [p \in Procs |-> TRUE]
SyncOffInP1 == [p \in Procs |-> p # p1]
=============================================================================
