------------------------------- MODULE Stages -------------------------------
(***************************************************************************)
(* Stages of a repo, their tags, and the selection of a stage for a task.  *)
(*                                                                         *)
(* A stage is published under the tag DIGEST-TIMESTAMP.  Its labels record *)
(* the commit it was built from and the stage it was built upon, of which  *)
(* only the timestamp matters here.                                        *)
(*                                                                         *)
(* The properties are stated with a ledger of publications, a history that *)
(* no builder sees: by whom, how and in which order stages came.           *)
(***************************************************************************)
EXTENDS Integers, FiniteSets

CONSTANTS
    Tasks,               \* stages being built, one per onImageStage call
    Digests,
    Commits,             \* git commits, recorded in the labels of a stage
    DigestOf, CommitOf,  \* what each task builds, and from which commit
    ParentTs,            \* creation time of the stage the task builds upon
    Ancestors,           \* Ancestors[c]: commits whose stages c may reuse
    NoDigest,            \* not a digest
    NoTask               \* not a task

Stage == [digest : Digests, ts : Nat, commit : Commits, parent : Nat]
Tag == [digest : Digests, ts : Nat]

ASSUME TaskAssumption ==
    /\ DigestOf \in [Tasks -> Digests]
    /\ CommitOf \in [Tasks -> Commits]
    /\ ParentTs \in [Tasks -> Nat]
    /\ Ancestors \in [Commits -> SUBSET Commits]
    /\ \A c \in Commits : c \in Ancestors[c]
    /\ NoDigest \notin Digests
    /\ NoTask \notin Tasks

TagOf(s) == [digest |-> s.digest, ts |-> s.ts]
TagsOf(stages) == {TagOf(s) : s \in stages}

\* The task has no stage yet.
NoStage == [digest |-> NoDigest, ts |-> 0, commit |-> NoDigest, parent |-> 0]

\* Tags of the task's digest that are not older than the parent stage.
GetStagesIDsByDigest(t, tags) ==
    {g \in tags : g.digest = DigestOf[t] /\ ParentTs[t] <= g.ts}

\* Descriptions of the stages that are listed in tags and match the task.
StageDescSet(t, stages, tags) ==
    {s \in stages : TagOf(s) \in GetStagesIDsByDigest(t, tags)}

\* Stages built from a commit the task may reuse (all, for a stage that does
\* not depend on git).
Suitable(t, stages) == {s \in stages : s.commit \in Ancestors[CommitOf[t]]}

\* What SelectSuitableStageDesc may return: an oldest suitable stage.
SelectSuitableStageDesc(t, stages) ==
    {s \in Suitable(t, stages) : \A r \in Suitable(t, stages) : s.ts <= r.ts}

\* What a lookup selects when it sees all the stages of the repo.
Selected(t, stages) ==
    SelectSuitableStageDesc(t, StageDescSet(t, stages, TagsOf(stages)))

\* Stages of the repo that the task could be built from.
Usable(t, stages) == Suitable(t, StageDescSet(t, stages, TagsOf(stages)))

\* A push under a tag replaces what the tag named before.
Push(stages, s) == {r \in stages : TagOf(r) # TagOf(s)} \cup {s}

-----------------------------------------------------------------------------
(* The ledger.                                                             *)

\* A builder that "looked" was shown the repo as it was after it got the lock
\* of the digest; one that is "blind" was not.  A stage is "recopied" when it
\* is in the repo already.
Entry == [stage : Stage, by : Tasks \cup {NoTask}, at : Nat,
          how : {"start", "looked", "blind", "copied", "recopied"}]

\* Stage s came after the image that r's tag named.
CameAfter(ledger, s, r) ==
    \E e, f \in ledger :
        /\ e.stage = s /\ e.how # "recopied"
        /\ TagOf(f.stage) = TagOf(r)
        /\ f.at < e.at

\* The task brought the stage without a look at the repo.
BroughtUnseen(ledger, t, s) ==
    \E e \in ledger : /\ e.stage = s /\ e.by = t
                      /\ e.how \in {"blind", "copied", "recopied"}
=============================================================================
