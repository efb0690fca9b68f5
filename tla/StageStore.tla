----------------------------- MODULE StageStore -----------------------------
(***************************************************************************)
(* What the build promises of a repo shared by any number of builders: a   *)
(* builder is given, in one step, a stage that suits it, and any older one *)
(* that suits it as well came later; or it adds a stage, because there is  *)
(* none.  It may add a twin only unseen: blind, or copied from elsewhere.  *)
(* Nothing is said of locks, caches, queries or clocks.                    *)
(***************************************************************************)
EXTENDS Stages

CONSTANT Published   \* stages in the repo at the start

VARIABLES
    repo,            \* stages in the repo
    used,            \* used[t]: the stage given to the task
    ledger           \* history: how stages came

storeVars == <<repo, used, ledger>>

StoreInit ==
    /\ repo = Published
    /\ used = [t \in Tasks |-> NoStage]
    /\ ledger = [stage : Published, by : {NoTask}, at : {0}, how : {"start"}]

\* The task is given a stage that exists.
Reuse(t) ==
    /\ used[t] = NoStage
    /\ \E s \in Usable(t, repo) :
          /\ \A r \in Usable(t, repo) \ {s} :
                s.ts < r.ts \/ CameAfter(ledger, r, s)
          /\ used' = [used EXCEPT ![t] = s]
    /\ UNCHANGED <<repo, ledger>>

\* The task brings a stage, and learns that it did unless it failed meanwhile.
\* No stage was there that it could have used, if it looked.
Bring(t) ==
    /\ used[t] = NoStage
    /\ \E e \in ledger' \ ledger :
          /\ e.by = t
          /\ e.stage.digest = DigestOf[t]
          /\ e.how \in {"looked", "blind"}
                => e.stage.commit = CommitOf[t] /\ e.stage.parent = ParentTs[t]
          /\ e.how = "looked" => Usable(t, repo) = {}
          /\ e.how = "recopied" => e.stage \in repo
          /\ e.how # "start"
          /\ \A f \in ledger : f.at < e.at
          /\ ledger' = ledger \cup {e}
          /\ repo' = Push(repo, e.stage)
          /\ used' \in {used, [used EXCEPT ![t] = e.stage]}

StoreNext == \E t \in Tasks : Reuse(t) \/ Bring(t)

StoreSpec == StoreInit /\ [][StoreNext]_storeVars
=============================================================================
