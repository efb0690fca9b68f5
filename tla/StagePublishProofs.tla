------------------------- MODULE StagePublishProofs -------------------------
(***************************************************************************)
(* Proofs about StagePublish, for every instance of its constants: its     *)
(* types, that one stage is published and everyone reuses it, that the     *)
(* builders implement the abstract store, and what publications change,    *)
(* each with the exceptions that the property names.                       *)
(***************************************************************************)
EXTENDS StagePublish, TLAPS

-----------------------------------------------------------------------------
(* The inductive invariant.                                                *)

\* Whoever is between LockStage and Unlock holds the lock of its digest.
LockInv == \A t \in Tasks : pc[t] \in Locked => lock[DigestOf[t]] = t

\* A query is waited for by tasks of its own process only.
FlightInv ==
    \A p \in Procs : \A t \in flight[p].waiters :
        ProcOf[t] = p /\ pc[t] \in Waiting

\* A task has looked only after it got the lock.
Looking == {"recheck", "recheckWait", "recheckGot", "store", "unlock"}

LookedInv ==
    \A t \in looked : /\ pc[t] \in Looking \cup Ended
                      /\ PublishTagCacheSync[ProcOf[t]]

\* The list has all the stages of the task's digest.
Complete(t, tags) ==
    \A s \in repo : s.digest = DigestOf[t] => TagOf(s) \in tags

\* The list taken for a task that has looked is complete, and what it is going
\* to publish cannot be had from the repo.
Fresh(t) ==
    /\ pc[t] \in {"recheck", "recheckWait"} /\ flight[ProcOf[t]].tags # NoTags
          => Complete(t, flight[ProcOf[t]].tags)
    /\ pc[t] = "recheckGot" => Complete(t, answer[t])
    /\ pc[t] = "store" => Usable(t, repo) = {}

FreshInv == \A t \in looked : Fresh(t)

\* Publications come from the past.  A copy is older than every new stage, and
\* the timestamp of a new stage was read from the clock of its builder before.
LedgerInv ==
    /\ Epoch <= now
    /\ \A f \in ledger :
          /\ f.at < now
          /\ f.how \in {"start", "copied", "recopied"} => f.stage.ts < Epoch
          /\ f.how \in {"looked", "blind"} =>
                /\ f.by \in Tasks
                /\ f.stage.ts <= f.at + Skew[ProcOf[f.by]]

\* Every stage was published, and a tag names one stage.
RepoLogged ==
    \A s \in repo : \E f \in ledger : f.stage = s /\ f.how # "recopied"

UniqueTags == \A s, r \in repo : TagOf(s) = TagOf(r) => s = r

\* What a task is going to publish was named under the lock: on its own clock it
\* is younger than all that was published of the digest.
Named(t) ==
    /\ Epoch <= newTs[t] /\ newTs[t] <= now + Skew[ProcOf[t]]
    /\ \A f \in ledger : f.stage.digest = DigestOf[t]
                            => f.at + Skew[ProcOf[t]] < newTs[t]

NamedInv == \A t \in Tasks : pc[t] = "store" => Named(t)

\* A list of tags, however old, lacks no stage that is older than one it has,
\* unless that came out of turn.
Snapshot(tags) ==
    tags # NoTags =>
        /\ tags \subseteq TagsOf(repo)
        /\ \A r, u \in repo :
              /\ r.digest = u.digest /\ r.ts <= u.ts
              /\ TagOf(r) \notin tags /\ TagOf(u) \in tags
              => OutOfTurn(ledger, r, u)

ListsInv ==
    /\ \A p \in Procs : Snapshot(cachedTags[p]) /\ Snapshot(flight[p].tags)
    /\ \A t \in Tasks : Snapshot(answer[t])

\* A stage of the digest is set, and only at the end of a task.
UsedInv ==
    \A t \in Tasks : used[t] # NoStage =>
        /\ pc[t] \in Ended \cup {"unlock"}
        /\ used[t].digest = DigestOf[t]

IInv ==
    /\ TypeOK
    /\ LockInv
    /\ FlightInv
    /\ LookedInv
    /\ FreshInv
    /\ LedgerInv
    /\ RepoLogged
    /\ UniqueTags
    /\ NamedInv
    /\ ListsInv
    /\ UsedInv
    /\ PublishedOnce
    /\ EveryoneReuses

-----------------------------------------------------------------------------
(* Types.                                                                  *)

LEMMA TagFacts ==
    /\ \A s \in Stage : TagOf(s) \in Tag
    /\ \A S \in SUBSET Stage : TagsOf(S) \in SUBSET Tag
    /\ NoStage \notin Stage
    /\ \A g \in NoTags : g.digest \notin Digests
  BY TaskAssumption DEF Stage, Tag, TagOf, TagsOf, NoStage, NoTags

LEMMA SelectedInStages ==
    ASSUME NEW t \in Tasks, NEW S, NEW tags
    PROVE  /\ SelectSuitableStageDesc(t, S) \subseteq S
           /\ StageDescSet(t, S, tags) \subseteq S
  BY DEF SelectSuitableStageDesc, Suitable, StageDescSet

LEMMA PublishType ==
    ASSUME TypeOK, NEW t \in Tasks, NEW s \in Stage,
           NEW how \in {"looked", "blind", "copied", "recopied"},
           Publish(t, s, how)
    PROVE  /\ repo' \in SUBSET Stage
           /\ now' \in Nat
           /\ ledger' \subseteq Entry
           /\ looked' \subseteq Tasks
<1>1. [stage |-> s, by |-> t, at |-> now, how |-> how] \in Entry
  BY DEF Entry, TypeOK
<1> QED BY <1>1 DEF Publish, Push, TypeOK

LEMMA StoreType ==
    ASSUME TypeOK, NEW t \in Tasks, Store(t)
    PROVE  /\ repo' \in SUBSET Stage
           /\ now' \in Nat
           /\ ledger' \subseteq Entry
           /\ looked' \subseteq Tasks
           /\ NewStage(t) \in Stage
<1>1. NewStage(t) \in Stage
  BY TaskAssumption DEF NewStage, Stage, TypeOK
<1> QED BY <1>1, PublishType DEF Store

LEMMA CopyType ==
    ASSUME TypeOK, NEW t \in Tasks,
           NEW s \in SelectSuitableStageDesc(t, SecondaryStages(t)), Copy(t, s)
    PROVE  /\ repo' \in SUBSET Stage
           /\ now' \in Nat
           /\ ledger' \subseteq Entry
           /\ looked' \subseteq Tasks
           /\ s \in Stage
<1>1. s \in Stage
  BY SelectedInStages, ProcAssumption DEF SecondaryStages, proc
<1> QED BY <1>1, PublishType DEF Copy

LEMMA ConcludeType ==
    ASSUME TypeOK, NEW t \in Tasks, NEW S \in SUBSET Stage, Conclude(t, S)
    PROVE  /\ pc' \in [Tasks -> Labels]
           /\ used' \in [Tasks -> Stage \cup {NoStage}]
           /\ mutex' \in [Procs -> [Digests -> Tasks \cup {NoTask}]]
<1> USE TaskAssumption, ProcAssumption DEF TypeOK, proc
<1>1. pc' \in [Tasks -> Labels]
  BY DEF Conclude, Goto, Labels, Ended
<1>2. used' \in [Tasks -> Stage \cup {NoStage}]
  <2>1. ASSUME NEW s \in SelectSuitableStageDesc(t, S),
               used' = [used EXCEPT ![t] = s]
        PROVE  used' \in [Tasks -> Stage \cup {NoStage}]
    <3>1. s \in Stage
      BY SelectedInStages
    <3> QED BY <2>1, <3>1
  <2>2. CASE used' = used
    BY <2>2
  <2> QED BY <2>1, <2>2 DEF Conclude
<1>3. mutex' \in [Procs -> [Digests -> Tasks \cup {NoTask}]]
  <2>1. CASE ReleaseMutex(t)
    BY <2>1 DEF ReleaseMutex
  <2>2. CASE mutex' = mutex
    BY <2>2
  <2> QED BY <2>1, <2>2 DEF Conclude
<1> QED BY <1>1, <1>2, <1>3

LEMMA TaskStepType ==
    ASSUME TypeOK, NEW t \in Tasks, TaskStep(t)
    PROVE  TypeOK'
<1> USE TaskAssumption, ProcAssumption, ClockAssumption, TagFacts DEF history
<1>1. CASE Begin(t)
  BY <1>1 DEF Begin, TypeOK, Goto, Labels, proc
<1>2. CASE LookupCached(t)
  <2>1. CASE StageDescSet(t, repo, cachedTags[proc(t)]) = {}
    BY <1>2, <2>1 DEF LookupCached, TypeOK, Goto, Labels, proc
  <2>2. CASE StageDescSet(t, repo, cachedTags[proc(t)]) # {}
    <3>1. Conclude(t, StageDescSet(t, repo, cachedTags[proc(t)]))
      BY <1>2, <2>2 DEF LookupCached
    <3> QED
      BY <1>2, <3>1, ConcludeType, SelectedInStages DEF LookupCached, TypeOK
  <2> QED BY <2>1, <2>2
<1>3. CASE Query(t)
  <2>1. pc' \in [Tasks -> Labels]
    BY <1>3 DEF Query, TypeOK, Goto, Labels, Waiting
  <2>2. flight' \in [Procs -> [waiters : SUBSET Tasks,
                               tags : (SUBSET Tag) \cup {NoTags}]]
    <3>1. /\ flight[ProcOf[t]].waiters \cup {t} \in SUBSET Tasks
          /\ flight[ProcOf[t]].tags \in (SUBSET Tag) \cup {NoTags}
      BY DEF TypeOK
    <3> QED BY <1>3, <3>1 DEF Query, TypeOK, proc
  <2> QED BY <1>3, <2>1, <2>2 DEF Query, TypeOK
<1>4. CASE ReceiveLookup(t)
  <2>1. cachedTags' \in [Procs -> (SUBSET Tag) \cup {NoTags}]
    BY <1>4 DEF ReceiveLookup, TypeOK, proc
  <2>2. CASE StageDescSet(t, repo, answer[t]) = {} /\ pc[t] = "lookupGot"
    BY <1>4, <2>1, <2>2 DEF ReceiveLookup, TypeOK, Goto, Labels
  <2>3. CASE ~(StageDescSet(t, repo, answer[t]) = {} /\ pc[t] = "lookupGot")
    <3>1. Conclude(t, StageDescSet(t, repo, answer[t]))
      BY <1>4, <2>3 DEF ReceiveLookup
    <3> QED
      BY <1>4, <2>1, <3>1, ConcludeType, SelectedInStages
      DEF ReceiveLookup, TypeOK
  <2> QED BY <2>2, <2>3
<1>5. CASE ScanSecondary(t)
  BY <1>5 DEF ScanSecondary, TypeOK, Goto, Labels
<1>6. CASE Build(t)
  BY <1>6 DEF Build, TypeOK, Goto, Labels
<1>7. CASE LockStage(t)
  BY <1>7 DEF LockStage, TypeOK, Goto, Labels, Locked
<1>8. CASE CopyFromSecondary(t)
  <2>1. PICK s \in SelectSuitableStageDesc(t, SecondaryStages(t)) :
            Copy(t, s) /\ used' = [used EXCEPT ![t] = s]
    BY <1>8 DEF CopyFromSecondary
  <2> QED
    BY <1>8, <2>1, CopyType
    DEF CopyFromSecondary, TypeOK, Goto, Labels, Locked
<1>9. CASE SkipRecheck(t)
  BY <1>9
  DEF SkipRecheck, GenerateStageDescCreationTs, TypeOK, Goto, Labels, Locked,
      proc
<1>10. CASE Recheck(t)
  <2>1. cachedTags' \in [Procs -> (SUBSET Tag) \cup {NoTags}]
    BY <1>10 DEF Recheck, TypeOK, proc
  <2>2. /\ pc' \in [Tasks -> Labels]
        /\ newTs' \in [Tasks -> Nat]
    <3>1. /\ \/ Goto(t, "unlock")
             \/ Goto(t, "store")
          /\ \/ UNCHANGED newTs
             \/ GenerateStageDescCreationTs(t)
      BY <1>10 DEF Recheck
    <3>2. pc' \in [Tasks -> Labels]
      BY <3>1 DEF TypeOK, Goto, Labels, Locked
    <3>3. ASSUME GenerateStageDescCreationTs(t)
          PROVE  newTs' \in [Tasks -> Nat]
      BY <3>3 DEF GenerateStageDescCreationTs, TypeOK, proc
    <3> QED BY <3>1, <3>2, <3>3 DEF TypeOK
  <2>3. used' \in [Tasks -> Stage \cup {NoStage}]
    <3> DEFINE found == StageDescSet(t, repo, answer[t])
    <3>1. CASE used' = used
      BY <3>1 DEF TypeOK
    <3>2. ASSUME NEW s \in SelectSuitableStageDesc(t, found),
                 used' = [used EXCEPT ![t] = s]
          PROVE  used' \in [Tasks -> Stage \cup {NoStage}]
      <4>1. s \in Stage
        BY SelectedInStages DEF TypeOK
      <4> QED BY <3>2, <4>1 DEF TypeOK
    <3> QED BY <1>10, <3>1, <3>2 DEF Recheck
  <2> QED BY <1>10, <2>1, <2>2, <2>3 DEF Recheck, TypeOK
<1>11. CASE StoreImage(t)
  BY <1>11, StoreType DEF StoreImage, TypeOK, Goto, Labels, Locked
<1>12. CASE Unlock(t)
  BY <1>12
  DEF Unlock, ReleaseMutex, TypeOK, Goto, Labels, Ended, proc
<1> QED
  BY <1>1, <1>2, <1>3, <1>4, <1>5, <1>6, <1>7, <1>8, <1>9, <1>10, <1>11,
     <1>12
  DEF TaskStep

LEMMA OtherStepType ==
    ASSUME TypeOK, Next, \A t \in Tasks : ~TaskStep(t)
    PROVE  TypeOK'
<1> USE TaskAssumption, ProcAssumption, ClockAssumption, TagFacts DEF history
<1>1. ASSUME NEW t \in Tasks, BuildFails(t)
      PROVE  TypeOK'
  BY <1>1 DEF BuildFails, ReleaseMutex, TypeOK, Goto, Labels, Ended, proc
<1>2. ASSUME NEW t \in Tasks, LockFails(t)
      PROVE  TypeOK'
  BY <1>2 DEF LockFails, ReleaseMutex, TypeOK, Goto, Labels, Ended, proc
<1>3. ASSUME NEW t \in Tasks, StoreFails(t)
      PROVE  TypeOK'
  <2>1. /\ repo' \in SUBSET Stage
        /\ now' \in Nat
        /\ ledger' \subseteq Entry
        /\ looked' \subseteq Tasks
    BY <1>3, StoreType, CopyType DEF StoreFails, TypeOK
  <2> QED
    BY <1>3, <2>1
    DEF StoreFails, ReleaseMutex, TypeOK, Goto, Labels, Ended, proc
<1>4. ASSUME NEW p \in Procs, ListTags(p)
      PROVE  TypeOK'
  BY <1>4 DEF ListTags, TypeOK
<1>5. ASSUME NEW p \in Procs, Deliver(p)
      PROVE  TypeOK'
  <2>1. pc' \in [Tasks -> Labels]
    BY <1>5 DEF Deliver, TypeOK, Labels, Got
  <2>2. answer' \in [Tasks -> (SUBSET Tag) \cup {NoTags}]
    BY <1>5 DEF Deliver, TypeOK
  <2>3. flight' \in [Procs -> [waiters : SUBSET Tasks,
                               tags : (SUBSET Tag) \cup {NoTags}]]
    BY <1>5 DEF Deliver, TypeOK, NoFlight
  <2> QED BY <1>5, <2>1, <2>2, <2>3 DEF Deliver, TypeOK
<1>6. ASSUME NEW p \in Procs, QueryFails(p)
      PROVE  TypeOK'
  <2>1. pc' \in [Tasks -> Labels]
    BY <1>6 DEF QueryFails, TypeOK, Labels, Ended
  <2>2. flight' \in [Procs -> [waiters : SUBSET Tasks,
                               tags : (SUBSET Tag) \cup {NoTags}]]
    BY <1>6 DEF QueryFails, TypeOK, NoFlight
  <2>3. /\ lock' \in [Digests -> Tasks \cup {NoTask}]
        /\ mutex' \in [Procs -> [Digests -> Tasks \cup {NoTask}]]
    BY <1>6 DEF QueryFails, TypeOK
  <2> QED BY <1>6, <2>1, <2>2, <2>3 DEF QueryFails, TypeOK
<1>7. ASSUME NEW p \in Procs, Crash(p)
      PROVE  TypeOK'
  <2>1. pc' \in [Tasks -> Labels]
    BY <1>7 DEF Crash, TypeOK, Labels, Ended
  <2>2. flight' \in [Procs -> [waiters : SUBSET Tasks,
                               tags : (SUBSET Tag) \cup {NoTags}]]
    BY <1>7 DEF Crash, TypeOK, NoFlight
  <2> QED BY <1>7, <2>1, <2>2 DEF Crash, TypeOK
<1>8. ASSUME NEW d \in Digests, LeaseExpires(d)
      PROVE  TypeOK'
  BY <1>8 DEF LeaseExpires, TypeOK
<1>9. CASE Finished
  BY <1>9 DEF Finished, vars, history, TypeOK
<1> QED
  BY <1>1, <1>2, <1>3, <1>4, <1>5, <1>6, <1>7, <1>8, <1>9
  DEF Next, TaskFails, ProcStep

LEMMA InitType == Init => TypeOK
<1> SUFFICES ASSUME Init
             PROVE  TypeOK
  OBVIOUS
<1>1. ledger \subseteq Entry
  BY ClockAssumption DEF Init, Entry
<1> QED
  BY <1>1, TaskAssumption, ProcAssumption, ClockAssumption
  DEF Init, TypeOK, Labels, NoFlight

(* Every variable keeps its type, whatever the constants: in particular a  *)
(* failed or shared query never leaves a task or a lock in an undefined    *)
(* state (BuildPhase.onImageStage and everything it calls).                *)
THEOREM TypeCorrect == Spec => []TypeOK
<1>1. TypeOK /\ [Next]_vars => TypeOK'
  <2>1. TypeOK /\ UNCHANGED vars => TypeOK'
    BY DEF vars, history, TypeOK
  <2> QED BY <2>1, TaskStepType, OtherStepType
<1> QED BY <1>1, InitType, PTL DEF Spec

LEMMA StepType == TypeOK /\ [Next]_vars => TypeOK'
<1>1. TypeOK /\ UNCHANGED vars => TypeOK'
  BY DEF vars, history, TypeOK
<1> QED BY <1>1, TaskStepType, OtherStepType

-----------------------------------------------------------------------------
(* Selection.                                                              *)

\* The stage suits the task.
Match(t, s) ==
    /\ s.digest = DigestOf[t]
    /\ ParentTs[t] <= s.ts
    /\ s.commit \in Ancestors[CommitOf[t]]

LEMMA FoundChar ==
    ASSUME NEW t \in Tasks, NEW S, NEW tags, NEW x
    PROVE  x \in Suitable(t, StageDescSet(t, S, tags))
               <=> x \in S /\ TagOf(x) \in tags /\ Match(t, x)
  BY DEF Suitable, StageDescSet, GetStagesIDsByDigest, TagOf, Match

LEMMA SelectChar ==
    ASSUME NEW t \in Tasks, NEW S, NEW tags, NEW x
    PROVE  x \in SelectSuitableStageDesc(t, StageDescSet(t, S, tags))
               <=> /\ x \in S /\ TagOf(x) \in tags /\ Match(t, x)
                   /\ \A r \in S : (TagOf(r) \in tags /\ Match(t, r))
                                       => x.ts <= r.ts
  BY FoundChar DEF SelectSuitableStageDesc

LEMMA SelectedChar ==
    ASSUME NEW t \in Tasks, NEW S, NEW x
    PROVE  x \in Selected(t, S)
               <=> /\ x \in S /\ Match(t, x)
                   /\ \A r \in S : Match(t, r) => x.ts <= r.ts
<1>1. \A r \in S : TagOf(r) \in TagsOf(S)
  BY DEF TagsOf
<1> QED BY <1>1, SelectChar DEF Selected

LEMMA UsableChar ==
    ASSUME NEW t \in Tasks, NEW S, NEW x
    PROVE  x \in Usable(t, S) <=> x \in S /\ Match(t, x)
<1>1. \A r \in S : TagOf(r) \in TagsOf(S)
  BY DEF TagsOf
<1> QED BY <1>1, FoundChar DEF Usable

LEMMA TagEqual ==
    ASSUME NEW s, NEW r
    PROVE  TagOf(s) = TagOf(r) <=> s.digest = r.digest /\ s.ts = r.ts
  BY DEF TagOf

\* What the ledger shows, it shows for ever.
LEMMA LedgerGrows ==
    ASSUME NEW L, NEW M, L \subseteq M, NEW s, NEW r, NEW t
    PROVE  /\ OutOfTurn(L, s, r) => OutOfTurn(M, s, r)
           /\ CameAfter(L, s, r) => CameAfter(M, s, r)
           /\ BroughtUnseen(L, t, s) => BroughtUnseen(M, t, s)
<1>1. OutOfTurn(L, s, r) => OutOfTurn(M, s, r)
  BY DEF OutOfTurn
<1>2. CameAfter(L, s, r) => CameAfter(M, s, r)
  BY DEF CameAfter
<1>3. BroughtUnseen(L, t, s) => BroughtUnseen(M, t, s)
  BY DEF BroughtUnseen
<1> QED BY <1>1, <1>2, <1>3

\* Both go by the tag of the stage that was there before.
LEMMA SameTag ==
    ASSUME NEW L, NEW s, NEW r, NEW u, TagOf(r) = TagOf(u)
    PROVE  /\ OutOfTurn(L, s, r) <=> OutOfTurn(L, s, u)
           /\ CameAfter(L, s, r) <=> CameAfter(L, s, u)
<1>1. r.ts = u.ts
  BY TagEqual
<1> QED BY <1>1 DEF OutOfTurn, CameAfter

LEMMA OutOfTurnCameAfter ==
    ASSUME NEW L, NEW s, NEW r, OutOfTurn(L, s, r)
    PROVE  CameAfter(L, s, r)
  BY DEF OutOfTurn, CameAfter

-----------------------------------------------------------------------------
(* What a publication changes.                                             *)

\* Task t brings stage s, which it holds the lock for.
NewEntry(t, s, how) == [stage |-> s, by |-> t, at |-> now, how |-> how]

Brings(t, s, how) ==
    /\ pc[t] \in {"store", "copy"}
    /\ s \in Stage
    /\ Match(t, s)
    /\ how \in {"looked", "blind", "copied", "recopied"}
    /\ how \in {"looked", "blind"} => /\ pc[t] = "store"
                                      /\ s = NewStage(t)
    /\ how \in {"copied", "recopied"} => s.ts < Epoch
    /\ how = "looked" => Usable(t, repo) = {}
    /\ how = "recopied" => s \in repo
    /\ repo' = Push(repo, s)
    /\ ledger' = ledger \cup {NewEntry(t, s, how)}
    /\ now' = now + 1
    /\ looked' = looked

LEMMA NamedFacts ==
    ASSUME IInv, NEW t \in Tasks, pc[t] = "store"
    PROVE  /\ NewStage(t) \in Stage
           /\ NewStage(t).digest = DigestOf[t]
           /\ NewStage(t).ts = newTs[t]
           /\ NewStage(t).commit = CommitOf[t]
           /\ NewStage(t).parent = ParentTs[t]
           /\ newTs[t] \in Nat
           /\ Match(t, NewStage(t))
           /\ Named(t)
<1>1. /\ newTs[t] \in Nat /\ Named(t)
  BY DEF IInv, TypeOK, NamedInv
<1>2. ParentTs[t] <= newTs[t]
  BY <1>1, TaskAssumption, ClockAssumption DEF Named
<1> QED BY <1>1, <1>2, TaskAssumption DEF NewStage, Stage, Match

LEMMA PushChar ==
    ASSUME UniqueTags, NEW s, repo' = Push(repo, s)
    PROVE  /\ s \in repo'
           /\ \A r \in repo' : r = s \/ r \in repo
           /\ \A r \in repo : r \in repo' \/ TagOf(r) = TagOf(s)
           /\ s \in repo => repo' = repo
           /\ UniqueTags'
           /\ TagsOf(repo) \subseteq TagsOf(repo')
<1>1. \A r : r \in repo' <=> r = s \/ (r \in repo /\ TagOf(r) # TagOf(s))
  BY DEF Push
<1>2. s \in repo => repo' = repo
  BY <1>1 DEF UniqueTags
<1>3. UniqueTags'
  BY <1>1 DEF UniqueTags
<1>4. TagsOf(repo) \subseteq TagsOf(repo')
  BY <1>1 DEF TagsOf
<1> QED BY <1>1, <1>2, <1>3, <1>4

LEMMA NewEntryFacts ==
    ASSUME IInv, NEW t \in Tasks, NEW s, NEW how, Brings(t, s, how)
    PROVE  /\ NewEntry(t, s, how) \in ledger'
           /\ NewEntry(t, s, how).stage = s
           /\ NewEntry(t, s, how).by = t
           /\ NewEntry(t, s, how).how = how
           /\ ledger \subseteq ledger'
           /\ \A f \in ledger : f.at < NewEntry(t, s, how).at
           /\ \A f \in ledger' : f \in ledger \/ f = NewEntry(t, s, how)
  BY DEF Brings, NewEntry, IInv, LedgerInv

LEMMA NewCameAfter ==
    ASSUME IInv, NEW t \in Tasks, NEW s, NEW how, Brings(t, s, how),
           how # "recopied", NEW r \in repo
    PROVE  CameAfter(ledger', s, r)
<1>1. PICK f \in ledger : f.stage = r /\ f.how # "recopied"
  BY DEF IInv, RepoLogged
<1> QED BY <1>1, NewEntryFacts DEF CameAfter

\* What is brought is younger than what was there, unless it comes out of turn:
\* a copy is older than any new stage, and a new stage that is not younger than
\* one of its digest was named by a clock that is behind.
LEMMA NewOutOfTurn ==
    ASSUME IInv, NEW t \in Tasks, NEW s, NEW how, Brings(t, s, how),
           how # "recopied", NEW r \in repo, r.digest = s.digest, s.ts <= r.ts
    PROVE  OutOfTurn(ledger', s, r)
<1> DEFINE e == NewEntry(t, s, how)
<1>1. PICK f \in ledger : f.stage = r /\ f.how # "recopied"
  BY DEF IInv, RepoLogged
<1>2. /\ e \in ledger' /\ e.stage = s /\ e.by = t /\ e.how = how
      /\ f \in ledger' /\ f.at < e.at
  BY <1>1, NewEntryFacts
<1> HIDE DEF e
<1>3. CASE how = "copied"
  BY <1>1, <1>2, <1>3 DEF OutOfTurn
<1>4. CASE how \in {"looked", "blind"}
  <2>1. /\ s.digest = DigestOf[t] /\ s.ts = newTs[t] /\ newTs[t] \in Nat
        /\ Epoch <= newTs[t]
        /\ f.at + Skew[ProcOf[t]] < newTs[t]
    BY <1>1, <1>4, NamedFacts DEF Brings, Named
  <2>2. f \in Entry /\ r.ts \in Nat /\ f.at \in Nat
    BY <1>1 DEF IInv, TypeOK, Entry, Stage
  <2>3. ~(r.ts < Epoch)
    BY <2>1, <2>2, ClockAssumption
  <2>4. f.how \in {"looked", "blind"}
    BY <1>1, <2>2, <2>3 DEF IInv, LedgerInv, Entry
  <2>5. f.by \in Tasks /\ r.ts <= f.at + Skew[ProcOf[f.by]]
    BY <1>1, <2>4 DEF IInv, LedgerInv
  <2>6. Skew[ProcOf[t]] \in Nat /\ Skew[ProcOf[f.by]] \in Nat
    BY <2>5, ProcAssumption, ClockAssumption
  <2>7. Skew[ProcOf[t]] < Skew[ProcOf[f.by]]
    BY <2>1, <2>2, <2>5, <2>6
  <2>8. t # NoTask /\ f.by # NoTask
    BY <2>5, TaskAssumption
  <2>9. Behind(proc(e.by), proc(f.by))
    BY <1>2, <2>7 DEF Behind, proc
  <2> QED BY <1>1, <1>2, <2>8, <2>9 DEF OutOfTurn
<1> QED BY <1>3, <1>4 DEF Brings

\* What does not depend on the tasks.
BooksInv == LedgerInv /\ RepoLogged /\ UniqueTags /\ PublishedOnce

LEMMA BringBooks ==
    ASSUME IInv, NEW t \in Tasks, NEW s, NEW how, Brings(t, s, how)
    PROVE  BooksInv'
<1> DEFINE e == NewEntry(t, s, how)
<1>1. /\ e \in ledger' /\ e.stage = s /\ e.by = t /\ e.how = how /\ e.at = now
      /\ ledger \subseteq ledger'
      /\ \A f \in ledger' : f \in ledger \/ f = e
  BY NewEntryFacts DEF NewEntry
<1> HIDE DEF e
<1>2. /\ s \in repo'
      /\ \A r \in repo' : r = s \/ r \in repo
      /\ s \in repo => repo' = repo
      /\ UniqueTags'
  BY PushChar DEF Brings, IInv
<1>3. LedgerInv'
  <2>1. now \in Nat /\ Epoch \in Nat /\ now' = now + 1
    BY ClockAssumption DEF IInv, TypeOK, Brings
  <2>2. \A f \in ledger : f.at \in Nat
    BY DEF IInv, TypeOK, Entry
  <2>3. how \in {"copied", "recopied"} => s.ts < Epoch
    BY DEF Brings
  <2>4. how \in {"looked", "blind"} => s.ts <= now + Skew[ProcOf[t]]
    BY NamedFacts DEF Brings, Named
  <2>5. how # "start"
    BY DEF Brings
  <2>6. ASSUME NEW f \in ledger'
        PROVE  /\ f.at < now'
               /\ f.how \in {"start", "copied", "recopied"} => f.stage.ts < Epoch
               /\ f.how \in {"looked", "blind"} =>
                     f.by \in Tasks /\ f.stage.ts <= f.at + Skew[ProcOf[f.by]]
    <3>1. CASE f \in ledger
      BY <2>1, <2>2, <3>1 DEF IInv, LedgerInv
    <3>2. CASE f = e
      BY <1>1, <2>1, <2>3, <2>4, <2>5, <3>2
    <3> QED BY <1>1, <3>1, <3>2
  <2>7. Epoch <= now'
    BY <2>1 DEF IInv, LedgerInv
  <2> QED BY <2>6, <2>7 DEF LedgerInv
<1>4. RepoLogged'
  <2>1. CASE how = "recopied"
    BY <1>1, <1>2, <2>1 DEF IInv, RepoLogged, Brings
  <2>2. CASE how # "recopied"
    BY <1>1, <1>2, <2>2 DEF IInv, RepoLogged
  <2> QED BY <2>1, <2>2
<1>5. PublishedOnce'
  <2> SUFFICES ASSUME NEW r \in repo' \ Published, NEW u \in repo' \ {r},
                      CouldUse(r, u)
               PROVE  \/ CameAfter(ledger', u, r)
                      \/ \E v \in Tasks : BroughtUnseen(ledger', v, r)
    BY DEF PublishedOnce
  <2>1. CASE r \in repo /\ u \in repo
    BY <1>1, <2>1, LedgerGrows DEF IInv, PublishedOnce
  <2>2. CASE u = s /\ r \in repo /\ s \notin repo
    BY <2>2, NewCameAfter DEF Brings
  <2>3. CASE r = s /\ u \in repo
    <3>1. CASE how = "looked"
      <4>1. Match(t, u)
        BY <2>3, <3>1, NamedFacts DEF Brings, CouldUse, Match
      <4> QED BY <2>3, <3>1, <4>1, UsableChar DEF Brings
    <3>2. CASE how # "looked"
      <4>1. BroughtUnseen(ledger', t, r)
        BY <1>1, <2>3, <3>2 DEF BroughtUnseen, Brings
      <4> QED BY <4>1
    <3> QED BY <3>1, <3>2
  <2> QED BY <1>2, <2>1, <2>2, <2>3
<1> QED BY <1>2, <1>3, <1>4, <1>5 DEF BooksInv

LEMMA BringSnapshot ==
    ASSUME IInv, NEW t \in Tasks, NEW s, NEW how, Brings(t, s, how),
           NEW tags, Snapshot(tags)
    PROVE  Snapshot(tags)'
<1> SUFFICES ASSUME tags # NoTags
             PROVE  /\ tags \subseteq TagsOf(repo')
                    /\ \A r, u \in repo' :
                          /\ r.digest = u.digest /\ r.ts <= u.ts
                          /\ TagOf(r) \notin tags /\ TagOf(u) \in tags
                          => OutOfTurn(ledger', r, u)
  BY DEF Snapshot
<1>1. /\ \A r \in repo' : r = s \/ r \in repo
      /\ s \in repo => repo' = repo
      /\ TagsOf(repo) \subseteq TagsOf(repo')
  BY PushChar DEF Brings, IInv
<1>2. /\ tags \subseteq TagsOf(repo)
      /\ \A r, u \in repo :
            /\ r.digest = u.digest /\ r.ts <= u.ts
            /\ TagOf(r) \notin tags /\ TagOf(u) \in tags
            => OutOfTurn(ledger, r, u)
  BY DEF Snapshot
<1>3. SUFFICES ASSUME NEW r \in repo', NEW u \in repo',
                      r.digest = u.digest, r.ts <= u.ts,
                      TagOf(r) \notin tags, TagOf(u) \in tags
               PROVE  OutOfTurn(ledger', r, u)
  BY <1>1, <1>2
<1>4. ledger \subseteq ledger'
  BY NewEntryFacts
<1>5. CASE r \in repo
  <2>1. PICK v \in repo : TagOf(v) = TagOf(u)
    BY <1>2, <1>3 DEF TagsOf
  <2>2. r.digest = v.digest /\ r.ts <= v.ts
    BY <1>3, <2>1, TagEqual
  <2>3. OutOfTurn(ledger, r, v)
    BY <1>2, <1>3, <1>5, <2>1, <2>2
  <2>4. OutOfTurn(ledger', r, v)
    BY <1>4, <2>3, LedgerGrows
  <2> QED BY <2>1, <2>4, SameTag
<1>6. CASE r = s /\ s \notin repo
  <2>1. u \in repo /\ how # "recopied"
    BY <1>1, <1>3, <1>6 DEF Brings
  <2> QED BY <1>3, <1>6, <2>1, NewOutOfTurn
<1> QED BY <1>1, <1>5, <1>6

\* A publication for another digest does not concern the holder of a lock.
LEMMA BringElsewhere ==
    ASSUME IInv, NEW t \in Tasks, NEW s, NEW how, Brings(t, s, how),
           NEW u \in Tasks, u # t, pc[u] \in Locked
    PROVE  /\ s.digest # DigestOf[u]
           /\ \A tags : Complete(u, tags) => Complete(u, tags)'
           /\ Usable(u, repo) = {} => Usable(u, repo') = {}
           /\ newTs'[u] = newTs[u] /\ Named(u) => Named(u)'
<1>1. s.digest # DigestOf[u]
  <2>1. pc[t] \in Locked /\ s.digest = DigestOf[t]
    BY DEF Brings, Locked, Match
  <2> QED BY <2>1 DEF IInv, LockInv
<1>2. \A r \in repo' : r = s \/ r \in repo
  BY PushChar DEF Brings, IInv
<1>3. ASSUME NEW tags, Complete(u, tags)
      PROVE  Complete(u, tags)'
  BY <1>1, <1>2, <1>3 DEF Complete
<1>4. ASSUME Usable(u, repo) = {}
      PROVE  Usable(u, repo') = {}
  BY <1>1, <1>2, <1>4, UsableChar DEF Match
<1>5. ASSUME newTs'[u] = newTs[u], Named(u)
      PROVE  Named(u)'
  <2>1. /\ now \in Nat /\ now' = now + 1 /\ newTs[u] \in Nat
        /\ Skew[ProcOf[u]] \in Nat
    BY ProcAssumption, ClockAssumption DEF IInv, TypeOK, Brings
  <2>2. \A f \in ledger' : f \in ledger \/ f.stage.digest # DigestOf[u]
    BY <1>1, NewEntryFacts
  <2> QED BY <1>5, <2>1, <2>2 DEF Named
<1> QED BY <1>1, <1>3, <1>4, <1>5

\* What a task has used, a publication by another or by itself leaves in order.
Reused(t) ==
    /\ \/ used[t] \in Usable(t, repo)
       \/ \E r \in repo : /\ TagOf(r) = TagOf(used[t])
                         /\ OutOfTurn(ledger, r, used[t])
    /\ \A r \in Usable(t, repo) \ {used[t]} :
          \/ used[t].ts < r.ts
          \/ OutOfTurn(ledger, r, used[t])
          \/ BroughtUnseen(ledger, t, used[t])

LEMMA BringReused ==
    ASSUME IInv, NEW t \in Tasks, NEW s, NEW how, Brings(t, s, how),
           NEW u \in Tasks, used[u] # NoStage, used'[u] = used[u]
    PROVE  Reused(u)'
<1> DEFINE x == used[u]
<1>1. /\ s \in repo'
      /\ \A r \in repo' : r = s \/ r \in repo
      /\ \A r \in repo : r \in repo' \/ TagOf(r) = TagOf(s)
      /\ s \in repo => repo' = repo
  BY PushChar DEF Brings, IInv
<1>2. ledger \subseteq ledger'
  BY NewEntryFacts
<1>3. Reused(u) /\ x.digest = DigestOf[u] /\ x \in Stage
  BY DEF IInv, EveryoneReuses, Reused, UsedInv, TypeOK
<1>4. PICK v \in repo : TagOf(v) = TagOf(x)
  BY <1>3, UsableChar DEF Reused
<1>5. v.digest = x.digest /\ v.ts = x.ts
  BY <1>4, TagEqual
<1>6. ASSUME s \notin repo, s.digest = x.digest, s.ts <= x.ts
      PROVE  OutOfTurn(ledger', s, x)
  <2>1. how # "recopied"
    BY <1>6 DEF Brings
  <2>2. OutOfTurn(ledger', s, v)
    BY <1>5, <1>6, <2>1, NewOutOfTurn
  <2> QED BY <1>4, <2>2, SameTag
<1>7. x.ts \in Nat /\ s.ts \in Nat
  BY <1>3 DEF Brings, Stage
<1>8. \/ x \in Usable(u, repo')
      \/ \E r \in repo' : TagOf(r) = TagOf(x) /\ OutOfTurn(ledger', r, x)
  <2>1. CASE repo' = repo
    BY <1>2, <1>3, <2>1, LedgerGrows DEF Reused
  <2>2. CASE s \notin repo /\ TagOf(s) = TagOf(x)
    <3>1. s.digest = x.digest /\ s.ts <= x.ts
      BY <1>7, <2>2, TagEqual
    <3> QED BY <1>1, <1>6, <2>2, <3>1
  <2>3. CASE TagOf(s) # TagOf(x)
    <3>1. CASE x \in Usable(u, repo)
      BY <1>1, <2>3, <3>1, UsableChar
    <3>2. CASE \E r \in repo : TagOf(r) = TagOf(x) /\ OutOfTurn(ledger, r, x)
      BY <1>1, <1>2, <2>3, <3>2, LedgerGrows
    <3> QED BY <1>3, <3>1, <3>2 DEF Reused
  <2> QED BY <1>1, <2>1, <2>2, <2>3
<1>9. ASSUME NEW r \in Usable(u, repo') \ {x}
      PROVE  \/ x.ts < r.ts
             \/ OutOfTurn(ledger', r, x)
             \/ BroughtUnseen(ledger', u, x)
  <2>1. r \in repo' /\ Match(u, r)
    BY <1>9, UsableChar
  <2>2. CASE r \in repo
    <3>1. r \in Usable(u, repo) \ {x}
      BY <1>9, <2>1, <2>2, UsableChar
    <3> QED BY <1>2, <1>3, <3>1, LedgerGrows DEF Reused
  <2>3. CASE r = s /\ s \notin repo
    <3>1. s.digest = x.digest
      BY <1>3, <2>1, <2>3 DEF Match
    <3> QED BY <1>6, <1>7, <2>3, <3>1
  <2> QED BY <1>1, <2>1, <2>2, <2>3
<1> QED BY <1>8, <1>9 DEF Reused

LEMMA BringUsed ==
    ASSUME IInv, NEW t \in Tasks, NEW s, NEW how, Brings(t, s, how),
           used'[t] = s
    PROVE  Reused(t)'
<1>1. s \in repo' /\ \A r \in repo' : r = s \/ r \in repo
  BY PushChar DEF Brings, IInv
<1>2. s \in Usable(t, repo')
  BY <1>1, UsableChar DEF Brings
<1>3. CASE how = "looked"
  <2>1. Usable(t, repo') \subseteq {s}
    BY <1>1, <1>3, UsableChar DEF Brings
  <2> QED BY <1>2, <2>1 DEF Reused
<1>4. CASE how # "looked"
  <2>1. BroughtUnseen(ledger', t, s)
    BY <1>4, NewEntryFacts DEF Brings, BroughtUnseen
  <2> QED BY <1>2, <2>1 DEF Reused
<1> QED BY <1>3, <1>4

-----------------------------------------------------------------------------
(* The invariant is inductive.                                             *)

\* The parts that an action which publishes nothing can disturb.
TaskInv ==
    /\ LockInv /\ FlightInv /\ LookedInv /\ FreshInv /\ NamedInv /\ ListsInv
    /\ UsedInv /\ EveryoneReuses

Quiet == UNCHANGED <<repo, now, ledger>>

LEMMA QuietStep ==
    ASSUME IInv, [Next]_vars, Quiet, TaskInv'
    PROVE  IInv'
<1>1. TypeOK'
  BY StepType DEF IInv
<1>2. LedgerInv' /\ RepoLogged' /\ UniqueTags' /\ PublishedOnce'
  BY DEF Quiet, IInv, LedgerInv, RepoLogged, UniqueTags, PublishedOnce
<1> QED BY <1>1, <1>2 DEF IInv, TaskInv

LEMMA QuietLists ==
    ASSUME Quiet
    PROVE  /\ \A tags : Snapshot(tags) => Snapshot(tags)'
           /\ \A u \in Tasks : \A tags : Complete(u, tags) => Complete(u, tags)'
  BY DEF Quiet, Snapshot, Complete, TagsOf

LEMMA QuietUsed ==
    ASSUME IInv, Quiet, used' = used
    PROVE  EveryoneReuses'
  BY DEF Quiet, IInv, EveryoneReuses

LEMMA QuietNamed ==
    ASSUME IInv, Quiet, NEW u \in Tasks, newTs'[u] = newTs[u], Named(u)
    PROVE  Named(u)'
  BY DEF Quiet, Named

\* A step of one task that touches no list of tags and sets no stage.
LEMMA PlainStep ==
    ASSUME IInv, NEW t \in Tasks, NEW label,
           pc' = [pc EXCEPT ![t] = label],
           label \notin Waiting \cup {"recheckGot", "store"},
           pc[t] \notin Waiting,
           t \notin looked \/ label \in Ended,
           label \in Ended \cup {"unlock"} \/ used[t] = NoStage,
           \A u \in Tasks : pc'[u] \in Locked => lock'[DigestOf[u]] = u,
           Quiet, UNCHANGED <<cachedTags, flight, answer, newTs, used, looked>>
    PROVE  TaskInv'
<1>1. \A u \in Tasks : pc'[u] = IF u = t THEN label ELSE pc[u]
  BY DEF IInv, TypeOK
<1>2. LockInv'
  BY DEF LockInv
<1>3. FlightInv'
  BY <1>1 DEF IInv, TypeOK, FlightInv
<1>4. ListsInv'
  BY QuietLists DEF IInv, ListsInv
<1>5. LookedInv'
  BY <1>1 DEF IInv, TypeOK, LookedInv
<1>6. FreshInv'
  <2> SUFFICES ASSUME NEW u \in looked
               PROVE  Fresh(u)'
    BY DEF FreshInv
  <2>1. Fresh(u) /\ u \in Tasks
    BY DEF IInv, TypeOK, FreshInv
  <2>2. CASE u = t
    BY <1>1, <2>1, <2>2 DEF Fresh, Ended
  <2>3. CASE u # t
    BY <1>1, <2>1, <2>3, QuietLists DEF Fresh, Quiet
  <2> QED BY <2>2, <2>3
<1>7. NamedInv'
  <2>1. \A u \in Tasks : pc'[u] = "store" => pc[u] = "store"
    BY <1>1
  <2> QED BY <2>1, QuietNamed DEF IInv, NamedInv
<1>8. UsedInv'
  BY <1>1 DEF IInv, UsedInv
<1>9. EveryoneReuses'
  BY QuietUsed
<1> QED BY <1>2, <1>3, <1>4, <1>5, <1>6, <1>7, <1>8, <1>9 DEF TaskInv

\* The holder of a lock is the only one of its digest to be in Locked.
LEMMA LockFreed ==
    ASSUME IInv, NEW t \in Tasks, pc[t] \in Locked, NEW label, label \notin Locked,
           pc' = [pc EXCEPT ![t] = label],
           lock' = [lock EXCEPT ![DigestOf[t]] = NoTask]
    PROVE  \A u \in Tasks : pc'[u] \in Locked => lock'[DigestOf[u]] = u
<1> SUFFICES ASSUME NEW u \in Tasks, pc'[u] \in Locked
             PROVE  lock'[DigestOf[u]] = u
  OBVIOUS
<1>1. u # t /\ pc[u] \in Locked
  BY DEF IInv, TypeOK
<1>2. lock[DigestOf[u]] = u /\ lock[DigestOf[t]] = t
  BY <1>1 DEF IInv, LockInv
<1>3. DigestOf[u] \in Digests /\ DigestOf[u] # DigestOf[t]
  BY <1>1, <1>2, TaskAssumption
<1> QED BY <1>2, <1>3 DEF IInv, TypeOK

\* The task is given the stage that is selected in a list of tags, however old.
LEMMA ReuseStep ==
    ASSUME IInv, NEW t \in Tasks, NEW tags, Snapshot(tags), Quiet,
           NEW x \in SelectSuitableStageDesc(t, StageDescSet(t, repo, tags)),
           used' = [used EXCEPT ![t] = x]
    PROVE  /\ EveryoneReuses'
           /\ x.digest = DigestOf[t]
           /\ x \in Usable(t, repo)
           /\ \A r \in Usable(t, repo) \ {x} :
                 x.ts < r.ts \/ OutOfTurn(ledger, r, x)
<1>1. /\ x \in repo /\ TagOf(x) \in tags /\ Match(t, x)
      /\ \A r \in repo : (TagOf(r) \in tags /\ Match(t, r)) => x.ts <= r.ts
  BY SelectChar
<1>2. x.digest = DigestOf[t] /\ x \in Usable(t, repo)
  BY <1>1, UsableChar DEF Match
<1>3. tags # NoTags
  BY <1>1, TagFacts DEF IInv, TypeOK, Stage, TagOf
<1>4. ASSUME NEW r \in Usable(t, repo) \ {x}
      PROVE  x.ts < r.ts \/ OutOfTurn(ledger, r, x)
  <2>1. r \in repo /\ Match(t, r) /\ r # x
    BY <1>4, UsableChar
  <2>2. r.digest = x.digest /\ r.ts \in Nat /\ x.ts \in Nat
    BY <1>1, <2>1 DEF IInv, TypeOK, Stage, Match
  <2>3. CASE TagOf(r) \in tags
    <3>1. x.ts <= r.ts /\ TagOf(r) # TagOf(x)
      BY <1>1, <2>1, <2>3 DEF IInv, UniqueTags
    <3> QED BY <2>2, <3>1, TagEqual
  <2>4. CASE TagOf(r) \notin tags /\ r.ts <= x.ts
    BY <1>1, <1>3, <2>1, <2>2, <2>4 DEF Snapshot
  <2> QED BY <2>2, <2>3, <2>4
<1>5. EveryoneReuses'
  <2>1. \A u \in Tasks : used'[u] = IF u = t THEN x ELSE used[u]
    BY DEF IInv, TypeOK
  <2> QED BY <1>2, <1>4, <2>1 DEF Quiet, IInv, EveryoneReuses
<1> QED BY <1>2, <1>4, <1>5

\* What calculateStage does with the stages found in a list of tags.
LEMMA ConcludeStep ==
    ASSUME IInv, NEW t \in Tasks, NEW tags,
           Snapshot(tags), Conclude(t, StageDescSet(t, repo, tags)),
           pc[t] \in {"lookup", "lookupGot", "relookupGot"},
           \A p \in Procs : Snapshot(cachedTags'[p]),
           Quiet, UNCHANGED <<lock, flight, answer, newTs, looked>>
    PROVE  TaskInv'
<1> DEFINE found == StageDescSet(t, repo, tags)
<1>1. PICK label \in {"done", "secondary"} : pc' = [pc EXCEPT ![t] = label]
  BY DEF Conclude, Goto
<1>2. \A u \in Tasks : pc'[u] = IF u = t THEN label ELSE pc[u]
  BY <1>1 DEF IInv, TypeOK
<1>3. LockInv'
  BY <1>2 DEF IInv, LockInv, Locked
<1>4. FlightInv'
  BY <1>2 DEF IInv, TypeOK, FlightInv, Waiting
<1>5. ListsInv'
  BY QuietLists DEF IInv, ListsInv, Quiet, Snapshot, TagsOf
<1>6. LookedInv' /\ t \notin looked
  BY <1>2 DEF IInv, TypeOK, LookedInv, Looking, Ended
<1>7. FreshInv'
  <2>1. \A u \in looked : pc'[u] = pc[u] /\ u \in Tasks
    BY <1>2, <1>6 DEF IInv, TypeOK
  <2> QED BY <2>1, QuietLists DEF IInv, FreshInv, Fresh, Quiet
<1>8. NamedInv'
  <2>1. \A u \in Tasks : pc'[u] = "store" => pc[u] = "store"
    BY <1>2
  <2> QED BY <2>1, QuietNamed DEF IInv, NamedInv
<1>9. CASE \E x \in SelectSuitableStageDesc(t, found) :
              used' = [used EXCEPT ![t] = x] /\ Goto(t, "done")
  <2>1. PICK x \in SelectSuitableStageDesc(t, found) :
                used' = [used EXCEPT ![t] = x] /\ Goto(t, "done")
    BY <1>9
  <2>2. EveryoneReuses' /\ x.digest = DigestOf[t]
    BY <2>1, ReuseStep
  <2>3. UsedInv'
    BY <2>1, <2>2 DEF IInv, TypeOK, UsedInv, Goto, Ended
  <2> QED
    BY <1>3, <1>4, <1>5, <1>6, <1>7, <1>8, <2>2, <2>3 DEF TaskInv
<1>10. CASE used' = used
  <2>1. EveryoneReuses'
    BY <1>10, QuietUsed
  <2>2. UsedInv'
    BY <1>2, <1>10 DEF IInv, UsedInv, Ended
  <2> QED
    BY <1>3, <1>4, <1>5, <1>6, <1>7, <1>8, <2>1, <2>2 DEF TaskInv
<1> QED BY <1>9, <1>10 DEF Conclude

\* A step that publishes a stage of a task, which then unlocks or fails.
LEMMA BringStep ==
    ASSUME IInv, [Next]_vars, NEW t \in Tasks, NEW s, NEW how, Brings(t, s, how),
           NEW label \in {"unlock", "failed"},
           pc' = [pc EXCEPT ![t] = label],
           \A u \in Tasks : pc'[u] \in Locked => lock'[DigestOf[u]] = u,
           used' = used \/ used' = [used EXCEPT ![t] = s],
           UNCHANGED <<cachedTags, flight, answer, newTs>>
    PROVE  IInv'
<1> USE TaskAssumption
<1>1. BooksInv'
  BY BringBooks
<1>2. TypeOK'
  BY StepType DEF IInv
<1>3. \A u \in Tasks : pc'[u] = IF u = t THEN label ELSE pc[u]
  BY DEF IInv, TypeOK
<1>4. LockInv'
  BY DEF LockInv
<1>5. pc[t] \in {"store", "copy"} /\ looked' = looked
  BY DEF Brings
<1>6. FlightInv'
  BY <1>3, <1>5 DEF IInv, TypeOK, FlightInv, Waiting
<1>7. ListsInv'
  BY BringSnapshot DEF IInv, ListsInv
<1>8. LookedInv'
  BY <1>3, <1>5 DEF IInv, TypeOK, LookedInv, Looking, Ended
<1>9. ASSUME NEW u \in Tasks, pc'[u] \in Locked, u # t
      PROVE  pc'[u] = pc[u] /\ pc[u] \in Locked
  BY <1>3, <1>9
<1>10. FreshInv'
  <2> SUFFICES ASSUME NEW u \in looked
               PROVE  Fresh(u)'
    BY <1>5 DEF FreshInv
  <2>1. Fresh(u) /\ u \in Tasks
    BY DEF IInv, TypeOK, FreshInv
  <2>2. CASE u = t
    BY <1>3, <2>2 DEF Fresh
  <2>3. CASE u # t /\ pc[u] \in Locked
    <3>1. /\ \A tags : Complete(u, tags) => Complete(u, tags)'
          /\ Usable(u, repo) = {} => Usable(u, repo') = {}
      BY <2>1, <2>3, BringElsewhere
    <3> QED BY <1>3, <2>1, <2>3, <3>1 DEF Fresh
  <2>4. CASE u # t /\ pc[u] \notin Locked
    BY <1>3, <2>1, <2>4 DEF Fresh, Locked
  <2> QED BY <2>2, <2>3, <2>4
<1>11. NamedInv'
  <2> SUFFICES ASSUME NEW u \in Tasks, pc'[u] = "store"
               PROVE  Named(u)'
    BY DEF NamedInv
  <2>1. u # t /\ pc[u] = "store"
    BY <1>3
  <2> QED BY <2>1, BringElsewhere DEF IInv, NamedInv, Locked
<1>12. UsedInv'
  <2>1. s.digest = DigestOf[t]
    BY DEF Brings, Match
  <2>2. \A u \in Tasks : used'[u] = used[u] \/ (u = t /\ used'[u] = s)
    BY DEF IInv, TypeOK
  <2> QED BY <1>3, <2>1, <2>2 DEF IInv, UsedInv, Ended
<1>13. EveryoneReuses'
  <2>1. ASSUME NEW u \in Tasks, used'[u] # NoStage
        PROVE  Reused(u)'
    <3>1. CASE used'[u] = used[u]
      BY <2>1, <3>1, BringReused
    <3>2. CASE u = t /\ used'[u] = s
      BY <3>2, BringUsed
    <3> QED BY <3>1, <3>2 DEF IInv, TypeOK
  <2> QED BY <2>1 DEF EveryoneReuses, Reused
<1> QED
  BY <1>1, <1>2, <1>4, <1>6, <1>7, <1>8, <1>10, <1>11, <1>12, <1>13
  DEF IInv, BooksInv

LEMMA StoreBrings ==
    ASSUME IInv, NEW t \in Tasks, pc[t] = "store", Store(t)
    PROVE  \E how \in {"looked", "blind"} : Brings(t, NewStage(t), how)
<1>1. t \in looked => Usable(t, repo) = {}
  BY DEF IInv, FreshInv, Fresh
<1>2. NewStage(t) \in Stage /\ Match(t, NewStage(t))
  BY NamedFacts
<1> QED
  BY <1>1, <1>2 DEF Store, Publish, Brings, NewEntry

LEMMA CopyBrings ==
    ASSUME IInv, NEW t \in Tasks, pc[t] = "copy",
           NEW s \in SelectSuitableStageDesc(t, SecondaryStages(t)), Copy(t, s)
    PROVE  \E how \in {"copied", "recopied"} : Brings(t, s, how)
<1>1. /\ s \in Secondary[ProcOf[t]] /\ ProcOf[t] \in Procs
      /\ Match(t, s)
  BY ProcAssumption
  DEF SelectSuitableStageDesc, Suitable, SecondaryStages, proc, Match
<1>2. s \in Stage /\ s.ts < Epoch
  BY <1>1, ProcAssumption, ClockAssumption
<1> QED
  BY <1>1, <1>2 DEF Copy, Publish, Brings, NewEntry

\* A name is given while the lock is held: all that was published came before.
LEMMA NamedNow ==
    ASSUME IInv, NEW t \in Tasks, GenerateStageDescCreationTs(t), Quiet,
           \A u \in Tasks : pc'[u] = IF u = t THEN "store" ELSE pc[u]
    PROVE  NamedInv'
<1>1. /\ Skew[ProcOf[t]] \in Nat /\ now \in Nat
      /\ \A f \in ledger : f.at \in Nat /\ f.at < now
      /\ Epoch \in Nat /\ Epoch <= now
  BY ProcAssumption, ClockAssumption DEF IInv, TypeOK, LedgerInv, Entry
<1>2. \A u \in Tasks : newTs'[u] = IF u = t THEN now + Skew[ProcOf[t]]
                                   ELSE newTs[u]
  BY DEF GenerateStageDescCreationTs, IInv, TypeOK, proc
<1>3. Named(t)'
  BY <1>1, <1>2 DEF Named, Quiet
<1>4. ASSUME NEW u \in Tasks, u # t, pc'[u] = "store"
      PROVE  Named(u)'
  BY <1>2, <1>4, QuietNamed DEF IInv, NamedInv
<1> QED BY <1>3, <1>4 DEF NamedInv

\* A step that at most frees a lock.
LEMMA SameTasks ==
    ASSUME IInv, Quiet, LockInv',
           UNCHANGED <<cachedTags, flight, answer, pc, newTs, used, looked>>
    PROVE  TaskInv'
<1>1. FlightInv' /\ LookedInv' /\ UsedInv'
  BY DEF IInv, FlightInv, LookedInv, UsedInv
<1>2. ListsInv'
  BY QuietLists DEF IInv, ListsInv
<1>3. FreshInv'
  BY DEF IInv, FreshInv, Fresh, Quiet, Complete
<1>4. NamedInv' /\ EveryoneReuses'
  BY QuietNamed, QuietUsed DEF IInv, NamedInv
<1> QED BY <1>1, <1>2, <1>3, <1>4 DEF TaskInv

LEMMA TaskStepInv ==
    ASSUME IInv, NEW t \in Tasks, TaskStep(t)
    PROVE  IInv'
<1> USE TaskAssumption, ProcAssumption DEF proc, history
<1>0. [Next]_vars
  BY DEF Next
<1>1. CASE Begin(t)
  <2>1. t \notin looked
    BY <1>1 DEF Begin, IInv, LookedInv, Looking, Ended
  <2>2. TaskInv'
    BY <1>1, <2>1, PlainStep
    DEF Begin, Goto, IInv, TypeOK, LockInv, UsedInv, Waiting, Locked, Ended,
        Quiet
  <2> QED BY <1>0, <1>1, <2>2, QuietStep DEF Begin, Quiet
<1>2. CASE LookupCached(t)
  <2> DEFINE tags == cachedTags[ProcOf[t]]
  <2>1. tags \in (SUBSET Tag) \cup {NoTags} /\ Snapshot(tags)
    BY DEF IInv, TypeOK, ListsInv
  <2>2. CASE StageDescSet(t, repo, tags) = {}
    <3>1. t \notin looked
      BY <1>2 DEF LookupCached, IInv, LookedInv, Looking, Ended
    <3>2. /\ pc[t] = "lookup" /\ pc' = [pc EXCEPT ![t] = "relookup"]
          /\ Quiet
          /\ UNCHANGED <<lock, cachedTags, flight, answer, newTs, used, looked>>
      BY <1>2, <2>2 DEF LookupCached, Goto, Quiet
    <3>3. \A u \in Tasks : pc'[u] \in Locked => lock'[DigestOf[u]] = u
      BY <3>2 DEF IInv, TypeOK, LockInv, Locked
    <3>4. used[t] = NoStage
      BY <3>2 DEF IInv, UsedInv, Ended
    <3>5. TaskInv'
      BY <3>1, <3>2, <3>3, <3>4, PlainStep DEF Waiting
    <3> QED BY <1>0, <3>2, <3>5, QuietStep
  <2>3. CASE StageDescSet(t, repo, tags) # {}
    <3>1. /\ Conclude(t, StageDescSet(t, repo, tags))
          /\ pc[t] \in {"lookup", "lookupGot", "relookupGot"}
          /\ Quiet
          /\ UNCHANGED <<lock, cachedTags, flight, answer, newTs, looked>>
      BY <1>2, <2>3 DEF LookupCached, Quiet
    <3>2. \A p \in Procs : Snapshot(cachedTags'[p])
      BY <3>1 DEF IInv, ListsInv
    <3>3. TaskInv'
      BY <2>1, <3>1, <3>2, ConcludeStep
    <3> QED BY <1>0, <3>1, <3>3, QuietStep
  <2> QED BY <2>2, <2>3
<1>3. CASE Query(t)
  <2>1. PICK label \in Waiting : pc' = [pc EXCEPT ![t] = label]
    BY <1>3 DEF Query, Goto, Waiting
  <2>2. /\ pc[t] \in {"lookup", "relookup", "recheck"}
        /\ label = "recheckWait" <=> pc[t] = "recheck"
    BY <1>3, <2>1 DEF Query, Goto, IInv, TypeOK
  <2>3. \A u \in Tasks : pc'[u] = IF u = t THEN label ELSE pc[u]
    BY <2>1 DEF IInv, TypeOK
  <2>4. \A p \in Procs :
           /\ flight'[p].waiters = IF p = ProcOf[t]
                                   THEN flight[p].waiters \cup {t}
                                   ELSE flight[p].waiters
           /\ flight'[p].tags = flight[p].tags
    BY <1>3 DEF Query, IInv, TypeOK
  <2>5. Quiet /\ UNCHANGED <<lock, mutex, cachedTags, answer, newTs, used, looked>>
    BY <1>3 DEF Query, Quiet
  <2>6. LockInv'
    BY <2>2, <2>3, <2>5 DEF IInv, LockInv, Locked, Waiting
  <2>7. FlightInv'
    <3> SUFFICES ASSUME NEW p \in Procs, NEW u \in flight'[p].waiters
                 PROVE  ProcOf[u] = p /\ pc'[u] \in Waiting
      BY DEF FlightInv
    <3>1. u \in flight[p].waiters \/ (u = t /\ p = ProcOf[t])
      <4>1. CASE p = ProcOf[t]
        <5>1. flight'[p].waiters = flight[p].waiters \cup {t}
          BY <2>4, <4>1
        <5>2. u = t \/ u \in flight[p].waiters
          BY <5>1
        <5> QED BY <4>1, <5>2
      <4>2. CASE p # ProcOf[t]
        BY <2>4, <4>2
      <4> QED BY <4>1, <4>2
    <3>2. flight[p].waiters \subseteq Tasks
      BY DEF IInv, TypeOK
    <3> QED BY <2>3, <3>1, <3>2 DEF IInv, FlightInv
  <2>8. ListsInv'
    BY <2>4, <2>5, QuietLists DEF IInv, ListsInv
  <2>9. LookedInv'
    BY <2>2, <2>3, <2>5 DEF IInv, TypeOK, LookedInv, Looking, Ended
  <2>10. FreshInv'
    <3> SUFFICES ASSUME NEW u \in looked
                 PROVE  Fresh(u)'
      BY <2>5 DEF FreshInv
    <3>1. /\ Fresh(u) /\ u \in Tasks /\ ProcOf[u] \in Procs
          /\ pc[u] \in Looking \cup Ended
      BY DEF IInv, TypeOK, FreshInv, LookedInv
    <3>2. CASE u = t
      <4>1. pc[u] = "recheck" /\ pc'[u] = "recheckWait"
        BY <2>2, <2>3, <3>1, <3>2 DEF Looking, Ended
      <4> QED BY <2>4, <2>5, <3>1, <4>1, QuietLists DEF Fresh
    <3>3. CASE u # t
      BY <2>3, <2>4, <2>5, <3>1, <3>3, QuietLists DEF Fresh, Quiet
    <3> QED BY <3>2, <3>3
  <2>11. NamedInv'
    <3>1. \A u \in Tasks : pc'[u] = "store" => pc[u] = "store"
      BY <2>3 DEF Waiting
    <3> QED BY <2>5, <3>1, QuietNamed DEF IInv, NamedInv
  <2>12. UsedInv' /\ EveryoneReuses'
    <3>1. UsedInv'
      BY <2>2, <2>3, <2>5 DEF IInv, UsedInv, Ended
    <3> QED BY <2>5, <3>1, QuietUsed
  <2> QED
    BY <1>0, <2>5, <2>6, <2>7, <2>8, <2>9, <2>10, <2>11, <2>12, QuietStep
    DEF TaskInv
<1>4. CASE ReceiveLookup(t)
  <2>1. /\ pc[t] \in {"lookupGot", "relookupGot"}
        /\ cachedTags' = [cachedTags EXCEPT ![ProcOf[t]] = answer[t]]
        /\ Quiet
        /\ UNCHANGED <<lock, flight, answer, newTs, looked>>
    BY <1>4 DEF ReceiveLookup, Quiet
  <2>2. \A p \in Procs : Snapshot(cachedTags'[p])
    BY <2>1 DEF IInv, TypeOK, ListsInv
  <2>3. CASE Conclude(t, StageDescSet(t, repo, answer[t]))
    <3>1. Snapshot(answer[t])
      BY DEF IInv, ListsInv
    <3>2. TaskInv'
      BY <2>1, <2>2, <2>3, <3>1, ConcludeStep
    <3> QED BY <1>0, <2>1, <3>2, QuietStep
  <2>4. CASE /\ pc' = [pc EXCEPT ![t] = "relookup"]
             /\ UNCHANGED <<used, mutex>>
    <3>1. \A u \in Tasks : pc'[u] = IF u = t THEN "relookup" ELSE pc[u]
      BY <2>4 DEF IInv, TypeOK
    <3>2. LockInv' /\ FlightInv'
      BY <2>1, <2>4, <3>1
      DEF IInv, TypeOK, LockInv, FlightInv, Locked, Waiting
    <3>3. UsedInv' /\ EveryoneReuses'
      <4>1. UsedInv'
        BY <2>1, <2>4, <3>1 DEF IInv, UsedInv, Ended
      <4> QED BY <2>1, <2>4, <4>1, QuietUsed
    <3>4. ListsInv'
      BY <2>1, <2>2, QuietLists DEF IInv, ListsInv, Quiet, Snapshot, TagsOf
    <3>5. LookedInv' /\ t \notin looked
      BY <2>1, <3>1 DEF IInv, TypeOK, LookedInv, Looking, Ended
    <3>6. FreshInv'
      <4>1. \A u \in looked : pc'[u] = pc[u] /\ u \in Tasks
        BY <3>1, <3>5 DEF IInv, TypeOK
      <4> QED BY <2>1, <4>1, QuietLists DEF IInv, FreshInv, Fresh, Quiet
    <3>7. NamedInv'
      <4>1. \A u \in Tasks : pc'[u] = "store" => pc[u] = "store"
        BY <3>1
      <4> QED BY <2>1, <4>1, QuietNamed DEF IInv, NamedInv
    <3> QED
      BY <1>0, <2>1, <3>2, <3>3, <3>4, <3>5, <3>6, <3>7, QuietStep
      DEF TaskInv
  <2> QED BY <1>4, <2>3, <2>4 DEF ReceiveLookup, Goto
<1>5. CASE ScanSecondary(t) \/ Build(t) \/ LockStage(t)
  <2>1. PICK label \in {"build", "lock", "copyLock", "recheck", "copy"} :
           pc' = [pc EXCEPT ![t] = label]
    BY <1>5 DEF ScanSecondary, Build, LockStage, Goto
  <2>2. /\ pc[t] \in {"secondary", "build", "lock", "copyLock"}
        /\ Quiet
        /\ UNCHANGED <<cachedTags, flight, answer, newTs, used, looked>>
    BY <1>5 DEF ScanSecondary, Build, LockStage, Quiet
  <2>3. t \notin looked /\ used[t] = NoStage
    BY <2>2 DEF IInv, LookedInv, Looking, UsedInv, Ended
  <2>4. \A u \in Tasks : pc'[u] \in Locked => lock'[DigestOf[u]] = u
    <3>1. CASE LockStage(t)
      BY <3>1 DEF LockStage, Goto, IInv, TypeOK, LockInv
    <3>2. CASE ScanSecondary(t) \/ Build(t)
      BY <3>2 DEF ScanSecondary, Build, Goto, IInv, TypeOK, LockInv, Locked
    <3> QED BY <1>5, <3>1, <3>2
  <2>5. TaskInv'
    BY <2>1, <2>2, <2>3, <2>4, PlainStep DEF Waiting
  <2> QED BY <1>0, <2>2, <2>5, QuietStep
<1>6. CASE CopyFromSecondary(t)
  <2>1. PICK s \in SelectSuitableStageDesc(t, SecondaryStages(t)) :
           Copy(t, s) /\ used' = [used EXCEPT ![t] = s]
    BY <1>6 DEF CopyFromSecondary
  <2>2. /\ pc[t] = "copy" /\ pc' = [pc EXCEPT ![t] = "unlock"]
        /\ UNCHANGED <<lock, cachedTags, flight, answer, newTs>>
    BY <1>6 DEF CopyFromSecondary, Goto
  <2>3. \A u \in Tasks : pc'[u] \in Locked => lock'[DigestOf[u]] = u
    BY <2>2 DEF IInv, TypeOK, LockInv, Locked
  <2> QED BY <1>0, <2>1, <2>2, <2>3, CopyBrings, BringStep
<1>7. CASE SkipRecheck(t)
  <2>1. /\ pc[t] = "recheck" /\ pc' = [pc EXCEPT ![t] = "store"]
        /\ PublishTagCacheSync[ProcOf[t]] # TRUE
        /\ GenerateStageDescCreationTs(t)
        /\ Quiet
        /\ UNCHANGED <<lock, cachedTags, flight, answer, used, looked>>
    BY <1>7 DEF SkipRecheck, Goto, Quiet
  <2>2. t \notin looked
    BY <2>1 DEF IInv, LookedInv
  <2>3. \A u \in Tasks : pc'[u] = IF u = t THEN "store" ELSE pc[u]
    BY <2>1 DEF IInv, TypeOK
  <2>4. LockInv' /\ FlightInv'
    BY <2>1, <2>3 DEF IInv, TypeOK, LockInv, FlightInv, Locked, Waiting
  <2>5. ListsInv'
    BY <2>1, QuietLists DEF IInv, ListsInv
  <2>6. LookedInv' /\ FreshInv'
    <3>1. \A u \in looked : pc'[u] = pc[u] /\ u \in Tasks
      BY <2>2, <2>3 DEF IInv, TypeOK
    <3> QED
      BY <2>1, <3>1, QuietLists DEF IInv, LookedInv, FreshInv, Fresh, Quiet
  <2>7. NamedInv'
    BY <2>1, <2>3, NamedNow
  <2>8. UsedInv' /\ EveryoneReuses'
    <3>1. UsedInv'
      BY <2>1, <2>3 DEF IInv, UsedInv, Ended
    <3> QED BY <2>1, <3>1, QuietUsed
  <2> QED
    BY <1>0, <2>1, <2>4, <2>5, <2>6, <2>7, <2>8, QuietStep DEF TaskInv
<1>8. CASE Recheck(t)
  <2> DEFINE found == StageDescSet(t, repo, answer[t])
  <2>1. /\ pc[t] = "recheckGot"
        /\ cachedTags' = [cachedTags EXCEPT ![ProcOf[t]] = answer[t]]
        /\ Quiet
        /\ UNCHANGED <<lock, flight, answer, looked>>
    BY <1>8 DEF Recheck, Quiet
  <2>2. PICK label \in {"unlock", "store"} : pc' = [pc EXCEPT ![t] = label]
    BY <1>8 DEF Recheck, Goto
  <2>3. \A u \in Tasks : pc'[u] = IF u = t THEN label ELSE pc[u]
    BY <2>2 DEF IInv, TypeOK
  <2>4. LockInv' /\ FlightInv'
    BY <2>1, <2>3 DEF IInv, TypeOK, LockInv, FlightInv, Locked, Waiting
  <2>5. ListsInv'
    <3>1. \A p \in Procs : Snapshot(cachedTags'[p])
      BY <2>1 DEF IInv, TypeOK, ListsInv
    <3> QED BY <2>1, <3>1, QuietLists DEF IInv, ListsInv, Quiet, Snapshot, TagsOf
  <2>6. LookedInv'
    BY <2>1, <2>3 DEF IInv, TypeOK, LookedInv, Looking
  <2>7. ASSUME NEW u \in looked, u # t
        PROVE  Fresh(u)'
    <3>1. Fresh(u) /\ pc'[u] = pc[u] /\ u \in Tasks
      BY <2>3, <2>7 DEF IInv, TypeOK, FreshInv
    <3> QED BY <2>1, <3>1, QuietLists DEF Fresh, Quiet
  <2>8. CASE \E x \in SelectSuitableStageDesc(t, found) :
                /\ used' = [used EXCEPT ![t] = x]
                /\ Goto(t, "unlock")
                /\ UNCHANGED newTs
    <3>1. PICK x \in SelectSuitableStageDesc(t, found) :
                /\ used' = [used EXCEPT ![t] = x]
                /\ Goto(t, "unlock")
                /\ UNCHANGED newTs
      BY <2>8
    <3>2. EveryoneReuses' /\ x.digest = DigestOf[t]
      BY <2>1, <3>1, ReuseStep DEF IInv, ListsInv
    <3>3. UsedInv'
      BY <3>1, <3>2 DEF IInv, TypeOK, UsedInv, Goto
    <3>4. \A u \in Tasks : pc'[u] = IF u = t THEN "unlock" ELSE pc[u]
      BY <3>1 DEF IInv, TypeOK, Goto
    <3>5. FreshInv'
      <4>1. Fresh(t)'
        <5>1. pc'[t] = "unlock"
          BY <3>4
        <5> QED BY <5>1 DEF Fresh
      <4> QED BY <2>1, <2>7, <4>1 DEF FreshInv
    <3>6. NamedInv'
      <4>1. \A u \in Tasks : pc'[u] = "store" => pc[u] = "store"
        BY <3>4
      <4> QED BY <2>1, <3>1, <4>1, QuietNamed DEF IInv, NamedInv
    <3> QED
      BY <1>0, <2>1, <2>4, <2>5, <2>6, <3>2, <3>3, <3>5, <3>6, QuietStep
      DEF TaskInv
  <2>9. CASE /\ Suitable(t, found) = {}
             /\ GenerateStageDescCreationTs(t)
             /\ Goto(t, "store")
             /\ UNCHANGED used
    <3>1. \A u \in Tasks : pc'[u] = IF u = t THEN "store" ELSE pc[u]
      BY <2>9 DEF IInv, TypeOK, Goto
    <3>2. NamedInv'
      BY <2>1, <2>9, <3>1, NamedNow
    <3>3. UsedInv' /\ EveryoneReuses'
      <4>1. UsedInv'
        BY <2>1, <2>9, <3>1 DEF IInv, UsedInv, Ended
      <4> QED BY <2>1, <2>9, <4>1, QuietUsed
    <3>4. FreshInv'
      <4>1. ASSUME t \in looked
            PROVE  Fresh(t)'
        <5>1. Complete(t, answer[t])
          BY <2>1, <4>1 DEF IInv, FreshInv, Fresh
        <5>2. Usable(t, repo) = {}
          BY <2>9, <5>1, FoundChar, UsableChar DEF Complete, Match
        <5>3. pc'[t] = "store"
          BY <3>1
        <5> QED BY <2>1, <5>2, <5>3 DEF Fresh, Quiet
      <4> QED BY <2>1, <2>7, <4>1 DEF FreshInv
    <3> QED
      BY <1>0, <2>1, <2>4, <2>5, <2>6, <3>2, <3>3, <3>4, QuietStep
      DEF TaskInv
  <2> QED BY <1>8, <2>8, <2>9 DEF Recheck
<1>9. CASE StoreImage(t)
  <2>1. /\ pc[t] = "store" /\ Store(t)
        /\ used' = [used EXCEPT ![t] = NewStage(t)]
        /\ pc' = [pc EXCEPT ![t] = "unlock"]
        /\ UNCHANGED <<lock, cachedTags, flight, answer, newTs>>
    BY <1>9 DEF StoreImage, Goto
  <2>2. \A u \in Tasks : pc'[u] \in Locked => lock'[DigestOf[u]] = u
    BY <2>1 DEF IInv, TypeOK, LockInv, Locked
  <2> QED BY <1>0, <2>1, <2>2, StoreBrings, BringStep
<1>10. CASE Unlock(t)
  <2>1. /\ pc[t] = "unlock"
        /\ lock' = [lock EXCEPT ![DigestOf[t]] = NoTask]
        /\ pc' = [pc EXCEPT ![t] = "done"]
        /\ Quiet
        /\ UNCHANGED <<cachedTags, flight, answer, newTs, used, looked>>
    BY <1>10 DEF Unlock, Goto, Quiet
  <2>2. \A u \in Tasks : pc'[u] \in Locked => lock'[DigestOf[u]] = u
    BY <2>1, LockFreed DEF Locked
  <2>3. TaskInv'
    BY <2>1, <2>2, PlainStep DEF Waiting, Ended
  <2> QED BY <1>0, <2>1, <2>3, QuietStep
<1> QED
  BY <1>1, <1>2, <1>3, <1>4, <1>5, <1>6, <1>7, <1>8, <1>9, <1>10
  DEF TaskStep

LEMMA FailStepInv ==
    ASSUME IInv, NEW t \in Tasks, TaskFails(t)
    PROVE  IInv'
<1> USE TaskAssumption, ProcAssumption DEF history
<1>0. [Next]_vars
  BY DEF Next
<1>1. CASE BuildFails(t) \/ LockFails(t)
  <2>1. TaskInv'
    BY <1>1, PlainStep
    DEF BuildFails, LockFails, Goto, IInv, TypeOK, LockInv, Waiting, Locked,
        Ended, Quiet
  <2> QED BY <1>0, <1>1, <2>1, QuietStep DEF BuildFails, LockFails, Quiet
<1>2. CASE StoreFails(t)
  <2>1. /\ pc[t] \in {"store", "copy"}
        /\ lock' = [lock EXCEPT ![DigestOf[t]] = NoTask]
        /\ pc' = [pc EXCEPT ![t] = "failed"]
        /\ UNCHANGED <<cachedTags, flight, answer, newTs, used>>
    BY <1>2 DEF StoreFails, Goto
  <2>2. \A u \in Tasks : pc'[u] \in Locked => lock'[DigestOf[u]] = u
    BY <2>1, LockFreed DEF Locked, Ended
  <2>3. CASE UNCHANGED <<repo, now, history>>
    <3>1. TaskInv'
      BY <2>1, <2>2, <2>3, PlainStep DEF Waiting, Ended, Quiet
    <3> QED BY <1>0, <2>3, <3>1, QuietStep DEF Quiet
  <2>4. CASE pc[t] = "store" /\ Store(t)
    BY <1>0, <2>1, <2>2, <2>4, StoreBrings, BringStep
  <2>5. CASE /\ pc[t] = "copy"
             /\ \E s \in SelectSuitableStageDesc(t, SecondaryStages(t)) :
                   Copy(t, s)
    BY <1>0, <2>1, <2>2, <2>5, CopyBrings, BringStep
  <2> QED BY <1>2, <2>3, <2>4, <2>5 DEF StoreFails
<1> QED BY <1>1, <1>2 DEF TaskFails

LEMMA ListTagsInv ==
    ASSUME IInv, NEW p \in Procs, ListTags(p)
    PROVE  IInv'
<1>1. /\ flight' = [flight EXCEPT ![p] = [waiters |-> @.waiters,
                                          tags |-> TagsOf(repo)]]
      /\ Quiet
      /\ UNCHANGED <<lock, mutex, cachedTags, answer, pc, newTs, used>>
  BY DEF ListTags, Quiet
<1>2. \A q \in Procs :
         /\ flight'[q].waiters = flight[q].waiters
         /\ flight'[q].tags = IF q = p THEN TagsOf(repo) ELSE flight[q].tags
  BY <1>1 DEF IInv, TypeOK
<1>3. \A u \in looked' :
         \/ u \in looked
         \/ /\ u \in Tasks /\ ProcOf[u] = p /\ PublishTagCacheSync[p]
            /\ pc[u] \in {"recheck", "recheckWait"}
  BY DEF ListTags, proc
<1>4. \A u \in Tasks : ProcOf[u] \in Procs
  BY ProcAssumption
<1>5. LockInv' /\ UsedInv'
  BY <1>1 DEF IInv, LockInv, UsedInv
<1>6. FlightInv'
  BY <1>1, <1>2 DEF IInv, FlightInv
<1>7. ListsInv'
  <2>1. Snapshot(TagsOf(repo))
    <3>1. \A s \in repo : TagOf(s) \in TagsOf(repo)
      BY DEF TagsOf
    <3> QED BY <3>1 DEF Snapshot
  <2>2. Snapshot(TagsOf(repo))'
    BY <1>1, <2>1 DEF Quiet, Snapshot, TagsOf
  <2>3. \A q \in Procs : Snapshot(flight'[q].tags)
    BY <1>1, <1>2, <2>1 DEF IInv, ListsInv
  <2> QED BY <1>1, <2>3, QuietLists DEF IInv, ListsInv
<1>8. LookedInv'
  BY <1>1, <1>3 DEF IInv, LookedInv, Looking
<1>9. FreshInv'
  <2> SUFFICES ASSUME NEW u \in looked'
               PROVE  Fresh(u)'
    BY DEF FreshInv
  <2>1. u \in Tasks
    BY <1>3 DEF IInv, TypeOK
  <2>2. \A v \in Tasks : Complete(v, TagsOf(repo))
    BY DEF Complete, TagsOf
  <2>3. CASE u \in looked
    <3>1. Fresh(u)
      BY <2>3 DEF IInv, FreshInv
    <3> QED
      BY <1>1, <1>2, <1>4, <2>1, <2>2, <3>1 DEF Quiet, Fresh, Complete
  <2>4. CASE u \notin looked
    <3>1. pc'[u] \in {"recheck", "recheckWait"} /\ ProcOf[u] = p
      BY <1>1, <1>3, <2>4
    <3> QED BY <1>1, <1>2, <2>1, <2>2, <3>1 DEF Quiet, Fresh, Complete
  <2> QED BY <2>3, <2>4
<1>10. NamedInv' /\ EveryoneReuses'
  BY <1>1, QuietNamed, QuietUsed DEF IInv, NamedInv
<1>11. TaskInv'
  BY <1>5, <1>6, <1>7, <1>8, <1>9, <1>10 DEF TaskInv
<1>12. [Next]_vars
  BY DEF Next, ProcStep
<1> QED BY <1>1, <1>11, <1>12, QuietStep

\* The query of a process ends.
LEMMA FlightEnds ==
    ASSUME IInv, NEW p \in Procs,
           flight' = [flight EXCEPT ![p] = NoFlight], Quiet,
           cachedTags' = cachedTags,
           \A u \in Tasks : Snapshot(answer'[u])
    PROVE  /\ \A q \in Procs : flight'[q] = IF q = p THEN NoFlight ELSE flight[q]
           /\ ListsInv'
<1>1. \A q \in Procs : flight'[q] = IF q = p THEN NoFlight ELSE flight[q]
  BY DEF IInv, TypeOK
<1>2. Snapshot(NoTags)
  BY DEF Snapshot
<1>3. \A q \in Procs : Snapshot(flight'[q].tags)
  BY <1>1, <1>2 DEF IInv, ListsInv, NoFlight
<1>4. ListsInv'
  BY <1>3, QuietLists DEF IInv, ListsInv
<1> QED BY <1>1, <1>4

LEMMA DeliverInv ==
    ASSUME IInv, NEW p \in Procs, Deliver(p)
    PROVE  IInv'
<1>1. /\ flight[p].tags # NoTags
      /\ flight' = [flight EXCEPT ![p] = NoFlight]
      /\ Quiet
      /\ UNCHANGED <<lock, mutex, cachedTags, newTs, used, looked>>
  BY DEF Deliver, Quiet, history
<1>2. \A u \in Tasks :
         answer'[u] = IF u \in flight[p].waiters THEN flight[p].tags
                      ELSE answer[u]
  BY DEF Deliver
<1>3. \A u \in flight[p].waiters : ProcOf[u] = p /\ pc[u] \in Waiting
  BY DEF IInv, FlightInv
<1>4. \A u \in Tasks :
         /\ u \notin flight[p].waiters => pc'[u] = pc[u]
         /\ u \in flight[p].waiters =>
               /\ pc'[u] \in Got
               /\ pc'[u] = "recheckGot" <=> pc[u] = "recheckWait"
  BY <1>3 DEF Deliver, Got, Waiting
<1>5. \A q \in Procs : flight'[q] = IF q = p THEN NoFlight ELSE flight[q]
  BY <1>1 DEF IInv, TypeOK
<1>6. LockInv'
  BY <1>1, <1>3, <1>4 DEF IInv, LockInv, Locked, Got
<1>7. FlightInv'
  <2> SUFFICES ASSUME NEW q \in Procs, NEW u \in flight'[q].waiters
               PROVE  ProcOf[u] = q /\ pc'[u] \in Waiting
    BY DEF FlightInv
  <2>1. q # p /\ u \in flight[q].waiters
    BY <1>5 DEF NoFlight
  <2>2. u \in Tasks /\ u \notin flight[p].waiters
    BY <1>3, <2>1 DEF IInv, TypeOK, FlightInv
  <2> QED BY <1>4, <2>1, <2>2 DEF IInv, FlightInv
<1>8. ListsInv'
  <2>1. \A u \in Tasks : Snapshot(answer'[u])
    BY <1>2 DEF IInv, ListsInv
  <2> QED BY <1>1, <2>1, FlightEnds
<1>9. LookedInv' /\ FreshInv'
  <2> SUFFICES ASSUME NEW u \in looked
               PROVE  /\ pc'[u] \in Looking \cup Ended
                      /\ PublishTagCacheSync[ProcOf[u]]
                      /\ Fresh(u)'
    BY <1>1 DEF LookedInv, FreshInv
  <2>1. /\ Fresh(u) /\ u \in Tasks /\ ProcOf[u] \in Procs
        /\ pc[u] \in Looking \cup Ended /\ PublishTagCacheSync[ProcOf[u]]
    BY ProcAssumption DEF IInv, TypeOK, FreshInv, LookedInv
  <2>2. CASE u \in flight[p].waiters
    <3>1. pc[u] = "recheckWait" /\ pc'[u] = "recheckGot" /\ ProcOf[u] = p
      BY <1>3, <1>4, <2>1, <2>2 DEF Looking, Waiting, Ended
    <3>2. Complete(u, flight[p].tags) /\ answer'[u] = flight[p].tags
      BY <1>1, <1>2, <2>1, <2>2, <3>1 DEF Fresh
    <3> QED BY <1>1, <2>1, <3>1, <3>2 DEF Fresh, Looking, Quiet, Complete
  <2>3. CASE u \notin flight[p].waiters
    <3>1. pc'[u] = pc[u] /\ answer'[u] = answer[u]
      BY <1>2, <1>4, <2>1, <2>3
    <3>2. flight'[ProcOf[u]].tags # NoTags => flight'[ProcOf[u]] = flight[ProcOf[u]]
      BY <1>5, <2>1 DEF NoFlight
    <3> QED BY <1>1, <2>1, <3>1, <3>2 DEF Fresh, Quiet, Complete
  <2> QED BY <2>2, <2>3
<1>10. NamedInv'
  <2>1. \A u \in Tasks : pc'[u] = "store" => pc[u] = "store"
    BY <1>4 DEF Got
  <2> QED BY <1>1, <2>1, QuietNamed DEF IInv, NamedInv
<1>11. UsedInv' /\ EveryoneReuses'
  <2>1. \A u \in Tasks : pc[u] \in Ended \cup {"unlock"} => pc'[u] = pc[u]
    BY <1>3, <1>4 DEF Waiting, Ended
  <2>2. UsedInv'
    BY <1>1, <2>1 DEF IInv, UsedInv
  <2> QED BY <1>1, <2>2, QuietUsed
<1>12. TaskInv'
  BY <1>6, <1>7, <1>8, <1>9, <1>10, <1>11 DEF TaskInv
<1>13. [Next]_vars
  BY DEF Next, ProcStep
<1> QED BY <1>1, <1>12, <1>13, QuietStep

\* Tasks leave for an end and the query of their process, if any, is gone.
LEMMA TasksEnd ==
    ASSUME IInv, NEW p \in Procs, NEW gone \in SUBSET Tasks, NEW label \in Ended,
           flight[p].waiters \subseteq gone,
           flight' = [flight EXCEPT ![p] = NoFlight],
           pc' = [u \in Tasks |-> IF u \in gone THEN label ELSE pc[u]],
           \A u \in Tasks \ gone : pc[u] \in Locked => lock'[DigestOf[u]] = u,
           \A u \in gone : ProcOf[u] = p,
           Quiet, UNCHANGED <<cachedTags, answer, newTs, used, looked>>
    PROVE  TaskInv'
<1>1. \A q \in Procs : flight'[q] = IF q = p THEN NoFlight ELSE flight[q]
  BY DEF IInv, TypeOK
<1>2. LockInv'
  BY DEF LockInv, Locked, Ended
<1>3. FlightInv'
  <2> SUFFICES ASSUME NEW q \in Procs, NEW u \in flight'[q].waiters
               PROVE  ProcOf[u] = q /\ pc'[u] \in Waiting
    BY DEF FlightInv
  <2>1. q # p /\ u \in flight[q].waiters
    BY <1>1 DEF NoFlight
  <2>2. u \in Tasks /\ u \notin gone
    BY <2>1 DEF IInv, TypeOK, FlightInv
  <2> QED BY <2>1, <2>2 DEF IInv, FlightInv
<1>4. ListsInv'
  <2>1. \A u \in Tasks : Snapshot(answer'[u])
    BY DEF IInv, ListsInv
  <2> QED BY <2>1, FlightEnds
<1>5. LookedInv'
  BY DEF IInv, TypeOK, LookedInv
<1>6. FreshInv'
  <2> SUFFICES ASSUME NEW u \in looked
               PROVE  Fresh(u)'
    BY DEF FreshInv
  <2>1. Fresh(u) /\ u \in Tasks /\ ProcOf[u] \in Procs
    BY ProcAssumption DEF IInv, TypeOK, FreshInv
  <2>2. CASE u \in gone
    <3>1. pc'[u] \in Ended
      BY <2>1, <2>2
    <3> QED BY <3>1 DEF Fresh, Ended
  <2>3. CASE u \notin gone
    <3>1. pc'[u] = pc[u]
      BY <2>1, <2>3
    <3>2. flight'[ProcOf[u]].tags # NoTags => flight'[ProcOf[u]] = flight[ProcOf[u]]
      BY <1>1, <2>1 DEF NoFlight
    <3> QED BY <2>1, <3>1, <3>2 DEF Fresh, Quiet, Complete
  <2> QED BY <2>2, <2>3
<1>7. NamedInv'
  <2>1. \A u \in Tasks : pc'[u] = "store" => pc[u] = "store"
    BY DEF Ended
  <2> QED BY <2>1, QuietNamed DEF IInv, NamedInv
<1>8. UsedInv' /\ EveryoneReuses'
  <2>1. UsedInv'
    BY DEF IInv, UsedInv
  <2> QED BY <2>1, QuietUsed
<1> QED BY <1>2, <1>3, <1>4, <1>5, <1>6, <1>7, <1>8 DEF TaskInv

LEMMA OtherStepInv ==
    ASSUME IInv,
           \/ \E p \in Procs : QueryFails(p) \/ Crash(p)
           \/ \E d \in Digests : LeaseExpires(d)
           \/ UNCHANGED vars
    PROVE  IInv'
<1> USE TaskAssumption, ProcAssumption DEF history
<1>0. [Next]_vars
  BY DEF Next
<1>1. ASSUME NEW p \in Procs, QueryFails(p)
      PROVE  IInv'
  <2> DEFINE gone == flight[p].waiters
  <2>1. /\ flight' = [flight EXCEPT ![p] = NoFlight]
        /\ pc' = [u \in Tasks |-> IF u \in gone THEN "failed" ELSE pc[u]]
        /\ Quiet
        /\ UNCHANGED <<cachedTags, answer, newTs, used, looked>>
    BY <1>1 DEF QueryFails, Quiet
  <2>2. gone \in SUBSET Tasks /\ \A u \in gone : ProcOf[u] = p
    BY DEF IInv, TypeOK, FlightInv
  <2>3. \A u \in Tasks \ gone : pc[u] \in Locked => lock'[DigestOf[u]] = u
    BY <1>1 DEF QueryFails, IInv, LockInv
  <2>4. TaskInv'
    BY <2>1, <2>2, <2>3, TasksEnd DEF Ended
  <2> QED BY <1>0, <2>1, <2>4, QuietStep
<1>2. ASSUME NEW p \in Procs, Crash(p)
      PROVE  IInv'
  <2> DEFINE gone == {u \in Tasks : ProcOf[u] = p /\ pc[u] \notin Ended}
  <2>1. /\ flight' = [flight EXCEPT ![p] = NoFlight]
        /\ pc' = [u \in Tasks |-> IF u \in gone THEN "crashed" ELSE pc[u]]
        /\ Quiet
        /\ UNCHANGED <<lock, cachedTags, answer, newTs, used, looked>>
    BY <1>2 DEF Crash, proc, Quiet
  <2>2. flight[p].waiters \subseteq gone
    BY DEF IInv, TypeOK, FlightInv, Waiting, Ended
  <2>3. \A u \in Tasks \ gone : pc[u] \in Locked => lock'[DigestOf[u]] = u
    BY <2>1 DEF IInv, LockInv
  <2>4. gone \in SUBSET Tasks /\ \A u \in gone : ProcOf[u] = p
    OBVIOUS
  <2> HIDE DEF gone
  <2>5. TaskInv'
    BY <2>1, <2>2, <2>3, <2>4, TasksEnd DEF Ended
  <2> QED BY <1>0, <2>1, <2>5, QuietStep
<1>3. ASSUME NEW d \in Digests, LeaseExpires(d)
      PROVE  IInv'
  <2>1. /\ pc[lock[d]] = "crashed"
        /\ lock' = [lock EXCEPT ![d] = NoTask]
        /\ Quiet
        /\ UNCHANGED <<mutex, cachedTags, flight, answer, pc, newTs, used, looked>>
    BY <1>3 DEF LeaseExpires, Quiet
  <2>2. LockInv'
    BY <2>1 DEF IInv, TypeOK, LockInv, Locked
  <2> QED BY <1>0, <2>1, <2>2, SameTasks, QuietStep
<1>4. CASE UNCHANGED vars
  <2>1. Quiet /\ LockInv'
    BY <1>4 DEF vars, IInv, LockInv, Quiet
  <2> QED BY <1>0, <1>4, <2>1, SameTasks, QuietStep DEF vars
<1> QED BY <1>1, <1>2, <1>3, <1>4

LEMMA InitInv == ASSUME Init PROVE IInv
<1> USE TaskAssumption, ProcAssumption, ClockAssumption
<1>1. TypeOK
  BY InitType
<1>2. LockInv /\ LookedInv /\ FreshInv /\ NamedInv /\ UsedInv /\ EveryoneReuses
  BY DEF Init, LockInv, LookedInv, FreshInv, NamedInv, UsedInv, EveryoneReuses,
         Locked
<1>3. FlightInv
  BY DEF Init, FlightInv, NoFlight
<1>4. ListsInv
  BY DEF Init, ListsInv, Snapshot, NoFlight
<1>5. UniqueTags /\ PublishedOnce
  BY DEF Init, UniqueTags, PublishedOnce
<1>6. \A f : f \in ledger <=> \E s \in Published :
         f = [stage |-> s, by |-> NoTask, at |-> 0, how |-> "start"]
  BY DEF Init
<1>7. LedgerInv
  <2>1. \A f \in ledger : /\ f.at = 0 /\ f.how = "start"
                          /\ f.stage.ts \in Nat /\ f.stage.ts < Epoch
    BY <1>6 DEF Stage
  <2> QED BY <2>1 DEF Init, LedgerInv
<1>8. RepoLogged
  <2> SUFFICES ASSUME NEW s \in repo
               PROVE  \E f \in ledger : f.stage = s /\ f.how # "recopied"
    BY DEF RepoLogged
  <2>1. [stage |-> s, by |-> NoTask, at |-> 0, how |-> "start"] \in ledger
    BY <1>6 DEF Init
  <2> QED BY <2>1
<1> QED BY <1>1, <1>2, <1>3, <1>4, <1>5, <1>7, <1>8 DEF IInv

LEMMA StepInv == ASSUME IInv, [Next]_vars PROVE IInv'
  BY TaskStepInv, FailStepInv, ListTagsInv, DeliverInv, OtherStepInv
  DEF Next, ProcStep, Finished

-----------------------------------------------------------------------------
(* Theorems about publication.                                             *)

(* The inductive invariant holds throughout: a list of tags, however old,  *)
(* lacks no stage that is older than one it has, unless that came out of   *)
(* turn; the list a task looks at under the stage lock is complete for its *)
(* digest; nobody else publishes under the same lock; and what is named    *)
(* under it is younger, on its builder's clock, than all of the digest.    *)
THEOREM Invariance == Spec => []IInv
<1>1. Init => IInv
  BY InitInv
<1>2. IInv /\ [Next]_vars => IInv'
  BY StepInv
<1> QED BY <1>1, <1>2, PTL DEF Spec

(* Of builders whose commits may reuse each other's stages one publishes,  *)
(* however many there are and whichever of them crash, but for stages that *)
(* came unseen: the second lookup of atomicBuildStageImage under the stage *)
(* lock is enough whenever it really asks the registry.                    *)
THEOREM OnlyOneLayer == Spec => []PublishedOnce
<1>1. IInv => PublishedOnce
  BY DEF IInv
<1> QED BY <1>1, Invariance, PTL

(* Every builder ends up with the stage that a lookup in the repo selects, *)
(* although calculateStage decides from cached and old lists of tags, but  *)
(* for stages that came out of turn.                                       *)
THEOREM AllReuse == Spec => []EveryoneReuses
<1>1. IInv => EveryoneReuses
  BY DEF IInv
<1> QED BY <1>1, Invariance, PTL

-----------------------------------------------------------------------------
(* Every step is one of the abstract store.                                *)

Reuses(t) ==
    /\ used[t] = NoStage
    /\ \E x \in Usable(t, repo) :
          /\ \A r \in Usable(t, repo) \ {x} :
                x.ts < r.ts \/ OutOfTurn(ledger, r, x)
          /\ used' = [used EXCEPT ![t] = x]
    /\ UNCHANGED <<repo, ledger>>

Adds(t) ==
    /\ used[t] = NoStage
    /\ \E s, how :
          /\ Brings(t, s, how)
          /\ used' = used \/ used' = [used EXCEPT ![t] = s]

LEMMA SelectReuses ==
    ASSUME IInv, NEW t \in Tasks, NEW tags, Snapshot(tags), Quiet,
           NEW x \in SelectSuitableStageDesc(t, StageDescSet(t, repo, tags)),
           used' = [used EXCEPT ![t] = x], used[t] = NoStage
    PROVE  Reuses(t)
  BY ReuseStep DEF Reuses, Quiet

LEMMA ConcludeReuses ==
    ASSUME IInv, NEW t \in Tasks, NEW tags, Snapshot(tags), Quiet,
           Conclude(t, StageDescSet(t, repo, tags)), used[t] = NoStage
    PROVE  Reuses(t) \/ used' = used
  BY SelectReuses DEF Conclude

LEMMA StoreStep ==
    ASSUME IInv, [Next]_vars
    PROVE  \/ UNCHANGED <<repo, used, ledger>>
           \/ \E t \in Tasks : Reuses(t) \/ Adds(t)
<1> DEFINE Goal == \/ UNCHANGED <<repo, used, ledger>>
                   \/ \E t \in Tasks : Reuses(t) \/ Adds(t)
<1> USE DEF history
<1>1. ASSUME NEW t \in Tasks, TaskStep(t)
      PROVE  Goal
  <2>1. CASE LookupCached(t)
    <3>1. used[t] = NoStage /\ Quiet
      BY <2>1 DEF LookupCached, IInv, UsedInv, Ended, Quiet
    <3>2. Snapshot(cachedTags[ProcOf[t]])
      BY ProcAssumption DEF IInv, ListsInv
    <3>3. \/ used' = used
          \/ Conclude(t, StageDescSet(t, repo, cachedTags[ProcOf[t]]))
      BY <2>1 DEF LookupCached, proc
    <3>4. Reuses(t) \/ used' = used
      BY <3>1, <3>2, <3>3, ConcludeReuses
    <3> QED BY <3>1, <3>4 DEF Quiet
  <2>2. CASE ReceiveLookup(t)
    <3>1. used[t] = NoStage /\ Quiet
      BY <2>2 DEF ReceiveLookup, IInv, UsedInv, Ended, Quiet
    <3>2. Snapshot(answer[t])
      BY DEF IInv, ListsInv
    <3>3. used' = used \/ Conclude(t, StageDescSet(t, repo, answer[t]))
      BY <2>2 DEF ReceiveLookup
    <3>4. Reuses(t) \/ used' = used
      BY <3>1, <3>2, <3>3, ConcludeReuses
    <3> QED BY <3>1, <3>4 DEF Quiet
  <2>3. CASE Recheck(t)
    <3>1. used[t] = NoStage /\ Quiet
      BY <2>3 DEF Recheck, IInv, UsedInv, Ended, Quiet
    <3>2. \/ used' = used
          \/ \E x \in SelectSuitableStageDesc(t, StageDescSet(t, repo, answer[t])) :
                used' = [used EXCEPT ![t] = x]
      BY <2>3 DEF Recheck
    <3>3. Reuses(t) \/ used' = used
      BY <3>1, <3>2, SelectReuses DEF IInv, ListsInv
    <3> QED BY <3>1, <3>3 DEF Quiet
  <2>4. CASE StoreImage(t)
    <3>1. used[t] = NoStage
      BY <2>4 DEF StoreImage, IInv, UsedInv, Ended
    <3>2. Adds(t)
      BY <2>4, <3>1, StoreBrings DEF StoreImage, Adds
    <3> QED BY <3>2
  <2>5. CASE CopyFromSecondary(t)
    <3>1. used[t] = NoStage
      BY <2>5 DEF CopyFromSecondary, IInv, UsedInv, Ended
    <3>2. Adds(t)
      BY <2>5, <3>1, CopyBrings DEF CopyFromSecondary, Adds
    <3> QED BY <3>2
  <2> QED
    BY <1>1, <2>1, <2>2, <2>3, <2>4, <2>5
    DEF TaskStep, Begin, Query, ScanSecondary, Build, LockStage, SkipRecheck,
        Unlock
<1>2. ASSUME NEW t \in Tasks, TaskFails(t)
      PROVE  Goal
  <2>1. CASE BuildFails(t) \/ LockFails(t)
    BY <2>1 DEF BuildFails, LockFails
  <2>2. CASE StoreFails(t)
    <3>1. used[t] = NoStage /\ used' = used
      BY <2>2 DEF StoreFails, IInv, UsedInv, Ended
    <3>2. CASE UNCHANGED <<repo, now, history>>
      BY <3>1, <3>2
    <3>3. CASE pc[t] = "store" /\ Store(t)
      BY <3>1, <3>3, StoreBrings DEF Adds
    <3>4. CASE /\ pc[t] = "copy"
               /\ \E s \in SelectSuitableStageDesc(t, SecondaryStages(t)) :
                     Copy(t, s)
      BY <3>1, <3>4, CopyBrings DEF Adds
    <3> QED BY <2>2, <3>2, <3>3, <3>4 DEF StoreFails
  <2> QED BY <1>2, <2>1, <2>2 DEF TaskFails
<1>3. CASE \/ \E p \in Procs : ProcStep(p) \/ QueryFails(p) \/ Crash(p)
           \/ \E d \in Digests : LeaseExpires(d)
           \/ UNCHANGED vars
  BY <1>3
  DEF ProcStep, ListTags, Deliver, QueryFails, Crash, LeaseExpires, vars
<1> QED BY <1>1, <1>2, <1>3 DEF Next, Finished

\* The instance of the abstract store uses its own copies of the operators.
LEMMA SameOperators ==
    /\ TheStore!NoStage = NoStage
    /\ \A t, S : TheStore!Usable(t, S) = Usable(t, S)
    /\ \A S, s : TheStore!Push(S, s) = Push(S, s)
    /\ \A L, s, r : TheStore!CameAfter(L, s, r) = CameAfter(L, s, r)
  BY DEF TheStore!NoStage, NoStage, TheStore!Usable, Usable,
         TheStore!Suitable, Suitable, TheStore!StageDescSet, StageDescSet,
         TheStore!GetStagesIDsByDigest, GetStagesIDsByDigest,
         TheStore!TagsOf, TagsOf, TheStore!TagOf, TagOf, TheStore!Push, Push,
         TheStore!CameAfter, CameAfter

LEMMA ReuseImplements ==
    ASSUME NEW t \in Tasks, Reuses(t)
    PROVE  TheStore!Reuse(t)
<1>1. PICK x \in Usable(t, repo) :
         /\ \A r \in Usable(t, repo) \ {x} :
               x.ts < r.ts \/ OutOfTurn(ledger, r, x)
         /\ used' = [used EXCEPT ![t] = x]
  BY DEF Reuses
<1>2. \A r \in Usable(t, repo) \ {x} : x.ts < r.ts \/ CameAfter(ledger, r, x)
  BY <1>1, OutOfTurnCameAfter
<1> QED BY <1>1, <1>2, SameOperators DEF Reuses, TheStore!Reuse

LEMMA AddImplements ==
    ASSUME IInv, NEW t \in Tasks, Adds(t)
    PROVE  TheStore!Bring(t)
<1>1. PICK s, how : /\ Brings(t, s, how)
                    /\ used' = used \/ used' = [used EXCEPT ![t] = s]
  BY DEF Adds
<1> DEFINE e == NewEntry(t, s, how)
<1>2. /\ e \in ledger' /\ e.stage = s /\ e.by = t /\ e.how = how
      /\ \A f \in ledger : f.at < e.at
      /\ ledger' = ledger \cup {e}
  BY <1>1, NewEntryFacts DEF Brings
<1>3. e \notin ledger
  <2>1. \A f \in ledger : f.at \in Nat
    BY DEF IInv, TypeOK, Entry
  <2> QED BY <1>2, <2>1
<1> HIDE DEF e
<1>4. /\ s.digest = DigestOf[t]
      /\ how \in {"looked", "blind"} => s.commit = CommitOf[t] /\ s.parent = ParentTs[t]
      /\ how = "looked" => Usable(t, repo) = {}
      /\ how = "recopied" => s \in repo
      /\ how # "start"
      /\ repo' = Push(repo, s)
  BY <1>1, NamedFacts DEF Brings, Match
<1>5. used[t] = NoStage
  BY DEF Adds
<1> QED
  BY <1>1, <1>2, <1>3, <1>4, <1>5, SameOperators DEF TheStore!Bring

(* The builders, with their caches, queries, locks, clocks and crashes,    *)
(* implement the abstract store: onImageStage behaves as one step that     *)
(* reuses a stage or brings one.                                           *)
THEOREM Refinement == Spec => ImplementsStageStore
<1>1. Init => TheStore!StoreInit
  BY SameOperators DEF Init, TheStore!StoreInit
<1>2. IInv /\ [Next]_vars => [TheStore!StoreNext]_(TheStore!storeVars)
  BY StoreStep, ReuseImplements, AddImplements
  DEF TheStore!StoreNext, TheStore!storeVars
<1> QED
  BY <1>1, <1>2, Invariance, PTL
  DEF Spec, ImplementsStageStore, TheStore!StoreSpec

(* No step puts other content under a tag that exists (StoreImage), but    *)
(* for a stage that comes out of turn.                                     *)
THEOREM NoOverwrite == Spec => TagNeverOverwritten
<1> DEFINE Kept == \A s \in repo, r \in repo' :
                      TagOf(s) = TagOf(r) => s = r \/ OutOfTurn(ledger', r, s)
<1>1. IInv /\ [Next]_vars => [Kept]_vars
  <2> SUFFICES ASSUME IInv, [Next]_vars,
                      NEW s \in repo, NEW r \in repo', TagOf(s) = TagOf(r)
               PROVE  s = r \/ OutOfTurn(ledger', r, s)
    OBVIOUS
  <2>1. CASE repo' = repo
    BY <2>1 DEF IInv, UniqueTags
  <2>2. ASSUME NEW t \in Tasks, NEW n, NEW how, Brings(t, n, how)
        PROVE  s = r \/ OutOfTurn(ledger', r, s)
    <3>1. /\ r = n \/ r \in repo
          /\ n \in repo => repo' = repo
      BY <2>2, PushChar DEF Brings, IInv
    <3>2. CASE r \in repo
      BY <3>2 DEF IInv, UniqueTags
    <3>3. CASE r = n /\ n \notin repo
      <4>1. r.digest = s.digest /\ r.ts <= s.ts /\ how # "recopied"
        <5>1. r.digest = s.digest /\ r.ts = s.ts /\ s.ts \in Nat
          BY TagEqual DEF IInv, TypeOK, Stage
        <5> QED BY <2>2, <3>3, <5>1 DEF Brings
      <4> QED BY <2>2, <3>3, <4>1, NewOutOfTurn
    <3> QED BY <3>1, <3>2, <3>3
  <2> QED BY <2>1, <2>2, StoreStep DEF Reuses, Adds
<1> QED BY <1>1, Invariance, PTL DEF Spec, TagNeverOverwritten

(* What is selected for a builder, once there is something, stays          *)
(* selected, but for a stage that comes out of turn: converge after build  *)
(* finds the stage that build reported.                                    *)
THEOREM StableSelection == Spec => SelectionStable
<1> DEFINE Stable ==
        \A t \in Tasks : \A s \in Selected(t, repo) :
           \/ s \in Selected(t, repo')
           \/ \E r \in repo' \ repo : OutOfTurn(ledger', r, s)
<1>1. IInv /\ [Next]_vars => [Stable]_vars
  <2> SUFFICES ASSUME IInv, [Next]_vars,
                      NEW u \in Tasks, NEW s \in Selected(u, repo)
               PROVE  \/ s \in Selected(u, repo')
                      \/ \E r \in repo' \ repo : OutOfTurn(ledger', r, s)
    OBVIOUS
  <2>1. CASE repo' = repo
    BY <2>1
  <2>2. ASSUME NEW t \in Tasks, NEW n, NEW how, Brings(t, n, how)
        PROVE  \/ s \in Selected(u, repo')
               \/ \E r \in repo' \ repo : OutOfTurn(ledger', r, s)
    <3>1. /\ s \in repo /\ Match(u, s)
          /\ \A r \in repo : Match(u, r) => s.ts <= r.ts
      BY SelectedChar
    <3>2. /\ n \in repo'
          /\ \A r \in repo' : r = n \/ r \in repo
          /\ s \in repo' \/ TagOf(s) = TagOf(n)
          /\ n \in repo => repo' = repo
      BY <2>2, <3>1, PushChar DEF Brings, IInv
    <3>3. n.ts \in Nat /\ s.ts \in Nat
      BY <2>2, <3>1 DEF IInv, TypeOK, Stage, Brings
    <3>4. CASE n \notin repo /\ n.digest = s.digest /\ n.ts <= s.ts
      <4>1. how # "recopied"
        BY <2>2, <3>4 DEF Brings
      <4>2. OutOfTurn(ledger', n, s)
        BY <2>2, <3>1, <3>4, <4>1, NewOutOfTurn
      <4> QED BY <3>2, <3>4, <4>2
    <3>5. CASE n.digest # s.digest \/ ~(n.ts <= s.ts)
      <4>1. s \in repo'
        BY <3>2, <3>3, <3>5, TagEqual
      <4>2. Match(u, n) => s.ts <= n.ts
        BY <3>1, <3>3, <3>5 DEF Match
      <4>3. \A r \in repo' : Match(u, r) => s.ts <= r.ts
        BY <3>1, <3>2, <4>2
      <4> QED BY <3>1, <4>1, <4>3, SelectedChar
    <3> QED BY <3>2, <3>4, <3>5
  <2> QED BY <2>1, <2>2, StoreStep DEF Reuses, Adds
<1> QED BY <1>1, Invariance, PTL DEF Spec, SelectionStable
=============================================================================
