-------------------------- MODULE StageFetchProofs --------------------------
(***************************************************************************)
(* Proofs about StageFetch, for any number of processes, hosts and stages  *)
(* and any losses: stages of a chain are ordered in time, stages that were *)
(* gone are not used again and only lost stages are rejected.              *)
(***************************************************************************)
EXTENDS StageFetch, WellFoundedInduction, TLAPS

-----------------------------------------------------------------------------
(* The inductive invariant.                                                *)

AtStage == {"lookup", "query", "resolve", "build", "publish"}
AfterStage == {"fetch", "pull", "reject"}

\* The position fits what the process does, and its chain is as long.
PositionInv ==
    \A p \in Procs :
        /\ pc[p] \in AtStage => pos[p] \in Positions
        /\ pc[p] \in AfterStage => pos[p] # 1
        /\ \A i \in Positions : IF i < pos[p] THEN chain[p][i] \in issued
                                              ELSE chain[p][i] = NoStageID

\* Stages are issued once and in the past: what was deleted never comes back.
RepoInv ==
    /\ repo \subseteq issued /\ broken \subseteq repo
    /\ purging \subseteq issued \ repo
    /\ \A s \in issued : s.ts <= now

OrderInv ==
    \A p \in Procs : \A i, j \in Positions :
        i < j /\ j < pos[p] => chain[p][i].ts <= chain[p][j].ts

\* Neither the repo nor a list that a process has made of it holds a stage that
\* was gone before the process started.
DeadInv ==
    \A p \in Procs :
        /\ dead[p] \subseteq issued \ repo
        /\ pc[p] = "start" => pos[p] = 1 /\ cachedTags[p] = NoList
        /\ cachedTags[p] # NoList =>
              cachedTags[p].tags \subseteq issued \ dead[p]
        /\ \A i \in Positions : chain[p][i] \notin dead[p]

\* A stage that is about to be rejected is lost, or is rejected already.
LostInv ==
    \A p \in Procs : pc[p] = "reject" => Wanted(p) \in rejected \cup broken \cup (issued \ repo)

IInv == TypeOK /\ PositionInv /\ RepoInv /\ OrderInv /\ DeadInv /\ LostInv

-----------------------------------------------------------------------------
(* The stage that is taken, and what taking it does to the chain.          *)

LEMMA LeastNatural ==
    ASSUME NEW S \in SUBSET Nat, S # {}
    PROVE  \E n \in S : \A m \in S : n <= m
<1> DEFINE Less == {x \in Nat \X Nat : x[1] < x[2]}
<1>1. IsWellFoundedOn(Less, Nat)
    BY NatLessThanWellFounded, Zenon DEF OpToRel
<1>2. PICK n \in S : \A m \in S : ~(<<m, n>> \in Less)
    BY <1>1, WFMin, Zenon
<1>3. \A m \in S : ~(m < n)
    BY <1>2
<1> QED
    BY <1>3

LEMMA OldestIsOne ==
    ASSUME NEW stages \in SUBSET StageID, stages # {}
    PROVE  Oldest(stages) \in stages
<1>1. {s.ts : s \in stages} \in SUBSET Nat /\ {s.ts : s \in stages} # {}
    BY FetchAssumption DEF StageID
<1>2. PICK n \in {s.ts : s \in stages} : \A m \in {s.ts : s \in stages} : n <= m
    BY <1>1, LeastNatural
<1>3. \E s \in stages : \A r \in stages : s.ts <= r.ts
    BY <1>2
<1> QED
    BY <1>3 DEF Oldest

LEMMA NoStageIsNone == NoStageID \notin StageID
BY DEF NoStageID, StageID, Positions

\* A stage found in a list of the repo is not older than its parent and was
\* not gone when the process started.
LEMMA FoundFits ==
    ASSUME NEW p \in Procs, NEW list \in Lists, Found(p, list) # {}
    PROVE  /\ Oldest(Found(p, list)) \in list.tags
           /\ Oldest(Found(p, list)) \in StageID
           /\ ParentTs(p) <= Oldest(Found(p, list)).ts
           /\ Found(p, list) \subseteq StageID
<1>1. Found(p, list) \subseteq list.tags /\ list.tags \subseteq StageID
    BY DEF Found, GetStagesIDsByDigest, Lists
<1>2. Oldest(Found(p, list)) \in Found(p, list)
    BY <1>1, OldestIsOne
<1> QED
    BY <1>1, <1>2 DEF Found, GetStagesIDsByDigest

\* The chain of the process after it has taken the stage s.
LEMMA Taking ==
    ASSUME IInv, NEW p \in Procs, pos[p] \in Positions, NEW s \in StageID, Use(p, s),
           ParentTs(p) <= s.ts, s \in issued', issued \subseteq issued'
    PROVE  /\ pc' \in [Procs -> Labels] /\ pos' \in [Procs -> 1..(Len + 1)]
           /\ chain' \in [Procs -> [Positions -> StageID \cup {NoStageID}]]
           /\ pc'[p] \in {"lookup", "fetch", "done"}
           /\ \A q \in Procs : q # p => pc'[q] = pc[q] /\ pos'[q] = pos[q] /\ chain'[q] = chain[q]
           /\ \A i \in Positions : chain'[p][i] \in {chain[p][i], s}
           /\ PositionInv' /\ OrderInv'
<1> USE FetchAssumption DEF Positions
<1>1. /\ TypeOK /\ PositionInv /\ OrderInv
      /\ pos[p] \in 1..Len /\ Len \in Nat
    BY DEF IInv
<1>2. /\ pos' = [pos EXCEPT ![p] = pos[p] + 1]
      /\ chain' = [chain EXCEPT ![p][pos[p]] = s]
      /\ pc' = [pc EXCEPT ![p] = IF pos[p] < Len THEN "lookup"
                                 ELSE IF p \in FetchesLast THEN "fetch" ELSE "done"]
    BY DEF Use, Goto
<1>3. /\ pc' \in [Procs -> Labels] /\ pc'[p] \in {"lookup", "fetch", "done"}
      /\ pc'[p] = "lookup" => pos[p] < Len
      /\ \A q \in Procs : q # p => pc'[q] = pc[q]
    BY <1>1, <1>2 DEF TypeOK, Labels, Ended
<1>4. /\ pos' \in [Procs -> 1..(Len + 1)] /\ pos'[p] = pos[p] + 1
      /\ \A q \in Procs : q # p => pos'[q] = pos[q]
    BY <1>1, <1>2 DEF TypeOK
<1>5. /\ chain' \in [Procs -> [Positions -> StageID \cup {NoStageID}]]
      /\ \A i \in Positions : chain'[p][i] = IF i = pos[p] THEN s ELSE chain[p][i]
      /\ \A q \in Procs : q # p => chain'[q] = chain[q]
    BY <1>1, <1>2 DEF TypeOK
<1>6. PositionInv'
  <2>1. ASSUME NEW q \in Procs, q # p
        PROVE  /\ pc'[q] \in AtStage => pos'[q] \in Positions
               /\ pc'[q] \in AfterStage => pos'[q] # 1
               /\ \A i \in Positions : IF i < pos'[q] THEN chain'[q][i] \in issued'
                                                      ELSE chain'[q][i] = NoStageID
    BY <1>1, <1>3, <1>4, <1>5, <2>1 DEF PositionInv
  <2>2. /\ pc'[p] \in AtStage => pos'[p] \in Positions
        /\ pc'[p] \in AfterStage => pos'[p] # 1
    BY <1>1, <1>3, <1>4 DEF AtStage, AfterStage
  <2>3. ASSUME NEW i \in Positions
        PROVE  IF i < pos'[p] THEN chain'[p][i] \in issued' ELSE chain'[p][i] = NoStageID
    <3>1. IF i < pos[p] THEN chain[p][i] \in issued ELSE chain[p][i] = NoStageID
      BY <1>1 DEF PositionInv
    <3>2. chain'[p][i] = IF i = pos[p] THEN s ELSE chain[p][i]
      BY <1>5
    <3>3. CASE i = pos[p]
      BY <1>1, <1>4, <3>2, <3>3
    <3>4. CASE i < pos[p]
      BY <1>1, <1>4, <3>1, <3>2, <3>4
    <3>5. CASE i > pos[p]
      BY <1>1, <1>4, <3>1, <3>2, <3>5
    <3> QED
      BY <1>1, <3>3, <3>4, <3>5
  <2> QED
    BY <2>1, <2>2, <2>3 DEF PositionInv
<1>7. OrderInv'
  <2> SUFFICES ASSUME NEW q \in Procs, NEW i \in Positions, NEW j \in Positions,
                      i < j, j < pos'[q]
               PROVE  chain'[q][i].ts <= chain'[q][j].ts
    BY DEF OrderInv
  <2>1. CASE q # p
    BY <1>1, <1>4, <1>5, <2>1 DEF OrderInv
  <2>2. CASE q = p /\ j < pos[p]
    BY <1>1, <1>5, <2>2 DEF OrderInv
  <2>3. CASE q = p /\ j = pos[p]
    <3>1. /\ pos[p] - 1 \in Positions /\ i <= pos[p] - 1 /\ pos[p] # 1
          /\ chain'[p][i] = chain[p][i] /\ chain'[p][j] = s
      BY <1>1, <1>5, <2>3
    <3>2. chain[p][pos[p] - 1].ts <= s.ts
      BY <3>1 DEF ParentTs
    <3>3. chain[p][i].ts <= chain[p][pos[p] - 1].ts
      <4>1. CASE i = pos[p] - 1
        <5>1. chain[p][i] \in StageID
          BY <1>1, <3>1 DEF PositionInv, TypeOK
        <5> QED
          BY <4>1, <5>1 DEF StageID
      <4>2. CASE i < pos[p] - 1
        BY <1>1, <3>1, <4>2 DEF OrderInv
      <4> QED
        BY <1>1, <3>1, <4>1, <4>2
    <3>4. chain[p][i] \in StageID /\ chain[p][pos[p] - 1] \in StageID
      BY <1>1, <3>1 DEF PositionInv, TypeOK
    <3> QED
      BY <2>3, <3>1, <3>2, <3>3, <3>4 DEF StageID
  <2> QED
    BY <1>1, <1>4, <2>1, <2>2, <2>3
<1> QED
  BY <1>3, <1>4, <1>5, <1>6, <1>7

-----------------------------------------------------------------------------
(* Every step keeps the invariant.                                         *)

\* A process that only goes on to another label, and caches that only grow.
LEMMA GoingOn ==
    ASSUME IInv, NEW p \in Procs, NEW label \in Labels \ {"start"}, Goto(p, label),
           UNCHANGED <<repoVars, cachedTags, pos, chain, dead>>,
           label \in AtStage => pos[p] \in Positions,
           label \in AfterStage => pos[p] # 1,
           label = "reject" => Wanted(p) \in rejected \cup broken \cup (issued \ repo),
           manifests' \in [Hosts -> SUBSET StageID], local' \in [Hosts -> SUBSET StageID],
           cacheRepo' \subseteq StageID
    PROVE  IInv'
<1>1. TypeOK /\ PositionInv /\ RepoInv /\ OrderInv /\ DeadInv /\ LostInv
    BY DEF IInv
<1>2. /\ pc' \in [Procs -> Labels] /\ pc'[p] = label
      /\ \A q \in Procs : q # p => pc'[q] = pc[q]
    BY <1>1 DEF Goto, TypeOK
<1>3. TypeOK'
    BY <1>1, <1>2 DEF TypeOK, repoVars
<1>4. PositionInv' /\ LostInv'
    BY <1>1, <1>2 DEF PositionInv, LostInv, Wanted, repoVars
<1>5. RepoInv' /\ OrderInv'
    BY <1>1 DEF RepoInv, OrderInv, repoVars
<1>6. DeadInv'
    BY <1>1, <1>2 DEF DeadInv, repoVars
<1> QED
    BY <1>3, <1>4, <1>5, <1>6 DEF IInv

LEMMA WantedIsStage ==
    ASSUME IInv, NEW p \in Procs, pc[p] \in AfterStage
    PROVE  /\ pos[p] - 1 \in Positions /\ Wanted(p) \in issued /\ Wanted(p) \in StageID
BY FetchAssumption DEF IInv, TypeOK, PositionInv, Positions, Wanted

LEMMA FetchKeepsInvariant ==
    ASSUME IInv, NEW p \in Procs,
           \/ HasImage(p) \/ FetchFromCache(p) \/ CheckAvailability(p) \/ Pull(p)
           \/ Build(p) \/ Fails(p)
    PROVE  IInv'
<1>1. /\ TypeOK /\ PositionInv /\ host(p) \in Hosts
      /\ pos[p] \in 1..(Len + 1) /\ Len \in Nat
    BY FetchAssumption DEF IInv, TypeOK, host
<1>2. ASSUME AfterFetch(p), pc[p] \in {"fetch", "pull"}
      PROVE  \E label \in {"done", "build"} :
                Goto(p, label) /\ (label \in AtStage => pos[p] \in Positions)
    BY <1>1, <1>2 DEF AfterFetch, AtStage, Positions
<1>3. ASSUME UNCHANGED <<repoVars, cachedTags, pos, chain, dead>>,
             AfterFetch(p), pc[p] \in {"fetch", "pull"},
             manifests' \in [Hosts -> SUBSET StageID], local' \in [Hosts -> SUBSET StageID],
             cacheRepo' \subseteq StageID
      PROVE  IInv'
    BY <1>2, <1>3, GoingOn DEF Labels, Ended, AfterStage
<1>4. ASSUME pc[p] \in {"fetch", "pull"}
      PROVE  Wanted(p) \in issued /\ Wanted(p) \in StageID /\ pos[p] # 1
    BY <1>1, <1>4, WantedIsStage DEF AfterStage, PositionInv
<1>5. CASE HasImage(p)
    BY <1>1, <1>3, <1>5 DEF HasImage, TypeOK
<1>6. CASE FetchFromCache(p)
  <2>1. /\ manifests' \in [Hosts -> SUBSET StageID] /\ local' \in [Hosts -> SUBSET StageID]
        /\ cacheRepo' \subseteq StageID
    BY <1>1, <1>4, <1>6 DEF FetchFromCache, Learn, TypeOK
  <2> QED
    BY <1>3, <1>6, <2>1 DEF FetchFromCache
<1>7. CASE CheckAvailability(p)
  <2>1. PICK label \in {"pull", "reject"} :
            Goto(p, label) /\ (label = "reject" => ~InRepo(Wanted(p)))
    BY <1>7 DEF CheckAvailability
  <2>2. label = "reject" => Wanted(p) \in rejected \cup broken \cup (issued \ repo)
    BY <1>4, <1>7, <2>1 DEF CheckAvailability, InRepo
  <2>3. /\ UNCHANGED <<repoVars, cachedTags, pos, chain, dead>> /\ pos[p] # 1
        /\ manifests' \in [Hosts -> SUBSET StageID] /\ local' \in [Hosts -> SUBSET StageID]
        /\ cacheRepo' \subseteq StageID
    BY <1>1, <1>4, <1>7 DEF CheckAvailability, TypeOK
  <2> QED
    BY <2>1, <2>2, <2>3, GoingOn DEF Labels, AtStage
<1>8. CASE Pull(p)
  <2>1. /\ UNCHANGED <<repoVars, cachedTags, pos, chain, dead>> /\ pos[p] # 1
        /\ manifests' \in [Hosts -> SUBSET StageID] /\ local' \in [Hosts -> SUBSET StageID]
        /\ cacheRepo' \subseteq StageID
    BY <1>1, <1>4, <1>8 DEF Pull, TypeOK
  <2>2. CASE Wanted(p) \in broken /\ Goto(p, "reject")
    BY <2>1, <2>2, GoingOn DEF Labels, AtStage
  <2>3. CASE Goto(p, "failed")
    BY <2>1, <2>3, GoingOn DEF Labels, AtStage, AfterStage, Ended
  <2> QED
    BY <1>3, <1>8, <2>1, <2>2, <2>3 DEF Pull
<1>9. CASE Build(p) \/ Fails(p)
  <2>1. PICK label \in {"publish", "failed"} :
            Goto(p, label) /\ (label \in AtStage => pos[p] \in Positions)
    BY <1>1, <1>9 DEF Build, Fails, PositionInv, AtStage
  <2>2. /\ UNCHANGED <<repoVars, cachedTags, pos, chain, dead>>
        /\ manifests' \in [Hosts -> SUBSET StageID] /\ local' \in [Hosts -> SUBSET StageID]
        /\ cacheRepo' \subseteq StageID
    BY <1>1, <1>9 DEF Build, Fails, TypeOK
  <2> QED
    BY <2>1, <2>2, GoingOn DEF Labels, AfterStage, Ended
<1> QED
    BY <1>5, <1>6, <1>7, <1>8, <1>9

LEMMA StartKeepsInvariant ==
    ASSUME IInv, NEW p \in Procs, Start(p)
    PROVE  IInv'
<1>1. TypeOK /\ PositionInv /\ RepoInv /\ OrderInv /\ DeadInv /\ LostInv
    BY DEF IInv
<1>2. /\ pc' \in [Procs -> Labels] /\ pc'[p] = "lookup" /\ \A q \in Procs : q # p => pc'[q] = pc[q]
      /\ dead' \in [Procs -> SUBSET StageID] /\ dead'[p] = issued \ repo
      /\ \A q \in Procs : q # p => dead'[q] = dead[q]
      /\ UNCHANGED <<repoVars, cacheRepo, manifests, local, cachedTags, pos, chain>>
      /\ pos[p] = 1 /\ cachedTags[p] = NoList
    BY <1>1 DEF Start, Goto, TypeOK, Labels, DeadInv
<1>3. TypeOK'
    BY <1>1, <1>2 DEF TypeOK, repoVars
<1>4. PositionInv' /\ LostInv'
    BY <1>1, <1>2, FetchAssumption
        DEF PositionInv, LostInv, Wanted, AtStage, AfterStage, repoVars, Positions
<1>5. RepoInv' /\ OrderInv'
    BY <1>1, <1>2 DEF RepoInv, OrderInv, repoVars
<1>6. \A i \in Positions : chain[p][i] = NoStageID
    BY <1>1, <1>2 DEF PositionInv, Positions
<1>7. DeadInv'
    BY <1>1, <1>2, <1>6, NoStageIsNone DEF DeadInv, repoVars, TypeOK
<1> QED
    BY <1>3, <1>4, <1>5, <1>7 DEF IInv

LEMMA QueryKeepsInvariant ==
    ASSUME IInv, NEW p \in Procs, Query(p)
    PROVE  IInv'
<1>1. TypeOK /\ PositionInv /\ RepoInv /\ OrderInv /\ DeadInv /\ LostInv
    BY DEF IInv
<1>2. /\ pc' \in [Procs -> Labels] /\ pc[p] \in AtStage /\ pc'[p] \in {"lookup", "resolve"}
      /\ \A q \in Procs : q # p => pc'[q] = pc[q]
      /\ UNCHANGED <<repoVars, cacheRepo, manifests, local, pos, chain, dead>>
    BY <1>1 DEF Query, Goto, TypeOK, Labels, AtStage
<1>3. /\ cachedTags' \in [Procs -> Lists \cup {NoList}]
      /\ cachedTags'[p].tags = repo
      /\ \A q \in Procs : q # p => cachedTags'[q] = cachedTags[q]
    BY <1>1 DEF Query, TypeOK, Lists
<1>4. TypeOK'
    BY <1>1, <1>2, <1>3 DEF TypeOK, repoVars
<1>5. PositionInv' /\ LostInv'
    BY <1>1, <1>2 DEF PositionInv, LostInv, Wanted, AtStage, AfterStage, repoVars
<1>6. RepoInv' /\ OrderInv'
    BY <1>1, <1>2 DEF RepoInv, OrderInv, repoVars
<1>7. DeadInv'
    BY <1>1, <1>2, <1>3 DEF DeadInv, RepoInv, repoVars, AtStage
<1> QED
    BY <1>4, <1>5, <1>6, <1>7 DEF IInv

LEMMA LookupKeepsInvariant ==
    ASSUME IInv, NEW p \in Procs, Lookup(p)
    PROVE  IInv'
<1> DEFINE list == cachedTags[p]
           found == Found(p, list)
<1>1. /\ TypeOK /\ PositionInv /\ RepoInv /\ OrderInv /\ DeadInv /\ LostInv
      /\ host(p) \in Hosts /\ pos[p] \in Positions
    BY FetchAssumption DEF IInv, TypeOK, host, Lookup, PositionInv, AtStage
<1>2. list \in Lists /\ list.tags \subseteq issued \ dead[p]
    BY <1>1 DEF Lookup, TypeOK, DeadInv
<1>3. found \subseteq StageID
    BY <1>2 DEF Found, GetStagesIDsByDigest, Lists
<1>4. /\ manifests' \in [Hosts -> SUBSET StageID]
      /\ UNCHANGED <<repoVars, cacheRepo, local, cachedTags, dead>>
    BY <1>1, <1>3 DEF Lookup, Learn, TypeOK
<1>5. CASE found # {}
  <2> DEFINE s == Oldest(found)
  <2>1. Use(p, s)
    BY <1>5 DEF Lookup
  <2>2. s \in StageID /\ s \in issued \ dead[p] /\ ParentTs(p) <= s.ts
    BY <1>2, <1>5, FoundFits
  <2> HIDE DEF s, found, list
  <2>3. /\ pc' \in [Procs -> Labels] /\ pos' \in [Procs -> 1..(Len + 1)]
        /\ chain' \in [Procs -> [Positions -> StageID \cup {NoStageID}]]
        /\ pc'[p] \in {"lookup", "fetch", "done"}
        /\ \A q \in Procs : q # p => pc'[q] = pc[q] /\ pos'[q] = pos[q] /\ chain'[q] = chain[q]
        /\ \A i \in Positions : chain'[p][i] \in {chain[p][i], s}
        /\ PositionInv' /\ OrderInv'
    BY <1>1, <1>4, <2>1, <2>2, Taking DEF repoVars
  <2>4. TypeOK'
    BY <1>1, <1>4, <2>3 DEF TypeOK, repoVars
  <2>5. RepoInv' /\ LostInv'
    BY <1>1, <1>4, <2>3 DEF RepoInv, LostInv, Wanted, repoVars
  <2>6. DeadInv'
    BY <1>1, <1>4, <2>2, <2>3 DEF DeadInv, repoVars
  <2> QED
    BY <2>3, <2>4, <2>5, <2>6 DEF IInv
<1>6. CASE found = {}
  <2>1. PICK label \in {"query", "build", "fetch"} :
            Goto(p, label) /\ (label = "fetch" => pos[p] # 1)
    BY <1>6 DEF Lookup
  <2>2. UNCHANGED <<chain, pos>>
    BY <1>6 DEF Lookup
  <2>3. local' \in [Hosts -> SUBSET StageID] /\ cacheRepo' \subseteq StageID
    BY <1>1, <1>4 DEF TypeOK
  <2> QED
    BY <1>1, <1>4, <2>1, <2>2, <2>3, GoingOn DEF Labels, AfterStage
<1> QED
    BY <1>5, <1>6

LEMMA RejectKeepsInvariant ==
    ASSUME IInv, NEW p \in Procs, RejectAndRetry(p)
    PROVE  IInv'
<1> USE FetchAssumption
<1>1. TypeOK /\ PositionInv /\ RepoInv /\ OrderInv /\ DeadInv /\ LostInv
    BY DEF IInv
<1>2. /\ pc' \in [Procs -> Labels] /\ pc'[p] = "lookup" /\ \A q \in Procs : q # p => pc'[q] = pc[q]
      /\ pos' \in [Procs -> 1..(Len + 1)] /\ pos'[p] = 1
      /\ \A q \in Procs : q # p => pos'[q] = pos[q]
    BY <1>1 DEF RejectAndRetry, Goto, TypeOK, Labels
<1>3. /\ chain' \in [Procs -> [Positions -> StageID \cup {NoStageID}]]
      /\ \A i \in Positions : chain'[p][i] = NoStageID
      /\ \A q \in Procs : q # p => chain'[q] = chain[q]
    BY <1>1 DEF RejectAndRetry, TypeOK, NoChain
<1>4. /\ UNCHANGED <<repo, broken, purging, now, issued, losses, cacheRepo, manifests, local,
                     cachedTags, dead>>
      /\ rejected \subseteq rejected' /\ rejected' \subseteq StageID
    BY <1>1, WantedIsStage DEF RejectAndRetry, TypeOK, AfterStage
<1>5. TypeOK'
    BY <1>1, <1>2, <1>3, <1>4 DEF TypeOK
<1>6. PositionInv' /\ OrderInv'
  <2>1. PositionInv'
    <3>1. \A i \in Positions : ~(i < pos'[p])
      BY <1>2 DEF Positions
    <3>2. pos'[p] \in Positions
      BY <1>2 DEF Positions
    <3> QED
      BY <1>1, <1>2, <1>3, <1>4, <3>1, <3>2 DEF PositionInv, AfterStage
  <2>2. OrderInv'
    <3> SUFFICES ASSUME NEW q \in Procs, NEW i \in Positions, NEW j \in Positions,
                        i < j, j < pos'[q]
                 PROVE  chain'[q][i].ts <= chain'[q][j].ts
      BY DEF OrderInv
    <3>1. q # p
      BY <1>2 DEF Positions
    <3> QED
      BY <1>1, <1>2, <1>3, <3>1 DEF OrderInv
  <2> QED
    BY <2>1, <2>2
<1>7. RepoInv' /\ LostInv'
    BY <1>1, <1>2, <1>3, <1>4 DEF RepoInv, LostInv, Wanted
<1>8. DeadInv'
  <2>1. \A q \in Procs : \A i \in Positions : chain'[q][i] \notin dead[q]
    <3>1. NoStageID \notin dead[p]
      BY <1>1, NoStageIsNone DEF TypeOK
    <3> QED
      BY <1>1, <1>3, <3>1 DEF DeadInv
  <2> QED
    BY <1>1, <1>2, <1>4, <2>1 DEF DeadInv
<1> QED
    BY <1>5, <1>6, <1>7, <1>8 DEF IInv

LEMMA PublishKeepsInvariant ==
    ASSUME IInv, NEW p \in Procs, Publish(p)
    PROVE  IInv'
<1> USE FetchAssumption
<1> DEFINE list == [tags |-> repo, rejected |-> rejected]
           found == Found(p, list)
           new == [pos |-> pos[p], ts |-> now]
<1>1. /\ TypeOK /\ PositionInv /\ RepoInv /\ OrderInv /\ DeadInv /\ LostInv
      /\ host(p) \in Hosts /\ pos[p] \in Positions /\ now \in Nat
  <2>1. pc[p] = "publish"
    BY DEF Publish
  <2> QED
    BY <2>1 DEF IInv, TypeOK, host, PositionInv, AtStage
<1>2. list \in Lists /\ list.tags = repo
    BY <1>1 DEF TypeOK, Lists
<1>3. found \subseteq StageID
    BY <1>2 DEF Found, GetStagesIDsByDigest, Lists
<1>4. /\ manifests' \in [Hosts -> SUBSET StageID]
      /\ cachedTags' \in [Procs -> Lists \cup {NoList}] /\ cachedTags'[p] = list
      /\ \A q \in Procs : q # p => cachedTags'[q] = cachedTags[q]
      /\ UNCHANGED <<broken, rejected, purging, losses, dead>>
    BY <1>1, <1>2, <1>3 DEF Publish, Learn, TypeOK
<1>5. ASSUME NEW s \in StageID, Use(p, s), ParentTs(p) <= s.ts,
             s \in issued', s \notin dead[p], issued \subseteq issued',
             repo \subseteq repo', issued' \subseteq StageID, repo' \subseteq issued',
             repo' \ repo = issued' \ issued,
             now' \in 1..(MaxTs + 1), now <= now', \A r \in issued' : r.ts <= now',
             local' \in [Hosts -> SUBSET StageID], cacheRepo' \subseteq StageID
      PROVE  IInv'
  <2> HIDE DEF found, new
  <2>1. /\ pc' \in [Procs -> Labels] /\ pos' \in [Procs -> 1..(Len + 1)]
        /\ chain' \in [Procs -> [Positions -> StageID \cup {NoStageID}]]
        /\ pc'[p] \in {"lookup", "fetch", "done"}
        /\ \A q \in Procs : q # p => pc'[q] = pc[q] /\ pos'[q] = pos[q] /\ chain'[q] = chain[q]
        /\ \A i \in Positions : chain'[p][i] \in {chain[p][i], s}
        /\ PositionInv' /\ OrderInv'
    BY <1>1, <1>5, Taking
  <2>2. TypeOK'
    BY <1>1, <1>4, <1>5, <2>1 DEF TypeOK
  <2>3. issued \ repo \subseteq issued' \ repo'
    BY <1>5
  <2>4. RepoInv'
    BY <1>1, <1>4, <1>5, <2>3 DEF RepoInv
  <2>5. LostInv'
    <3> SUFFICES ASSUME NEW q \in Procs, pc'[q] = "reject"
                 PROVE  Wanted(q)' \in rejected' \cup broken' \cup (issued' \ repo')
      BY DEF LostInv
    <3>1. q # p /\ Wanted(q)' = Wanted(q) /\ pc[q] = "reject"
      BY <2>1 DEF Wanted
    <3> QED
      BY <1>1, <1>4, <2>3, <3>1 DEF LostInv
  <2>6. \A q \in Procs : dead[q] \subseteq issued' \ repo'
    BY <1>1, <2>3 DEF DeadInv
  <2>7. list.tags \subseteq issued' \ dead[p]
    BY <1>1, <1>2, <1>5, <2>6 DEF RepoInv
  <2> HIDE DEF list
  <2>8. DeadInv'
    <3> SUFFICES ASSUME NEW q \in Procs
                 PROVE  /\ pc'[q] = "start" => pos'[q] = 1 /\ cachedTags'[q] = NoList
                        /\ cachedTags'[q] # NoList => cachedTags'[q].tags \subseteq issued' \ dead[q]
                        /\ \A i \in Positions : chain'[q][i] \notin dead[q]
      BY <1>4, <2>6 DEF DeadInv
    <3>1. CASE q = p
      BY <1>1, <1>4, <1>5, <2>1, <2>7, <3>1 DEF DeadInv
    <3>2. CASE q # p
      BY <1>1, <1>4, <1>5, <2>1, <3>2 DEF DeadInv
    <3> QED
      BY <3>1, <3>2
  <2> QED
    BY <2>1, <2>2, <2>4, <2>5, <2>8 DEF IInv
<1>6. CASE found # {}
  <2>1. Use(p, Oldest(found)) /\ UNCHANGED <<repo, now, issued, local, cacheRepo>>
    BY <1>6 DEF Publish
  <2>2. Oldest(found) \in StageID /\ Oldest(found) \in repo /\ ParentTs(p) <= Oldest(found).ts
    BY <1>2, <1>6, FoundFits
  <2>3. repo \subseteq issued /\ repo \cap dead[p] = {} /\ issued \subseteq StageID
        /\ \A r \in issued : r.ts <= now
    BY <1>1 DEF RepoInv, DeadInv, TypeOK
  <2> HIDE DEF found
  <2> QED
    BY <1>1, <1>5, <2>1, <2>2, <2>3 DEF TypeOK
<1>7. CASE found = {}
  <2>1. /\ now <= MaxTs /\ \A s \in issued : s.pos = pos[p] => s.ts < now
        /\ repo' = repo \cup {new} /\ issued' = issued \cup {new} /\ now' \in {now, now + 1}
        /\ local' = [local EXCEPT ![host(p)] = @ \cup {new}]
        /\ cacheRepo' \subseteq cacheRepo \cup {new}
        /\ Use(p, new)
    BY <1>7 DEF Publish
  <2>2. new \in StageID /\ new \notin issued /\ new.ts = now
    BY <1>1, <2>1 DEF StageID, TypeOK
  <2>3. ParentTs(p) <= now
    BY <1>1 DEF ParentTs, PositionInv, RepoInv, Positions
  <2>4. dead[p] \subseteq issued /\ repo \subseteq issued /\ issued \subseteq StageID
        /\ \A r \in issued : r.ts <= now
    BY <1>1 DEF RepoInv, DeadInv, TypeOK
  <2>5. local' \in [Hosts -> SUBSET StageID] /\ cacheRepo' \subseteq StageID
    BY <1>1, <2>1, <2>2 DEF TypeOK
  <2>6. now' \in 1..(MaxTs + 1) /\ now <= now' /\ \A r \in issued' : r.ts <= now'
    BY <1>1, <2>1, <2>2, <2>4 DEF TypeOK, StageID
  <2> HIDE DEF new
  <2> QED
    BY <1>5, <2>1, <2>2, <2>3, <2>4, <2>5, <2>6
<1> QED
    BY <1>6, <1>7

LEMMA RepoKeepsInvariant ==
    ASSUME IInv, RepoStep \/ Tick \/ UNCHANGED vars
    PROVE  IInv'
<1> USE FetchAssumption
<1>1. TypeOK /\ PositionInv /\ RepoInv /\ OrderInv /\ DeadInv /\ LostInv
    BY DEF IInv
<1>2. UNCHANGED <<issued, cacheRepo, manifests, local, cachedTags, pc, pos, chain, dead>>
    BY DEF RepoStep, DeleteImage, DeleteRecord, LoseLayers, Tick, vars
<1>3. PositionInv' /\ OrderInv'
    BY <1>1, <1>2 DEF PositionInv, OrderInv
<1>4. TypeOK'
  <2>1. /\ repo' \subseteq StageID /\ broken' \subseteq StageID
        /\ rejected' \subseteq StageID /\ purging' \subseteq StageID
        /\ now' \in 1..(MaxTs + 1) /\ losses' \in 0..MaxLosses
    BY <1>1 DEF TypeOK, RepoStep, DeleteImage, DeleteRecord, LoseLayers, Tick, vars
  <2> QED
    BY <1>1, <1>2, <2>1 DEF TypeOK
<1>5. /\ RepoInv' /\ repo' \subseteq repo
      /\ rejected \cup broken \cup (issued \ repo) \subseteq rejected' \cup broken' \cup (issued' \ repo')
  <2>1. CASE Tick \/ UNCHANGED vars
    BY <1>1, <1>2, <2>1 DEF RepoInv, Tick, vars, TypeOK, StageID
  <2>2. ASSUME NEW s, DeleteImage(s) \/ DeleteRecord(s) \/ LoseLayers(s)
        PROVE  /\ RepoInv' /\ repo' \subseteq repo
               /\ rejected \cup broken \cup (issued \ repo)
                    \subseteq rejected' \cup broken' \cup (issued' \ repo')
    BY <1>1, <1>2, <2>2 DEF RepoInv, DeleteImage, DeleteRecord, LoseLayers
  <2> QED
    BY <2>1, <2>2 DEF RepoStep
<1>6. DeadInv' /\ LostInv'
    BY <1>1, <1>2, <1>5 DEF DeadInv, LostInv, Wanted
<1> QED
    BY <1>3, <1>4, <1>5, <1>6 DEF IInv

LEMMA InitKeepsInvariant == Init => IInv
<1> USE FetchAssumption
<1> SUFFICES ASSUME Init PROVE IInv
    OBVIOUS
<1>1. /\ now \in 1..(MaxTs + 1) /\ now = Cardinality(Published) + 1
      /\ Cardinality(Published) \in Nat
    BY DEF Init
<1>2. NoChain \in [Positions -> {NoStageID}] /\ \A i \in Positions : NoChain[i] = NoStageID
    BY DEF NoChain
<1>3. TypeOK
    BY <1>1, <1>2 DEF Init, TypeOK, Labels
<1>4. PositionInv /\ OrderInv
    BY <1>2 DEF Init, PositionInv, OrderInv, AtStage, AfterStage, Positions
<1>5. RepoInv
    BY <1>1 DEF Init, RepoInv, StageID
<1>6. DeadInv /\ LostInv
    BY <1>2 DEF Init, DeadInv, LostInv
<1> QED
    BY <1>3, <1>4, <1>5, <1>6 DEF IInv

LEMMA StepKeepsInvariant == IInv /\ [Next]_vars => IInv'
<1> SUFFICES ASSUME IInv, [Next]_vars PROVE IInv'
    OBVIOUS
<1> QED
    BY StartKeepsInvariant, QueryKeepsInvariant, LookupKeepsInvariant, FetchKeepsInvariant,
       RejectKeepsInvariant, PublishKeepsInvariant, RepoKeepsInvariant
       DEF Next, ProcStep, Finished

-----------------------------------------------------------------------------
(* What follows.                                                           *)

(* The invariant as a whole: in particular a stage that was deleted never  *)
(* comes back to the repo under its name.                                  *)
THEOREM Invariance == Spec => []IInv
BY InitKeepsInvariant, StepKeepsInvariant, PTL DEF Spec

(* No stage of a chain is older than the stage below it, after any number  *)
(* of rejections and losses in its middle.                                 *)
THEOREM ChainsOrdered == Spec => []ChainOrdered
<1>1. IInv => ChainOrdered
  <2> SUFFICES ASSUME IInv, NEW p \in Procs, NEW i \in Positions, NEW j \in Positions,
                      i < j, chain[p][j] # NoStageID
               PROVE  chain[p][i].ts <= chain[p][j].ts
    BY DEF ChainOrdered
  <2>1. j < pos[p]
    BY DEF IInv, PositionInv
  <2> QED
    BY <2>1 DEF IInv, OrderInv
<1> QED
    BY <1>1, Invariance, PTL

(* A stage that was gone when a process started is never in its chain,     *)
(* whatever the manifest cache of its host and the cache repo hold.        *)
THEOREM DeadStayDead == Spec => []NotResurrected
<1>1. IInv => NotResurrected
    BY DEF IInv, DeadInv, NotResurrected
<1> QED
    BY <1>1, Invariance, PTL

(* A stage is rejected only when its image has been deleted or broken: no  *)
(* process rejects a stage that others can use.                            *)
THEOREM OnlyLostRejected == Spec => RejectsOnlyLost
<1>1. IInv /\ [Next]_vars => [rejected' \ rejected \subseteq broken \cup (issued \ repo)]_vars
  <2> SUFFICES ASSUME IInv, Next
               PROVE  rejected' \ rejected \subseteq broken \cup (issued \ repo)
    OBVIOUS
  <2>1. ASSUME NEW p \in Procs, RejectAndRetry(p)
        PROVE  rejected' \ rejected \subseteq broken \cup (issued \ repo)
    <3>1. Wanted(p) \in rejected \cup broken \cup (issued \ repo)
      BY <2>1 DEF RejectAndRetry, IInv, LostInv
    <3> QED
      BY <2>1, <3>1 DEF RejectAndRetry
  <2>2. ASSUME NEW p \in Procs, ProcStep(p) \/ Fails(p), ~RejectAndRetry(p)
        PROVE  rejected' = rejected
    BY <2>2 DEF ProcStep, Fails, Start, Query, Lookup, HasImage, FetchFromCache,
       CheckAvailability, Pull, Build, Publish, repoVars
  <2>3. ASSUME RepoStep \/ Tick \/ Finished PROVE rejected' \subseteq rejected
    BY <2>3 DEF RepoStep, DeleteImage, DeleteRecord, LoseLayers, Tick, Finished, vars
  <2> QED
    BY <2>1, <2>2, <2>3 DEF Next
<1> QED
    BY <1>1, Invariance, PTL DEF Spec, RejectsOnlyLost

=============================================================================
