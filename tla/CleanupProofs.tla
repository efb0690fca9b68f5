---------------------------- MODULE CleanupProofs ----------------------------
(***************************************************************************)
(* Proofs about Cleanup, for any stages and relations between them, any    *)
(* custom tags, policies, worlds to start from and numbers of cleanups:    *)
(* what is protected stays, with its relatives, and nothing dangles.  The  *)
(* second part is about GitData, for any number of processes, keys and     *)
(* names, any times, kills and collections: what a process was given stays *)
(* for three hours, and a clone in its place is whole.                     *)
(***************************************************************************)
EXTENDS Cleanup, GitData, TLAPS

-----------------------------------------------------------------------------
(* The inductive invariant.                                                *)

Listing == {"final list", "custom tags"}
Deciding == {"list", "final list", "custom tags", "kubernetes", "git", "other policies", "walk"}
BeforeWalk == Deciding \ {"walk"}
BeforeGit == {"list", "final list", "custom tags", "kubernetes"}
AfterGit == {"other policies", "walk", "stages", "unused tags", "final stages", "done"}

\* What the cleanup manages is in the repo until it deletes, and what it protects
\* stays there, by stages and by custom tags.
KeepInv ==
  /\ c.phase \in Deciding => c.stages \subseteq repo
  /\ TagsNameTheirStage => Protected \subseteq repo
  /\ c.phase = "stages" => c.todo \subseteq c.stages \ Protected
  /\ c.phase = "unused tags" =>
       /\ c.stages = Protected
       /\ c.todo \subseteq CustomTags
       /\ c.todo \cap c.unregister = {}
       /\ \A t \in c.todo : c.tagList[t] # None /\ c.tagList[t] \notin Protected
  /\ c.phase \in Deciding \cup {"stages"} => c.unregister = {}
  /\ c.used \subseteq Protected

FinalInv ==
  /\ c.phase # "done" => c.finalStages \subseteq final
  /\ c.finalProtected \subseteq final

\* A custom tag is registered for what the cleanup has read until it is
\* unregistered, unless it has been moved; a moved one is noticed.
Pending(t) ==
  /\ c.tagList[t] # None
  /\ \/ c.phase \in {"kubernetes", "git", "other policies", "walk", "stages"}
     \/ c.phase = "unused tags" /\ t \in c.todo

TagInv ==
  /\ c.phase \in {"list", "final list", "custom tags"} =>
       \A t \in CustomTags : c.tagList[t] = None
  /\ ~drifted =>
       /\ ~Drift(points, tagRecord)
       /\ b.at = "tagged" => tagRecord[b.tag] \in {None, b.target}
       /\ \A t \in CustomTags : Pending(t) => tagRecord[t] = c.tagList[t]
  /\ b.at = "tagged" => b.tag \in CustomTags
  /\ IF b.at = "idle" THEN b.target = None ELSE b.target \in Stages

\* The new stage is nowhere before it is built, and after that known only to
\* the build unless the cleanup has listed it.
Fresh == c.round = 1 /\ c.phase # "list" /\ New \notin c.seen

NewInv ==
  /\ b.target # New =>
       /\ New \notin repo
       /\ \A t \in CustomTags : tagRecord[t] # New
       /\ \A r \in linked : r[1] # New
  /\ b.target = New =>
       /\ \A r \in b.known : r[1] # New
       /\ c.round = 1 /\ c.phase = "list" => New \in repo
  /\ c.stages \subseteq c.seen
  /\ Fresh =>
       /\ \A r \in c.linked : r[1] # New
       /\ ~drifted =>
            /\ \A t \in CustomTags : c.tagList[t] # New
            /\ c.phase \in Listing => \A t \in c.tags : tagRecord[t] \notin {None, New}
  /\ NewStagesStay

\* Without a build the records are those that were listed, less the ones that
\* the cleanup has deleted, and it deletes all that serve nothing.
RecordInv ==
  /\ c.phase # "list" => imports \subseteq c.imports
  /\ b.at = "idle" =>
       /\ c.phase # "list" => linked \subseteq c.linked
       /\ \A t \in CustomTags : c.tagList[t] # None => tagRecord[t] \in {None, c.tagList[t]}
       /\ c.phase \in {"unused tags", "final stages", "done"} /\ ~c.spared =>
            \A t \in CustomTags :
              c.tagList[t] # None /\ c.tagList[t] \notin Protected =>
                 tagRecord[t] = None
                   \/ (c.phase = "unused tags" /\ t \in c.todo \cup c.unregister)
  /\ c.phase \in {"final stages", "done"} /\ ~c.spared =>
       \A i \in imports : ImportMetadata[i].source \in Protected

\* What has been walked over is protected and closed under relatives; what is
\* protected has been walked over, or will be.
NoGit == \A s \in Stages : c.reason[s] # "git"

WalkInv ==
  /\ c.phase \in BeforeWalk =>
       /\ c.handled = {} /\ c.groups = {}
       /\ \A s \in Stages : c.reason[s] \in Policies \cup {None}
  /\ c.phase = "walk" =>
       /\ c.handled \subseteq Protected
       /\ \A s \in c.handled : Ancestor(s) \subseteq c.handled
       /\ NoGit => \A s \in c.handled :
            ImportSources(s) \cup DependencySources(s) \subseteq c.handled
       /\ \A s \in Protected :
            s \in c.handled \/ Platforms[s] # {} \/ \E g \in c.groups : s \in g[2]
       /\ \A g \in c.groups : g[2] = {s \in Stages : c.reason[s] = g[1]} /\ g[2] # {}
       /\ \A s \in Stages : c.reason[s] \in Policies =>
            \/ \E g \in c.groups : g[1] = c.reason[s]
            \/ Platforms[s] \cap c.stages \subseteq Protected

\* Before a build comes in between: what git history has passed over is protected
\* or about to go, and in the end what is linked is protected, about to go, or a
\* record of an image that was not visited.
UnlinkInv ==
  /\ c.unlink \subseteq c.linked
  /\ c.phase \in Deciding => c.seen \subseteq c.stages
  /\ c.phase \notin {"git", "other policies", "failed"} => c.unlink = {}
  /\ c.phase \in BeforeGit => c.scanned = {}
  /\ b.at = "idle" /\ ~c.spared =>
       /\ c.phase = "git" =>
            \A l \in linked : l[2] \in c.scanned => l[1] \in Protected \/ l \in c.unlink
       /\ c.phase \in AfterGit =>
            \A l \in linked : l[1] \in Protected \/ l \in c.unlink \/ Orphaned(l)

IInv ==
  /\ TypeOK /\ KeepInv /\ FinalInv /\ TagInv /\ NewInv /\ RecordInv
  /\ WalkInv /\ RelativesStay

-----------------------------------------------------------------------------
(* Lemmas on marks and walks.                                              *)

LEMMA NoneIsApart ==
  /\ New \in Stages /\ None \notin Stages /\ New # None
  /\ None \notin CustomTags /\ None \notin Reasons
BY CleanupAssumption

LEMMA ManagerFields ==
  ASSUME TypeOK
  PROVE  /\ c \in Manager /\ c.phase \in Phases /\ c.round \in Nat /\ c.seen \subseteq Stages
         /\ c.linked \subseteq Links /\ c.tags \subseteq CustomTags
         /\ c.scanned \subseteq Images /\ c.unlink \subseteq Links
         /\ c.imports \subseteq DOMAIN ImportMetadata
         /\ c.stages \subseteq Stages /\ c.finalStages \subseteq Stages
         /\ c.reason \in [Stages -> Reasons \cup {None}]
         /\ c.finalProtected \subseteq Stages
         /\ c.tagList \in [CustomTags -> Stages \cup {None}]
         /\ c.handled \subseteq Stages
         /\ c.groups \subseteq Policies \X SUBSET Stages
         /\ c.todo \subseteq Stages \cup CustomTags /\ c.unregister \subseteq CustomTags
         /\ c.spared \in BOOLEAN /\ c.used \subseteq Stages
         /\ Protected \subseteq c.stages
BY DEF TypeOK, Manager

LEMMA RelativesManaged ==
  ASSUME TypeOK, NEW s \in Stages, NEW withSources \in BOOLEAN
  PROVE  /\ Relatives(s, withSources) \subseteq c.stages
         /\ Ancestor(s) \subseteq Relatives(s, withSources)
         /\ withSources => ImportSources(s) \cup DependencySources(s)
                             \subseteq Relatives(s, withSources)
         /\ Relatives(s, withSources) \subseteq
               Ancestor(s) \cup ImportSources(s) \cup DependencySources(s)
         /\ ~withSources => Relatives(s, withSources) = Ancestor(s)
BY DEF Relatives, Ancestor, ImportSources, DependencySources

\* A walk from managed stages ends within them and leaves out no relative.
LEMMA Walking ==
  ASSUME TypeOK, NEW S, S \subseteq c.stages, NEW withSources \in BOOLEAN,
         NEW walked, walked = Handled(S, withSources)
  PROVE  /\ walked \subseteq c.stages
         /\ S \subseteq walked \cup c.handled
         /\ \A s \in walked : Relatives(s, withSources) \subseteq walked \cup c.handled
         /\ \A T \in SUBSET walked :
              /\ S \ c.handled \subseteq T
              /\ \A s \in T : Relatives(s, withSources) \ c.handled \subseteq T
              => walked \subseteq T
<1> DEFINE Closed(T) == /\ S \ c.handled \subseteq T
                        /\ \A s \in T : Relatives(s, withSources) \ c.handled \subseteq T
<1>1. walked = {s \in Stages : \A T \in SUBSET Stages : Closed(T) => s \in T}
  BY DEF Handled
<1>2. c.stages \subseteq Stages
  BY ManagerFields
<1>3. Closed(c.stages)
  BY <1>2, RelativesManaged
<1>4. walked \subseteq c.stages
  BY <1>1, <1>2, <1>3
<1>5. S \ c.handled \subseteq walked
  BY <1>1, <1>2
<1>6. ASSUME NEW s \in walked, NEW r \in Relatives(s, withSources), r \notin c.handled
      PROVE  r \in walked
  <2>1. r \in Stages
    BY <1>2, <1>4, <1>6, RelativesManaged
  <2>2. ASSUME NEW T \in SUBSET Stages, Closed(T) PROVE r \in T
    <3>1. s \in T
      BY <1>1, <2>2
    <3> QED
      BY <3>1, <2>2, <1>6
  <2> QED
    BY <1>1, <2>1, <2>2
<1>7. ASSUME NEW T \in SUBSET walked, Closed(T) PROVE walked \subseteq T
  <2>1. T \in SUBSET Stages
    BY <1>2, <1>4
  <2> QED
    BY <2>1, <1>1, <1>7
<1> QED
  BY <1>4, <1>5, <1>6, <1>7

-----------------------------------------------------------------------------
(* Steps of the build leave the cleanup alone.                             *)

LEMMA ManagerStays ==
  ASSUME UNCHANGED c
  PROVE  /\ Protected' = Protected /\ WalkInv' = WalkInv /\ RelativesStay' = RelativesStay
         /\ \A t : Pending(t)' = Pending(t)
         /\ Fresh' = Fresh
BY DEF Protected, WalkInv, RelativesStay, Pending, Fresh, NoGit, Ancestor, ImportSources,
       DependencySources, Walked

LEMMA BuildKeeps ==
  ASSUME IInv, NEW s \in Stages, Build(s)
  PROVE  IInv'
<1>1. /\ b.at = "idle" /\ (s = New \/ s \in repo) /\ repo' = repo \cup {s}
      /\ b' = [at |-> "built", target |-> s, tag |-> None, known |-> linked]
      /\ UNCHANGED <<options, cluster, final, points, tagRecord, linked, imports, c, drifted>>
  BY DEF Build, world, tags
<1>2. /\ b'.at = "built" /\ b'.target = s /\ b'.known = linked
  BY <1>1
<1>3. /\ Protected' = Protected /\ WalkInv' = WalkInv /\ RelativesStay' = RelativesStay
      /\ (\A t : Pending(t)' = Pending(t)) /\ Fresh' = Fresh
      /\ TagsNameTheirStage' = TagsNameTheirStage
  BY <1>1, ManagerStays DEF TagsNameTheirStage
<1>4. TypeOK'
  <2>1. b' \in [at : {"idle", "built", "copied", "linked", "tagged", "deployed", "failed"},
                target : Stages \cup {None}, tag : CustomTags \cup {None},
                known : SUBSET (Links)]
    BY <1>1 DEF IInv, TypeOK
  <2> QED
    BY <1>1, <1>3, <2>1 DEF IInv, TypeOK
<1>5. KeepInv'
  BY <1>1, <1>3 DEF IInv, KeepInv
<1>6. FinalInv'
  BY <1>1 DEF IInv, FinalInv
<1>7. TagInv'
  BY <1>1, <1>2, <1>3 DEF IInv, TagInv, Drift
<1>8. NewInv'
  <2>1. b.target # New /\ s \in repo \cup {New}
    BY <1>1, CleanupAssumption DEF IInv, TagInv
  <2>2. b'.target # New =>
          /\ New \notin repo'
          /\ \A t \in CustomTags : tagRecord'[t] # New
          /\ \A r \in linked' : r[1] # New
    BY <1>1, <1>2, <2>1 DEF IInv, NewInv
  <2>3. b'.target = New =>
          /\ \A r \in b'.known : r[1] # New
          /\ New \in repo'
    <3>1. \A r \in linked : r[1] # New
      BY <2>1 DEF IInv, NewInv
    <3> QED
      BY <1>1, <1>2, <3>1
  <2>4. NewStagesStay'
    BY <1>1, <1>2, <2>3 DEF NewStagesStay
  <2>5. /\ c'.stages \subseteq c'.seen
        /\ Fresh' =>
             /\ \A r \in c'.linked : r[1] # New
             /\ ~drifted' =>
                  /\ \A t \in CustomTags : c'.tagList[t] # New
                  /\ c'.phase \in Listing => \A t \in c'.tags : tagRecord'[t] \notin {None, New}
    BY <1>1, <1>3 DEF IInv, NewInv
  <2> QED
    BY <2>2, <2>3, <2>4, <2>5 DEF NewInv
<1>9. RecordInv'
  BY <1>1, <1>2, <1>3 DEF IInv, RecordInv
<1> QED
  BY <1>3, <1>4, <1>5, <1>6, <1>7, <1>8, <1>9 DEF IInv

\* The invariant on a new stage, where a step leaves the cleanup alone.
LEMMA NewStays ==
  ASSUME IInv, UNCHANGED <<c, repo>>, drifted => drifted',
         b'.target = b.target, b'.known = b.known,
         b.target # New => \A r \in linked' : r[1] # New,
         \A t \in CustomTags : tagRecord'[t] = tagRecord[t]
            \/ (tagRecord'[t] = b.target
                  /\ (drifted' \/ tagRecord[t] \in {None, b.target})),
         NewStagesStay'
  PROVE  NewInv'
<1>1. Fresh' = Fresh
  BY ManagerStays
<1>2. c.tags \subseteq CustomTags
  BY ManagerFields DEF IInv
<1>3. b.target # New => \A t \in CustomTags : tagRecord'[t] # New
  BY DEF IInv, NewInv
<1>4. Fresh /\ ~drifted' /\ c.phase \in Listing =>
         \A t \in c.tags : tagRecord'[t] \notin {None, New}
  BY <1>2 DEF IInv, NewInv
<1> QED
  BY <1>1, <1>3, <1>4 DEF IInv, NewInv

BuildAts == {"idle", "built", "copied", "linked", "tagged", "deployed", "failed"}
BuildRecord == [at : BuildAts, target : Stages \cup {None}, tag : CustomTags \cup {None},
                known : SUBSET (Links)]

LEMMA PublishFinalImageKeeps ==
  ASSUME IInv, PublishFinalImage
  PROVE  IInv'
<1>1. /\ b.at = "built" /\ b \in BuildRecord /\ b.target \in Stages
      /\ UNCHANGED <<options, cluster, repo, points, tagRecord, linked, imports, c, drifted>>
      /\ final \subseteq final' /\ final' \subseteq Stages
  BY DEF PublishFinalImage, world, tags, IInv, TypeOK, TagInv, BuildRecord, BuildAts
<1>2. /\ b'.at \in {"copied", "failed"} /\ b' \in BuildRecord
      /\ b'.target = b.target /\ b'.known = b.known
  BY <1>1 DEF PublishFinalImage, BuildRecord, BuildAts
<1>3. /\ Protected' = Protected /\ WalkInv' = WalkInv /\ RelativesStay' = RelativesStay
      /\ (\A t : Pending(t)' = Pending(t)) /\ Fresh' = Fresh
      /\ TagsNameTheirStage' = TagsNameTheirStage
  BY <1>1, ManagerStays DEF TagsNameTheirStage
<1>4. TypeOK'
  BY <1>1, <1>2, <1>3 DEF IInv, TypeOK, BuildRecord, BuildAts
<1>5. KeepInv' /\ FinalInv'
  BY <1>1, <1>3 DEF IInv, KeepInv, FinalInv
<1>6. TagInv'
  BY <1>1, <1>2, <1>3 DEF IInv, TagInv, Drift
<1>7. NewStagesStay'
  BY <1>1, <1>2, <1>3 DEF IInv, NewInv, NewStagesStay
<1>8. NewInv'
  BY <1>1, <1>2, <1>7, NewStays DEF IInv, NewInv
<1>9. RecordInv'
  BY <1>1, <1>2, <1>3 DEF IInv, RecordInv
<1> QED
  BY <1>3, <1>4, <1>5, <1>6, <1>8, <1>9 DEF IInv

LEMMA PublishImageGitMetadataKeeps ==
  ASSUME IInv, PublishImageGitMetadata
  PROVE  IInv'
<1>1. /\ b.at = "copied" /\ b \in BuildRecord /\ b.target \in Stages
      /\ linked' = IF <<b.target, options.image, "head">> \in b.known THEN linked
                   ELSE linked \cup {<<b.target, options.image, "head">>}
      /\ b' = [b EXCEPT !.at = "linked"]
      /\ UNCHANGED <<options, cluster, repo, final, points, tagRecord, imports, c, drifted>>
  BY DEF PublishImageGitMetadata, world, tags, IInv, TypeOK, TagInv, BuildRecord, BuildAts
<1>2. /\ b'.at = "linked" /\ b' \in BuildRecord
      /\ b'.target = b.target /\ b'.known = b.known
  BY <1>1 DEF BuildRecord, BuildAts
<1>3. /\ Protected' = Protected /\ WalkInv' = WalkInv /\ RelativesStay' = RelativesStay
      /\ (\A t : Pending(t)' = Pending(t)) /\ Fresh' = Fresh
      /\ TagsNameTheirStage' = TagsNameTheirStage
  BY <1>1, ManagerStays DEF TagsNameTheirStage
<1>4. linked \subseteq linked' /\ linked' \subseteq Links
  <2>1. <<b.target, options.image, "head">> \in Links
    BY <1>1, CleanupAssumption DEF IInv, TypeOK, Links
  <2> QED
    BY <2>1, <1>1 DEF IInv, TypeOK
<1>5. TypeOK'
  BY <1>1, <1>2, <1>3, <1>4 DEF IInv, TypeOK, BuildRecord, BuildAts
<1>6. KeepInv' /\ FinalInv'
  BY <1>1, <1>3 DEF IInv, KeepInv, FinalInv
<1>7. TagInv'
  BY <1>1, <1>2, <1>3 DEF IInv, TagInv, Drift
<1>8. NewStagesStay'
  <2>1. b.target = New => <<New, options.image, "head">> \in linked'
    BY <1>1 DEF IInv, NewInv
  <2> QED
    BY <2>1, <1>1, <1>2, <1>3 DEF IInv, NewInv, NewStagesStay
<1>9. NewInv'
  <2>1. b.target # New => \A r \in linked' : r[1] # New
    BY <1>1 DEF IInv, NewInv
  <2> QED
    BY <1>1, <1>2, <1>8, <2>1, NewStays
<1>10. RecordInv'
  BY <1>1, <1>2, <1>3 DEF IInv, RecordInv
<1> QED
  BY <1>3, <1>5, <1>6, <1>7, <1>9, <1>10 DEF IInv

LEMMA AddStageCustomTagKeeps ==
  ASSUME IInv, NEW t \in CustomTags, AddStageCustomTag(t)
  PROVE  IInv'
<1>1. /\ b.at = "linked" /\ b \in BuildRecord /\ b.target \in Stages
      /\ drifted' = (drifted \/ Drift(points', tagRecord))
      /\ UNCHANGED <<options, cluster, repo, final, tagRecord, linked, imports, c>>
      /\ points \in [CustomTags -> Stages \cup {None}]
  BY DEF AddStageCustomTag, world, IInv, TypeOK, TagInv, BuildRecord, BuildAts
<1>2. /\ \/ points' = [points EXCEPT ![t] = b.target] /\ b' = [b EXCEPT !.at = "tagged", !.tag = t]
         \/ points' = points /\ b' = [b EXCEPT !.at = "failed"]
  BY DEF AddStageCustomTag
<1>3. /\ points' \in [CustomTags -> Stages \cup {None}]
      /\ b' \in BuildRecord /\ b'.target = b.target /\ b'.known = b.known
      /\ b'.at \in {"tagged", "failed"}
      /\ b'.at = "tagged" => b'.tag = t /\ points'[t] = b.target
  <2>1. CASE points' = [points EXCEPT ![t] = b.target] /\ b' = [b EXCEPT !.at = "tagged", !.tag = t]
    BY <2>1, <1>1 DEF BuildRecord, BuildAts
  <2>2. CASE points' = points /\ b' = [b EXCEPT !.at = "failed"]
    BY <2>2, <1>1 DEF BuildRecord, BuildAts
  <2> QED
    BY <1>2, <2>1, <2>2
<1>4. /\ Protected' = Protected /\ WalkInv' = WalkInv /\ RelativesStay' = RelativesStay
      /\ (\A u : Pending(u)' = Pending(u)) /\ Fresh' = Fresh
      /\ TagsNameTheirStage' => TagsNameTheirStage
  BY <1>1, ManagerStays DEF TagsNameTheirStage
<1>5. TypeOK'
  <2>1. drifted' \in BOOLEAN
    BY <1>1 DEF IInv, TypeOK, Drift
  <2> QED
    BY <1>1, <1>3, <1>4, <2>1 DEF IInv, TypeOK, BuildRecord, BuildAts
<1>6. KeepInv' /\ FinalInv'
  BY <1>1, <1>4 DEF IInv, KeepInv, FinalInv
<1>7. TagInv'
  <2>1. ~drifted' => ~drifted /\ ~Drift(points', tagRecord')
    BY <1>1 DEF Drift
  <2>2. ~drifted' /\ b'.at = "tagged" => tagRecord'[b'.tag] \in {None, b'.target}
    BY <2>1, <1>1, <1>3, CleanupAssumption DEF Drift
  <2> QED
    BY <2>1, <2>2, <1>1, <1>3, <1>4 DEF IInv, TagInv
<1>8. NewStagesStay'
  BY <1>1, <1>3, <1>4 DEF IInv, NewInv, NewStagesStay
<1>9. NewInv'
  BY <1>1, <1>3, <1>8, NewStays DEF IInv, NewInv
<1>10. RecordInv'
  BY <1>1, <1>3, <1>4 DEF IInv, RecordInv
<1> QED
  BY <1>4, <1>5, <1>6, <1>7, <1>9, <1>10 DEF IInv

LEMMA RegisterStageCustomTagKeeps ==
  ASSUME IInv, RegisterStageCustomTag
  PROVE  IInv'
<1>1. /\ b.at = "tagged" /\ b \in BuildRecord /\ b.target \in Stages /\ b.tag \in CustomTags
      /\ tagRecord' = [tagRecord EXCEPT ![b.tag] = b.target]
      /\ drifted' = (drifted \/ Drift(points, tagRecord'))
      /\ b' = [b EXCEPT !.at = "linked", !.tag = None]
      /\ UNCHANGED <<options, cluster, repo, final, points, linked, imports, c>>
      /\ tagRecord \in [CustomTags -> Stages \cup {None}]
  BY DEF RegisterStageCustomTag, world, IInv, TypeOK, TagInv, BuildRecord, BuildAts
<1>2. /\ b' \in BuildRecord /\ b'.target = b.target /\ b'.known = b.known /\ b'.at = "linked"
      /\ tagRecord' \in [CustomTags -> Stages \cup {None}]
      /\ tagRecord'[b.tag] = b.target
      /\ \A t \in CustomTags : t # b.tag => tagRecord'[t] = tagRecord[t]
  BY <1>1 DEF BuildRecord, BuildAts
<1>3. /\ Protected' = Protected /\ WalkInv' = WalkInv /\ RelativesStay' = RelativesStay
      /\ (\A u : Pending(u)' = Pending(u)) /\ Fresh' = Fresh
      /\ TagsNameTheirStage' => TagsNameTheirStage
  BY <1>1, ManagerStays DEF TagsNameTheirStage
<1>4. TypeOK'
  <2>1. drifted' \in BOOLEAN
    BY <1>1 DEF IInv, TypeOK, Drift
  <2> QED
    BY <1>1, <1>2, <1>3, <2>1 DEF IInv, TypeOK, BuildRecord, BuildAts
<1>5. KeepInv' /\ FinalInv'
  BY <1>1, <1>3 DEF IInv, KeepInv, FinalInv
<1>6. ~drifted' => ~drifted /\ ~Drift(points', tagRecord')
                   /\ tagRecord[b.tag] \in {None, b.target}
  BY <1>1 DEF Drift, IInv, TagInv
<1>7. TagInv'
  <2>1. ~drifted' => \A t \in CustomTags : Pending(t) => tagRecord'[t] = c.tagList[t]
    BY <1>1, <1>2, <1>6 DEF IInv, TagInv, Pending
  <2> QED
    BY <2>1, <1>1, <1>2, <1>3, <1>6 DEF IInv, TagInv
<1>8. NewStagesStay'
  BY <1>1, <1>2, <1>3 DEF IInv, NewInv, NewStagesStay
<1>9. NewInv'
  BY <1>1, <1>2, <1>6, <1>8, NewStays DEF IInv, NewInv
<1>10. RecordInv'
  BY <1>1, <1>2, <1>3 DEF IInv, RecordInv
<1> QED
  BY <1>3, <1>4, <1>5, <1>7, <1>9, <1>10 DEF IInv

LEMMA DeployKeeps ==
  ASSUME IInv, Deploy
  PROVE  IInv'
<1>1. /\ b.at = "linked" /\ b \in BuildRecord /\ b.target \in Stages
      /\ b' = [b EXCEPT !.at = "deployed"]
      /\ UNCHANGED <<options, repo, final, points, tagRecord, linked, imports, c, drifted>>
  BY DEF Deploy, world, registry, tags, IInv, TypeOK, TagInv, BuildRecord, BuildAts
<1>2. b' \in BuildRecord /\ b'.target = b.target /\ b'.known = b.known /\ b'.at = "deployed"
  BY <1>1 DEF BuildRecord, BuildAts
<1>3. /\ Protected' = Protected /\ WalkInv' = WalkInv /\ RelativesStay' = RelativesStay
      /\ (\A u : Pending(u)' = Pending(u)) /\ Fresh' = Fresh
      /\ TagsNameTheirStage' = TagsNameTheirStage
  BY <1>1, ManagerStays DEF TagsNameTheirStage
<1>4. TypeOK'
  BY <1>1, <1>2, <1>3 DEF IInv, TypeOK, BuildRecord, BuildAts
<1>5. KeepInv' /\ FinalInv'
  BY <1>1, <1>3 DEF IInv, KeepInv, FinalInv
<1>6. TagInv'
  BY <1>1, <1>2, <1>3 DEF IInv, TagInv, Drift
<1>7. NewStagesStay'
  BY <1>1, <1>2, <1>3 DEF IInv, NewInv, NewStagesStay
<1>8. NewInv'
  BY <1>1, <1>2, <1>7, NewStays DEF IInv, NewInv
<1>9. RecordInv'
  BY <1>1, <1>2, <1>3 DEF IInv, RecordInv
<1> QED
  BY <1>3, <1>4, <1>5, <1>6, <1>8, <1>9 DEF IInv

-----------------------------------------------------------------------------
(* Steps of the cleanup: listing and deciding.                             *)

\* Nothing but the cleanup moves.
OnlyManager == UNCHANGED <<options, repo, final, points, tagRecord, linked, imports, b, drifted>>

LEMMA InitStageDescSetKeeps ==
  ASSUME IInv, InitStageDescSet
  PROVE  IInv'
<1>1. /\ c.phase = "list" /\ OnlyManager
      /\ c' = [c EXCEPT !.phase = "final list", !.stages = repo, !.seen = repo, !.linked = linked,
                        !.tags = {t \in CustomTags : tagRecord[t] # None}, !.imports = imports]
  BY DEF InitStageDescSet, OnlyManager, world, registry, tags
<1>2. /\ c' \in Manager /\ c'.phase = "final list" /\ c'.stages = repo /\ c'.seen = repo
      /\ c'.linked = linked /\ c'.tags = {t \in CustomTags : tagRecord[t] # None}
      /\ c'.imports = imports
      /\ UNCHANGED <<c.round, c.finalStages, c.reason, c.finalProtected, c.tagList, c.handled,
                     c.groups, c.todo, c.unregister, c.spared, c.used>>
  BY <1>1 DEF IInv, TypeOK, Manager, Phases
<1>3. /\ Protected' = Protected /\ TagsNameTheirStage' = TagsNameTheirStage
      /\ Protected \subseteq repo
  BY <1>1, <1>2 DEF IInv, TypeOK, KeepInv, Protected, TagsNameTheirStage, OnlyManager, Deciding
<1>4. TypeOK'
  BY <1>1, <1>2, <1>3 DEF IInv, TypeOK, OnlyManager
<1>5. KeepInv'
  BY <1>1, <1>2, <1>3 DEF IInv, KeepInv, OnlyManager, Deciding
<1>6. FinalInv'
  BY <1>1, <1>2 DEF IInv, FinalInv, OnlyManager
<1>7. TagInv'
  BY <1>1, <1>2 DEF IInv, TagInv, OnlyManager, Pending, Drift
<1>8. NewInv'
  <2>1. Fresh' => b.target # New /\ New \notin repo /\ c.round = 1
    BY <1>1, <1>2 DEF IInv, NewInv, Fresh
  <2>2. Fresh' => /\ \A r \in c'.linked : r[1] # New
                  /\ \A t \in CustomTags : c'.tagList[t] # New
                  /\ \A t \in c'.tags : tagRecord'[t] \notin {None, New}
    BY <2>1, <1>1, <1>2, CleanupAssumption DEF IInv, NewInv, TagInv, OnlyManager
  <2>3. NewStagesStay'
    BY <2>1, <1>1, <1>2 DEF NewStagesStay, Fresh, OnlyManager
  <2> QED
    BY <2>1, <2>2, <2>3, <1>1, <1>2 DEF IInv, NewInv, OnlyManager
<1>9. RecordInv'
  BY <1>1, <1>2, <1>3 DEF IInv, RecordInv, OnlyManager
<1>10. WalkInv' /\ RelativesStay'
  BY <1>1, <1>2 DEF IInv, WalkInv, RelativesStay, Walked, BeforeWalk, Deciding
<1> QED
  BY <1>4, <1>5, <1>6, <1>7, <1>8, <1>9, <1>10 DEF IInv

LEMMA InitFinalStageDescSetKeeps ==
  ASSUME IInv, InitFinalStageDescSet
  PROVE  IInv'
<1>1. /\ c.phase = "final list" /\ OnlyManager
      /\ c' = [c EXCEPT !.phase = "custom tags", !.finalStages = final]
  BY DEF InitFinalStageDescSet, OnlyManager, world, registry, tags
<1>2. /\ c' \in Manager /\ c'.phase = "custom tags" /\ c'.finalStages = final
      /\ UNCHANGED <<c.round, c.seen, c.linked, c.tags, c.imports, c.stages, c.reason,
                     c.finalProtected, c.tagList, c.handled, c.groups, c.todo, c.unregister,
                     c.spared, c.used>>
  BY <1>1 DEF IInv, TypeOK, Manager, Phases
<1>3. /\ Protected' = Protected /\ TagsNameTheirStage' = TagsNameTheirStage /\ Fresh' = Fresh
  BY <1>1, <1>2 DEF Protected, TagsNameTheirStage, OnlyManager, Fresh
<1>4. TypeOK'
  BY <1>1, <1>2, <1>3 DEF IInv, TypeOK, OnlyManager
<1>5. KeepInv'
  BY <1>1, <1>2, <1>3 DEF IInv, KeepInv, OnlyManager, Deciding
<1>6. FinalInv'
  BY <1>1, <1>2 DEF IInv, FinalInv, OnlyManager
<1>7. TagInv'
  BY <1>1, <1>2 DEF IInv, TagInv, OnlyManager, Pending, Drift
<1>8. NewInv'
  <2>1. NewStagesStay'
    BY <1>1, <1>2, <1>3 DEF IInv, NewInv, NewStagesStay, OnlyManager
  <2> QED
    BY <2>1, <1>1, <1>2, <1>3 DEF IInv, NewInv, OnlyManager, Listing
<1>9. RecordInv'
  BY <1>1, <1>2, <1>3 DEF IInv, RecordInv, OnlyManager
<1>10. WalkInv' /\ RelativesStay'
  BY <1>1, <1>2 DEF IInv, WalkInv, RelativesStay, Walked, BeforeWalk, Deciding
<1> QED
  BY <1>4, <1>5, <1>6, <1>7, <1>8, <1>9, <1>10 DEF IInv

LEMMA InitCustomTagsMetadataKeeps ==
  ASSUME IInv, InitCustomTagsMetadata
  PROVE  IInv'
<1>1. /\ c.phase = "custom tags" /\ OnlyManager
      /\ c' = [c EXCEPT !.phase = "kubernetes",
                 !.tagList = [t \in CustomTags |-> IF t \in c.tags THEN tagRecord[t] ELSE None]]
      /\ tagRecord \in [CustomTags -> Stages \cup {None}]
  BY DEF InitCustomTagsMetadata, OnlyManager, world, registry, tags, IInv, TypeOK
<1>2. /\ c' \in Manager /\ c'.phase = "kubernetes"
      /\ c'.tagList = [t \in CustomTags |-> IF t \in c.tags THEN tagRecord[t] ELSE None]
      /\ UNCHANGED <<c.round, c.seen, c.linked, c.tags, c.imports, c.stages, c.finalStages,
                     c.reason, c.finalProtected, c.handled, c.groups, c.todo, c.unregister,
                     c.spared, c.used>>
  BY <1>1 DEF IInv, TypeOK, Manager, Phases
<1>3. /\ Protected' = Protected /\ TagsNameTheirStage' = TagsNameTheirStage /\ Fresh' = Fresh
  BY <1>1, <1>2 DEF Protected, TagsNameTheirStage, OnlyManager, Fresh
<1>4. TypeOK'
  BY <1>1, <1>2, <1>3 DEF IInv, TypeOK, OnlyManager
<1>5. KeepInv'
  BY <1>1, <1>2, <1>3 DEF IInv, KeepInv, OnlyManager, Deciding
<1>6. FinalInv'
  BY <1>1, <1>2 DEF IInv, FinalInv, OnlyManager
<1>a. \A t \in CustomTags : c'.tagList[t] # None => t \in c.tags /\ c'.tagList[t] = tagRecord[t]
  BY <1>2
<1>7. TagInv'
  BY <1>a, <1>1, <1>2 DEF IInv, TagInv, OnlyManager, Pending, Drift
<1>8. NewInv'
  <2>1. NewStagesStay'
    BY <1>1, <1>2, <1>3 DEF IInv, NewInv, NewStagesStay, OnlyManager
  <2>2. Fresh /\ ~drifted => \A t \in CustomTags : c'.tagList[t] # New
    BY <1>a, <1>1, NoneIsApart DEF IInv, NewInv, Listing
  <2> QED
    BY <2>1, <2>2, <1>1, <1>2, <1>3 DEF IInv, NewInv, OnlyManager, Listing
<1>9. RecordInv'
  BY <1>a, <1>1, <1>2, <1>3 DEF IInv, RecordInv, OnlyManager
<1>10. WalkInv' /\ RelativesStay'
  BY <1>1, <1>2 DEF IInv, WalkInv, RelativesStay, Walked, BeforeWalk, Deciding
<1> QED
  BY <1>4, <1>5, <1>6, <1>7, <1>8, <1>9, <1>10 DEF IInv

LEMMA RunAgainKeeps ==
  ASSUME IInv, RunAgain
  PROVE  IInv'
<1>1. /\ c.round < options.rounds /\ OnlyManager /\ c' = NewCleanupManager(c.round + 1)
      /\ c.round \in Nat /\ c.round >= 1 /\ options.rounds \in Nat
  BY DEF RunAgain, OnlyManager, world, registry, tags, IInv, TypeOK, Manager
<1>2. /\ c' \in Manager /\ c'.phase = "list" /\ c'.round = c.round + 1
      /\ c'.stages = {} /\ c'.finalStages = {} /\ c'.finalProtected = {} /\ c'.used = {}
      /\ (\A s \in Stages : c'.reason[s] = None) /\ (\A t \in CustomTags : c'.tagList[t] = None)
      /\ c'.handled = {} /\ c'.groups = {} /\ c'.seen = {} /\ c'.unregister = {}
  BY <1>1 DEF NewCleanupManager, Manager, Phases
<1>3. Protected' = {}
  BY <1>2 DEF Protected
<1>4. TypeOK'
  BY <1>1, <1>2, <1>3 DEF IInv, TypeOK, OnlyManager
<1>5. KeepInv' /\ FinalInv'
  BY <1>2, <1>3 DEF KeepInv, FinalInv
<1>6. TagInv'
  BY <1>1, <1>2 DEF IInv, TagInv, OnlyManager, Pending, Drift
<1>7. NewInv'
  BY <1>1, <1>2 DEF IInv, NewInv, OnlyManager, Fresh, NewStagesStay
<1>8. RecordInv'
  BY <1>1, <1>2, <1>3 DEF IInv, RecordInv, OnlyManager
<1>9. WalkInv' /\ RelativesStay'
  BY <1>1, <1>2 DEF IInv, WalkInv, RelativesStay, Walked, BeforeWalk, Deciding
<1> QED
  BY <1>4, <1>5, <1>6, <1>7, <1>8, <1>9 DEF IInv

\* What is used is protected, as long as it is managed.
LEMMA KubernetesBasedPolicyKeeps ==
  ASSUME IInv, KubernetesBasedPolicy
  PROVE  IInv'
<1> DEFINE used == {s \in c.stages : InRepo(s) \in cluster
                      \/ \E t \in CustomTags : ByTag(t) \in cluster /\ c.tagList[t] = s}
           mark == MarkStageDescAsProtected(c.reason, UsedInKubernetes, "kubernetes", FALSE)
           list == [t \in CustomTags |->
                      IF c.tagList[t] \in UsedByTag \ c.stages THEN None ELSE c.tagList[t]]
           fin == {s \in c.finalStages : InFinal(s) \in cluster}
<1>1. c.phase = "kubernetes" /\ OnlyManager
  BY DEF KubernetesBasedPolicy, OnlyManager, world, registry, tags
<1>2. \/ c' = [c EXCEPT !.phase = "git"]
      \/ c' = [c EXCEPT !.phase = "git", !.used = used, !.reason = mark, !.tagList = list,
                        !.finalProtected = fin]
  BY DEF KubernetesBasedPolicy
<1>3. used = UsedInKubernetes /\ used \subseteq c.stages /\ c.stages \subseteq Stages
  <2>1. c.stages \subseteq Stages /\ None \notin Stages
    BY ManagerFields, NoneIsApart DEF IInv
  <2> QED
    BY <2>1 DEF UsedInKubernetes, UsedByTag
<1>4. /\ mark \in [Stages -> Reasons \cup {None}]
      /\ \A s \in Stages : mark[s] # None <=> c.reason[s] # None \/ s \in used
      /\ \A s \in Stages : mark[s] \in {c.reason[s], "kubernetes"}
  <2>1. "kubernetes" \in Reasons /\ FALSE \in BOOLEAN
    BY DEF Reasons, Policies
  <2>2. c.reason \in [Stages -> Reasons \cup {None}]
    BY ManagerFields DEF IInv
  <2> QED
    BY <2>1, <2>2, <1>3, NoneIsApart DEF MarkStageDescAsProtected
<1>5. list \in [CustomTags -> Stages \cup {None}]
      /\ \A t \in CustomTags : list[t] \in {None, c.tagList[t]}
  BY ManagerFields DEF IInv
<1>6. fin \subseteq c.finalStages
  OBVIOUS
<1> HIDE DEF used, mark, list, fin
<1>7. /\ c' \in Manager /\ c'.phase = "git"
      /\ UNCHANGED <<c.round, c.seen, c.linked, c.tags, c.imports, c.stages, c.finalStages,
                     c.handled, c.groups, c.todo, c.unregister, c.spared>>
      /\ \A s \in Stages : c.reason[s] # None => c'.reason[s] # None
      /\ \A s \in Stages : c'.reason[s] # None => c.reason[s] # None \/ s \in c.stages
      /\ \A s \in Stages : c'.reason[s] \in {c.reason[s], "kubernetes"}
      /\ \A s \in c'.used : s \in Stages /\ c'.reason[s] # None
      /\ \A t \in CustomTags : c'.tagList[t] \in {None, c.tagList[t]}
      /\ c'.finalProtected \subseteq final
  <2>1. c \in Manager /\ c.phase = "kubernetes"
    BY <1>1 DEF IInv, TypeOK
  <2>2. c.used \subseteq Protected /\ c.finalStages \subseteq final /\ c.finalProtected \subseteq final
    BY <1>1 DEF IInv, KeepInv, FinalInv
  <2>3. CASE c' = [c EXCEPT !.phase = "git"]
    BY <2>1, <2>2, <2>3 DEF Manager, Phases, Protected
  <2>4. CASE c' = [c EXCEPT !.phase = "git", !.used = used, !.reason = mark, !.tagList = list,
                            !.finalProtected = fin]
    <3>1. c' \in Manager /\ c'.used = used /\ c'.reason = mark /\ c'.tagList = list
          /\ c'.finalProtected = fin /\ c'.phase = "git"
      <4>1. fin \in SUBSET Stages /\ used \in SUBSET Stages /\ "git" \in Phases
        BY <1>3, <1>6, ManagerFields DEF IInv, Phases
      <4> QED
        BY <2>1, <2>4, <4>1, <1>4, <1>5 DEF Manager
    <3>2. UNCHANGED <<c.round, c.seen, c.linked, c.tags, c.imports, c.stages, c.finalStages,
                      c.handled, c.groups, c.todo, c.unregister, c.spared>>
      BY <2>1, <2>4 DEF Manager
    <3> QED
      BY <2>2, <3>1, <3>2, <1>3, <1>4, <1>5, <1>6
  <2> QED
    BY <1>2, <2>3, <2>4
<1>8. /\ Protected \subseteq Protected' /\ Protected' \subseteq c.stages
      /\ TagsNameTheirStage' = TagsNameTheirStage /\ Fresh' = Fresh
      /\ c'.used \subseteq Protected'
  BY <1>1, <1>7, ManagerFields DEF IInv, Protected, TagsNameTheirStage, OnlyManager, Fresh
<1>9. TypeOK'
  BY <1>1, <1>7, <1>8 DEF IInv, TypeOK, OnlyManager
<1>10. KeepInv'
  BY <1>1, <1>7, <1>8 DEF IInv, KeepInv, OnlyManager, Deciding
<1>11. FinalInv'
  BY <1>1, <1>7 DEF IInv, FinalInv, OnlyManager
<1>12. TagInv'
  <2>1. \A t \in CustomTags : Pending(t)' => Pending(t) /\ c'.tagList[t] = c.tagList[t]
    BY <1>1, <1>7 DEF Pending
  <2> QED
    BY <2>1, <1>1, <1>7 DEF IInv, TagInv, OnlyManager, Drift
<1>13. NewInv'
  <2>1. NewStagesStay'
    BY <1>1, <1>7, <1>8 DEF IInv, NewInv, NewStagesStay, OnlyManager
  <2>2. Fresh /\ ~drifted => \A t \in CustomTags : c'.tagList[t] # New
    BY <1>7, NoneIsApart DEF IInv, NewInv
  <2> QED
    BY <2>1, <2>2, <1>1, <1>7, <1>8 DEF IInv, NewInv, OnlyManager, Listing
<1>14. RecordInv'
  BY <1>1, <1>7 DEF IInv, RecordInv, OnlyManager
<1>15. WalkInv' /\ RelativesStay'
  BY <1>1, <1>7 DEF IInv, WalkInv, RelativesStay, Walked, BeforeWalk, Deciding, Policies
<1> QED
  BY <1>9, <1>10, <1>11, <1>12, <1>13, <1>14, <1>15 DEF IInv

\* Steps that delete image metadata, decide to, or give up.
LEMMA UnlinkingKeeps ==
  ASSUME IInv, c.phase \in {"git", "other policies"},
         c' \in Manager, c'.phase \in {"git", "other policies", "failed"},
         UNCHANGED <<options, repo, final, points, tagRecord, imports, b, drifted>>,
         UNCHANGED <<c.round, c.seen, c.linked, c.tags, c.imports, c.stages, c.finalStages,
                     c.reason, c.finalProtected, c.tagList, c.handled, c.groups, c.todo,
                     c.unregister, c.used>>,
         linked' \subseteq linked,
         Fresh => \A r \in linked : r[1] = New => r \in linked'
  PROVE  IInv'
<1>1. /\ Protected' = Protected /\ TagsNameTheirStage' = TagsNameTheirStage
      /\ Fresh' = Fresh /\ c.phase # "list"
  BY DEF Protected, TagsNameTheirStage, Fresh
<1>2. TypeOK'
  BY <1>1 DEF IInv, TypeOK
<1>3. KeepInv'
  BY <1>1 DEF IInv, KeepInv, Deciding
<1>4. FinalInv'
  BY DEF IInv, FinalInv
<1>5. TagInv'
  <2>1. \A t \in CustomTags : Pending(t)' => Pending(t) /\ c'.tagList[t] = c.tagList[t]
    BY DEF Pending
  <2>2. Drift(points, tagRecord)' = Drift(points, tagRecord)
    BY DEF Drift
  <2>3. ~drifted' => /\ ~Drift(points, tagRecord)'
                     /\ b'.at = "tagged" => tagRecord'[b'.tag] \in {None, b'.target}
                     /\ \A t \in CustomTags : Pending(t)' => tagRecord'[t] = c'.tagList[t]
    BY <2>1, <2>2 DEF IInv, TagInv
  <2> QED
    BY <2>3 DEF IInv, TagInv
<1>6. NewInv'
  <2>1. Fresh /\ <<New, options.image, "head">> \in linked =>
          <<New, options.image, "head">> \in linked'
    <3>1. <<New, options.image, "head">>[1] = New
      OBVIOUS
    <3> QED
      BY <3>1
  <2>2. NewStagesStay'
    BY <2>1, <1>1 DEF IInv, NewInv, NewStagesStay, Fresh
  <2> QED
    BY <2>2, <1>1 DEF IInv, NewInv, Listing
<1>7. RecordInv'
  BY <1>1 DEF IInv, RecordInv
<1>8. WalkInv' /\ RelativesStay'
  BY DEF IInv, WalkInv, RelativesStay, Walked, BeforeWalk, Deciding
<1> QED
  BY <1>2, <1>3, <1>4, <1>5, <1>6, <1>7, <1>8 DEF IInv

LEMMA GivingUpKeeps ==
  ASSUME IInv, OnlyManager, c.phase \in {"git", "other policies"},
         c' = [c EXCEPT !.phase = "failed"]
  PROVE  IInv'
<1>1. /\ c' \in Manager /\ c'.phase = "failed"
      /\ UNCHANGED <<c.round, c.seen, c.linked, c.tags, c.imports, c.stages, c.finalStages,
                     c.reason, c.finalProtected, c.tagList, c.handled, c.groups, c.todo,
                     c.unregister, c.used>>
  BY DEF IInv, TypeOK, Manager, Phases
<1> QED
  BY <1>1, UnlinkingKeeps DEF OnlyManager

LEMMA ScanReferencesHistoryKeeps ==
  ASSUME IInv, NEW i \in ManagedImages, ScanReferencesHistory(i)
  PROVE  IInv'
<1> DEFINE links == {l \in c.linked : l[2] = i}
<1>1. /\ c.phase = "git" /\ OnlyManager
      /\ \/ \E hits \in SUBSET {l \in links : l[1] \in c.stages} :
              c' = [c EXCEPT !.scanned = c.scanned \cup {i}, !.unlink = c.unlink \cup (links \ hits),
                      !.reason = MarkStageDescAsProtected(c.reason, {l[1] : l \in hits}, "git", TRUE)]
         \/ c' = [c EXCEPT !.phase = "failed"]
  BY DEF ScanReferencesHistory, ImageMetadata, OnlyManager, world, registry, tags
<1>2. CASE c' = [c EXCEPT !.phase = "failed"]
  BY <1>1, <1>2, GivingUpKeeps
<1>3. ASSUME NEW hits \in SUBSET {l \in links : l[1] \in c.stages},
             c' = [c EXCEPT !.scanned = c.scanned \cup {i}, !.unlink = c.unlink \cup (links \ hits),
                     !.reason = MarkStageDescAsProtected(c.reason, {l[1] : l \in hits}, "git", TRUE)]
      PROVE  IInv'
  <2> DEFINE hit == {l[1] : l \in hits}
             mark == MarkStageDescAsProtected(c.reason, hit, "git", TRUE)
  <2>1. hit \subseteq c.stages
    OBVIOUS
  <2>2. c' = [c EXCEPT !.scanned = c.scanned \cup {i}, !.unlink = c.unlink \cup (links \ hits),
                       !.reason = mark]
    BY <1>3
  <2> HIDE DEF hit
  <2>3. /\ mark \in [Stages -> Reasons \cup {None}]
        /\ \A s \in Stages : mark[s] # None <=> c.reason[s] # None \/ s \in hit
        /\ \A s \in Stages : mark[s] \in {c.reason[s], "git"}
    <3>1. "git" \in Reasons /\ TRUE \in BOOLEAN
      BY DEF Reasons, Policies
    <3>2. c.reason \in [Stages -> Reasons \cup {None}]
      BY ManagerFields DEF IInv
    <3> QED
      BY <3>1, <3>2, NoneIsApart DEF MarkStageDescAsProtected
  <2> HIDE DEF mark
  <2>4. /\ c' \in Manager /\ c'.phase = "git" /\ c'.reason = mark
        /\ UNCHANGED <<c.round, c.seen, c.linked, c.tags, c.imports, c.stages, c.finalStages,
                       c.finalProtected, c.tagList, c.handled, c.groups, c.todo, c.unregister,
                       c.spared, c.used>>
    <3>1. c \in Manager /\ c.scanned \cup {i} \in SUBSET Images
          /\ c.unlink \cup (links \ hits) \in SUBSET Links
      BY ManagerFields, CleanupAssumption DEF IInv
    <3> HIDE DEF links
    <3> QED
      BY <3>1, <2>2, <2>3, <1>1 DEF Manager
  <2>5. /\ Protected \subseteq Protected' /\ Protected' \subseteq c.stages
        /\ TagsNameTheirStage' = TagsNameTheirStage /\ Fresh' = Fresh
    <3>1. Protected' = {s \in Stages : mark[s] # None} /\ Protected \subseteq c.stages
      BY <2>4, ManagerFields DEF IInv, Protected
    <3> QED
      BY <3>1, <2>1, <2>3, <2>4, <1>1 DEF Protected, TagsNameTheirStage, Fresh, OnlyManager
  <2>6. TypeOK'
    BY <1>1, <2>4, <2>5 DEF IInv, TypeOK, OnlyManager
  <2>7. KeepInv'
    BY <1>1, <2>4, <2>5 DEF IInv, KeepInv, Deciding, OnlyManager
  <2>8. FinalInv'
    BY <1>1, <2>4 DEF IInv, FinalInv, OnlyManager
  <2>9. TagInv'
    BY <1>1, <2>4 DEF IInv, TagInv, Pending, Drift, OnlyManager
  <2>10. NewInv'
    <3>1. NewStagesStay'
      BY <1>1, <2>4, <2>5 DEF IInv, NewInv, NewStagesStay, OnlyManager
    <3> QED
      BY <3>1, <1>1, <2>4, <2>5 DEF IInv, NewInv, Listing, OnlyManager
  <2>11. RecordInv'
    BY <1>1, <2>4 DEF IInv, RecordInv, OnlyManager
  <2>12. WalkInv' /\ RelativesStay'
    BY <1>1, <2>3, <2>4 DEF IInv, WalkInv, RelativesStay, Walked, BeforeWalk, Deciding, Policies
  <2> QED
    BY <2>6, <2>7, <2>8, <2>9, <2>10, <2>11, <2>12 DEF IInv
<1> QED
  BY <1>1, <1>2, <1>3

\* The records that go are among those that were listed, and so none of a stage
\* that was published since.
LEMMA RmImageMetadataKeeps ==
  ASSUME IInv, c.unlink \subseteq c.linked, NEW l \in c.unlink, RmImageMetadata(l)
  PROVE  IInv'
<1> DEFINE rest == [c EXCEPT !.unlink = c.unlink \ {l}]
<1>1. /\ c.phase \in {"git", "other policies"}
      /\ UNCHANGED <<options, b, drifted>>
  BY DEF RmImageMetadata, world
<1>2. c \in Manager /\ c.unlink \ {l} \in SUBSET Links
  BY ManagerFields DEF IInv
<1>3. CASE c' = [c EXCEPT !.phase = "failed"] /\ OnlyManager
  BY <1>1, <1>3, GivingUpKeeps
<1>4. CASE /\ c' \in {rest, [rest EXCEPT !.spared = TRUE]}
           /\ linked' \in {linked, linked \ {l}}
           /\ UNCHANGED <<repo, final, points, tagRecord, imports>>
  <2>1. /\ c' \in Manager /\ c'.phase = c.phase
        /\ UNCHANGED <<c.round, c.seen, c.linked, c.tags, c.imports, c.stages, c.finalStages,
                       c.reason, c.finalProtected, c.tagList, c.handled, c.groups, c.todo,
                       c.unregister, c.used>>
    <3>1. CASE c' = rest
      BY <3>1, <1>2 DEF Manager
    <3>2. CASE c' = [rest EXCEPT !.spared = TRUE]
      BY <3>2, <1>2 DEF Manager
    <3> QED
      BY <3>1, <3>2, <1>4
  <2>2. Fresh => l[1] # New
    BY DEF IInv, NewInv
  <2> QED
    BY <1>1, <1>4, <2>1, <2>2, UnlinkingKeeps
<1> QED
  BY <1>1, <1>3, <1>4 DEF RmImageMetadata, Spare, OnlyManager, registry, tags

LEMMA CleanupNonexistentImageMetadataKeeps ==
  ASSUME IInv, CleanupNonexistentImageMetadata
  PROVE  IInv'
<1> DEFINE gone == {l \in c.linked : options.git => l[2] \notin ManagedImages}
<1>1. /\ c.phase = "git" /\ OnlyManager
      /\ c' = [c EXCEPT !.phase = "other policies", !.unlink = gone]
  BY DEF CleanupNonexistentImageMetadata, ImageMetadata, OnlyManager, world, registry, tags
<1>2. c \in Manager /\ gone \in SUBSET Links
  BY ManagerFields DEF IInv
<1> HIDE DEF gone
<1>3. /\ c' \in Manager /\ c'.phase = "other policies"
      /\ UNCHANGED <<c.round, c.seen, c.linked, c.tags, c.imports, c.stages, c.finalStages,
                     c.reason, c.finalProtected, c.tagList, c.handled, c.groups, c.todo,
                     c.unregister, c.used>>
  BY <1>1, <1>2 DEF Manager, Phases
<1> QED
  BY <1>1, <1>3, UnlinkingKeeps DEF OnlyManager

\* Steps after git history that only protect more, up to the first deletion.
LEMMA ProtectingKeeps ==
  ASSUME IInv, OnlyManager, c.phase \in {"other policies", "walk"},
         c' \in Manager, c'.phase \in {"walk", "stages"}, imports \subseteq c'.imports,
         UNCHANGED <<c.round, c.seen, c.linked, c.tags, c.stages, c.finalStages,
                     c.finalProtected, c.tagList, c.unregister, c.spared, c.used>>,
         Protected \subseteq Protected', Protected' \subseteq c.stages,
         c'.phase = "stages" => c'.todo \subseteq c.stages \ Protected'
  PROVE  TypeOK' /\ KeepInv' /\ FinalInv' /\ TagInv' /\ NewInv' /\ RecordInv'
<1>1. TagsNameTheirStage' = TagsNameTheirStage /\ Fresh' = Fresh
  BY DEF TagsNameTheirStage, OnlyManager, Fresh
<1>2. TypeOK'
  BY DEF IInv, TypeOK, OnlyManager
<1>3. KeepInv'
  BY <1>1 DEF IInv, KeepInv, OnlyManager, Deciding
<1>4. FinalInv'
  BY DEF IInv, FinalInv, OnlyManager
<1>5. TagInv'
  <2>1. \A t \in CustomTags : Pending(t)' => Pending(t) /\ c'.tagList[t] = c.tagList[t]
    BY DEF Pending
  <2> QED
    BY <2>1 DEF IInv, TagInv, OnlyManager, Drift
<1>6. NewInv'
  <2>1. NewStagesStay'
    BY <1>1 DEF IInv, NewInv, NewStagesStay, OnlyManager
  <2> QED
    BY <2>1, <1>1 DEF IInv, NewInv, OnlyManager, Listing
<1>7. RecordInv'
  BY DEF IInv, RecordInv, OnlyManager
<1> QED
  BY <1>2, <1>3, <1>4, <1>5, <1>6, <1>7

LEMMA OtherPoliciesKeeps ==
  ASSUME IInv, OtherPolicies
  PROVE  IInv'
<1> DEFINE built == MarkStageDescAsProtected(c.reason, c.stages \cap recent, "hours", FALSE)
           all == MarkStageDescAsProtected(built, c.stages \cap keepList, "keep list", FALSE)
           groups == {<<p, {s \in Stages : all[s] = p}>> :
                         p \in {q \in Policies : \E s \in Stages : all[s] = q}}
<1>1. c.phase = "other policies" /\ OnlyManager
  BY DEF OtherPolicies, OnlyManager, world, registry, tags
<1>2. c' = [c EXCEPT !.phase = "walk", !.imports = c.imports \cap imports, !.reason = all,
                     !.groups = groups]
  BY DEF OtherPolicies
<1>3. /\ c.reason \in [Stages -> Reasons \cup {None}] /\ c.stages \subseteq Stages
      /\ c.handled = {} /\ \A s \in Stages : c.reason[s] \in Policies \cup {None}
      /\ Protected \subseteq c.stages
  BY <1>1, ManagerFields DEF IInv, WalkInv, BeforeWalk, Deciding
<1>4. /\ "hours" \in Policies /\ "keep list" \in Policies
      /\ Policies \subseteq Reasons
  BY DEF Policies, Reasons
<1>5. /\ built \in [Stages -> Policies \cup {None}]
      /\ \A s \in Stages : built[s] # None <=> c.reason[s] # None \/ s \in c.stages \cap recent
  BY <1>3, <1>4, NoneIsApart DEF MarkStageDescAsProtected
<1> HIDE DEF built
<1>6. /\ all \in [Stages -> Policies \cup {None}]
      /\ \A s \in Stages : all[s] # None <=> built[s] # None \/ s \in c.stages \cap keepList
  BY <1>5, <1>4, NoneIsApart DEF MarkStageDescAsProtected
<1> HIDE DEF all
<1>7. /\ groups \subseteq Policies \X SUBSET Stages
      /\ \A g \in groups : g[2] = {s \in Stages : all[s] = g[1]} /\ g[2] # {}
      /\ \A s \in Stages : all[s] \in Policies =>
           \E g \in groups : g[1] = all[s] /\ g[2] = {r \in Stages : all[r] = all[s]}
  <2>1. ASSUME NEW s \in Stages, all[s] \in Policies
        PROVE  <<all[s], {r \in Stages : all[r] = all[s]}>> \in groups
    BY <2>1
  <2>2. ASSUME NEW g \in groups
        PROVE  g \in Policies \X SUBSET Stages /\ g[2] = {s \in Stages : all[s] = g[1]} /\ g[2] # {}
    OBVIOUS
  <2> QED
    BY <2>1, <2>2
<1> HIDE DEF groups
<1>8. /\ c' \in Manager /\ c'.phase = "walk" /\ c'.imports = c.imports \cap imports
      /\ c'.reason = all /\ c'.groups = groups
      /\ UNCHANGED <<c.round, c.seen, c.linked, c.tags, c.stages, c.finalStages,
                     c.finalProtected, c.tagList, c.handled, c.todo, c.unregister,
                     c.spared, c.used>>
  <2>1. c \in Manager /\ "walk" \in Phases /\ all \in [Stages -> Reasons \cup {None}]
    BY <1>4, <1>6 DEF IInv, TypeOK, Phases
  <2> QED
    BY <2>1, <1>2, <1>7 DEF Manager
<1>9. imports \subseteq c'.imports
  BY <1>1, <1>8 DEF IInv, RecordInv
<1>10. Protected' = {s \in Stages : all[s] # None}
  BY <1>8 DEF Protected
<1>11. Protected \subseteq Protected' /\ Protected' \subseteq c.stages
  BY <1>10, <1>6, <1>5, <1>3 DEF Protected
<1>12. TypeOK' /\ KeepInv' /\ FinalInv' /\ TagInv' /\ NewInv' /\ RecordInv'
  BY <1>1, <1>8, <1>9, <1>11, ProtectingKeeps
<1>13. WalkInv'
  <2>1. \A s \in Protected' : \E g \in c'.groups : s \in g[2]
    BY <1>6, <1>7, <1>8, <1>10
  <2>2. \A s \in Stages : c'.reason[s] \in Policies => \E g \in c'.groups : g[1] = c'.reason[s]
    BY <1>7, <1>8
  <2>3. \A g \in c'.groups : g[2] = {s \in Stages : c'.reason[s] = g[1]} /\ g[2] # {}
    BY <1>7, <1>8
  <2>4. c'.handled = {} /\ c'.phase = "walk"
    BY <1>3, <1>8
  <2> QED
    BY <2>1, <2>2, <2>3, <2>4 DEF WalkInv, BeforeWalk, Deciding
<1>14. RelativesStay'
  BY <1>8 DEF RelativesStay, Walked
<1> QED
  BY <1>12, <1>13, <1>14 DEF IInv

\* What a walk from the stages of one reason does to the reasons: it protects
\* where it starts and what it meets, and never for a policy.
LEMMA WalkMarks ==
  ASSUME IInv, NEW p, NEW S, c' = ProtectRelativeStages(p, S)
  PROVE  /\ c' = [c EXCEPT !.groups = c.groups \ {<<p, S>>},
                           !.handled = c.handled \cup Handled(Targets(S), p # "git"),
                           !.reason = c'.reason]
         /\ c'.reason \in [Stages -> Reasons \cup {None}]
         /\ \A s \in Stages : c'.reason[s] # None <=>
              \/ c.reason[s] # None
              \/ s \in Targets(S)
              \/ \E w \in Handled(Targets(S), p # "git") : s \in Relatives(w, p # "git")
         /\ \A s \in Stages : c.reason[s] # None => c'.reason[s] = c.reason[s]
         /\ \A s \in Stages : c'.reason[s] \in Policies => c'.reason[s] = c.reason[s]
<1> DEFINE withSources == p # "git"
           targets == Targets(S)
           walked == Handled(targets, withSources)
           imported == UNION {ImportSources(s) : s \in walked}
           depended == UNION {DependencySources(s) : s \in walked}
           ancestors == UNION {Ancestor(s) : s \in walked}
           platforms == MarkStageDescAsProtected(c.reason, targets, "platform", FALSE)
           two == MarkStageDescAsProtected(platforms, imported, "import source", FALSE)
           three == MarkStageDescAsProtected(two, depended, "dependency source", FALSE)
           sources == IF withSources THEN three ELSE platforms
           all == MarkStageDescAsProtected(sources, ancestors, "ancestor", FALSE)
<1>1. c' = [c EXCEPT !.groups = c.groups \ {<<p, S>>}, !.handled = c.handled \cup walked,
                     !.reason = all]
  BY DEF ProtectRelativeStages
<1>2. \A s : (\E w \in walked : s \in Relatives(w, withSources)) <=>
        s \in ancestors \/ (withSources /\ s \in imported \cup depended)
  BY DEF Relatives
<1> HIDE DEF withSources, targets, walked, imported, depended, ancestors
<1>3. c \in Manager /\ c.reason \in [Stages -> Reasons \cup {None}]
  BY ManagerFields DEF IInv
<1>4. {"platform", "import source", "dependency source", "ancestor"} \subseteq Reasons \ Policies
  BY DEF Reasons, Policies
<1>5. /\ platforms \in [Stages -> Reasons \cup {None}]
      /\ \A s \in Stages : platforms[s] # None <=> c.reason[s] # None \/ s \in targets
      /\ \A s \in Stages : c.reason[s] # None => platforms[s] = c.reason[s]
      /\ \A s \in Stages : platforms[s] \in Policies => platforms[s] = c.reason[s]
  BY <1>3, <1>4, NoneIsApart DEF MarkStageDescAsProtected
<1> HIDE DEF platforms
<1>6. /\ two \in [Stages -> Reasons \cup {None}]
      /\ \A s \in Stages : two[s] # None <=> platforms[s] # None \/ s \in imported
      /\ \A s \in Stages : platforms[s] # None => two[s] = platforms[s]
      /\ \A s \in Stages : two[s] \in Policies => two[s] = platforms[s]
  BY <1>5, <1>4, NoneIsApart DEF MarkStageDescAsProtected
<1> HIDE DEF two
<1>7. /\ three \in [Stages -> Reasons \cup {None}]
      /\ \A s \in Stages : three[s] # None <=> two[s] # None \/ s \in depended
      /\ \A s \in Stages : two[s] # None => three[s] = two[s]
      /\ \A s \in Stages : three[s] \in Policies => three[s] = two[s]
  BY <1>6, <1>4, NoneIsApart DEF MarkStageDescAsProtected
<1> HIDE DEF three
<1>8. /\ sources \in [Stages -> Reasons \cup {None}]
      /\ \A s \in Stages : sources[s] # None <=>
           platforms[s] # None \/ (withSources /\ s \in imported \cup depended)
      /\ \A s \in Stages : platforms[s] # None => sources[s] = platforms[s]
      /\ \A s \in Stages : sources[s] \in Policies => sources[s] = platforms[s]
  BY <1>5, <1>6, <1>7, NoneIsApart
<1> HIDE DEF sources
<1>9. /\ all \in [Stages -> Reasons \cup {None}]
      /\ \A s \in Stages : all[s] # None <=> sources[s] # None \/ s \in ancestors
      /\ \A s \in Stages : sources[s] # None => all[s] = sources[s]
      /\ \A s \in Stages : all[s] \in Policies => all[s] = sources[s]
  BY <1>8, <1>4, NoneIsApart DEF MarkStageDescAsProtected
<1> HIDE DEF all
<1>10. c'.reason = all
  BY <1>1, <1>3 DEF Manager
<1>11. /\ \A s \in Stages : all[s] # None <=>
             \/ c.reason[s] # None
             \/ s \in targets
             \/ \E w \in walked : s \in Relatives(w, withSources)
       /\ \A s \in Stages : c.reason[s] # None => all[s] = c.reason[s]
       /\ \A s \in Stages : all[s] \in Policies => all[s] = c.reason[s]
  BY <1>2, <1>5, <1>8, <1>9, NoneIsApart
<1> QED
  BY <1>1, <1>9, <1>10, <1>11 DEF withSources, targets, walked

LEMMA WalkKeeps ==
  ASSUME IInv, Walk
  PROVE  IInv'
<1>1. c.phase = "walk" /\ OnlyManager
  BY DEF Walk, OnlyManager, world, registry, tags
<1>2. PICK g \in c.groups : c' = ProtectRelativeStages(g[1], g[2])
  BY DEF Walk
<1> DEFINE p == g[1]
           S == g[2]
           withSources == p # "git"
           targets == Targets(S)
           walked == Handled(targets, withSources)
<1>3. /\ c \in Manager /\ c.stages \subseteq Stages /\ c.handled \subseteq Stages
      /\ Protected \subseteq c.stages /\ g \in Policies \X SUBSET Stages
      /\ c.groups \subseteq Policies \X SUBSET Stages
      /\ c.reason \in [Stages -> Reasons \cup {None}]
  BY ManagerFields DEF IInv
<1>4. /\ c.handled \subseteq Protected
      /\ \A s \in c.handled : Ancestor(s) \subseteq c.handled
      /\ NoGit => \A s \in c.handled :
            ImportSources(s) \cup DependencySources(s) \subseteq c.handled
  BY <1>1 DEF IInv, WalkInv
<1>5. /\ \A s \in Protected :
            s \in c.handled \/ Platforms[s] # {} \/ \E h \in c.groups : s \in h[2]
      /\ \A h \in c.groups : h[2] = {s \in Stages : c.reason[s] = h[1]} /\ h[2] # {}
      /\ \A s \in Stages : c.reason[s] \in Policies =>
            \/ \E h \in c.groups : h[1] = c.reason[s]
            \/ Platforms[s] \cap c.stages \subseteq Protected
  BY <1>1 DEF IInv, WalkInv
<1>6. p \in Policies /\ S = {s \in Stages : c.reason[s] = p} /\ S # {} /\ g = <<p, S>>
  BY <1>3, <1>5
<1>7. S \subseteq Protected
  BY <1>6, NoneIsApart DEF Protected, Reasons
<1>8. /\ targets \subseteq c.stages
      /\ \A s \in S : Platforms[s] = {} => s \in targets
      /\ \A s \in S : Platforms[s] # {} => Platforms[s] \cap c.stages \subseteq targets
  BY <1>3, <1>7 DEF Targets
<1>9. /\ c' = [c EXCEPT !.groups = c.groups \ {<<p, S>>}, !.handled = c.handled \cup walked,
                        !.reason = c'.reason]
      /\ c'.reason \in [Stages -> Reasons \cup {None}]
      /\ \A s \in Stages : c'.reason[s] # None <=>
             \/ c.reason[s] # None
             \/ s \in targets
             \/ \E w \in walked : s \in Relatives(w, withSources)
      /\ \A s \in Stages : c.reason[s] # None => c'.reason[s] = c.reason[s]
      /\ \A s \in Stages : c'.reason[s] \in Policies => c'.reason[s] = c.reason[s]
  BY <1>2, WalkMarks
<1>10. withSources \in BOOLEAN
  OBVIOUS
<1> HIDE DEF withSources, targets
<1>11. /\ walked \subseteq c.stages
       /\ targets \subseteq walked \cup c.handled
       /\ \A s \in walked : Relatives(s, withSources) \subseteq walked \cup c.handled
       /\ \A T \in SUBSET walked :
            /\ targets \ c.handled \subseteq T
            /\ \A s \in T : Relatives(s, withSources) \ c.handled \subseteq T
            => walked \subseteq T
  <2>1. TypeOK /\ walked = Handled(targets, withSources)
    BY DEF IInv
  <2> HIDE DEF walked
  <2> QED
    BY <2>1, <1>8, <1>10, Walking, ZenonT(60)
<1> HIDE DEF walked, p, S
<1>12. /\ c' \in Manager /\ c'.phase = "walk" /\ c'.groups = c.groups \ {g}
       /\ c'.handled = c.handled \cup walked
       /\ UNCHANGED <<c.round, c.seen, c.linked, c.tags, c.imports, c.stages, c.finalStages,
                      c.finalProtected, c.tagList, c.todo, c.unregister, c.spared, c.used>>
  <2>1. c.handled \cup walked \in SUBSET Stages
    BY <1>3, <1>11
  <2>2. c' = [c EXCEPT !.groups = c.groups \ {g}, !.handled = c.handled \cup walked,
                       !.reason = c'.reason]
    BY <1>6, <1>9
  <2>3. c.groups \ {g} \in SUBSET (Policies \X SUBSET Stages)
    BY <1>3
  <2> DEFINE groups == c.groups \ {g}
             handled == c.handled \cup walked
             reason == c'.reason
  <2>4. /\ c' = [c EXCEPT !.groups = groups, !.handled = handled, !.reason = reason]
        /\ groups \in SUBSET (Policies \X SUBSET Stages) /\ handled \in SUBSET Stages
        /\ reason \in [Stages -> Reasons \cup {None}]
    BY <2>1, <2>2, <2>3, <1>9
  <2> HIDE DEF groups, handled, reason
  <2>5. /\ c' \in Manager /\ c'.groups = groups /\ c'.handled = handled
        /\ UNCHANGED <<c.phase, c.round, c.seen, c.linked, c.tags, c.imports, c.stages,
                       c.finalStages, c.finalProtected, c.tagList, c.todo, c.unregister,
                       c.spared, c.used>>
    BY <2>4, <1>3 DEF Manager
  <2> QED
    BY <2>5, <1>1 DEF groups, handled
<1>13. \A s \in Stages : /\ Relatives(s, withSources) \subseteq c.stages
                         /\ Ancestor(s) \subseteq Relatives(s, withSources)
                         /\ withSources => ImportSources(s) \cup DependencySources(s)
                                             \subseteq Relatives(s, withSources)
  BY <1>10, RelativesManaged DEF IInv
<1>14. /\ Protected' = {s \in Stages : c'.reason[s] # None}
       /\ Protected = {s \in Stages : c.reason[s] # None}
  BY DEF Protected
<1>15. Protected \subseteq Protected' /\ Protected' \subseteq c.stages
       /\ targets \subseteq Protected'
       /\ \A s \in walked : Relatives(s, withSources) \subseteq Protected'
  <2>1. Protected \subseteq Protected'
    BY <1>9, <1>14
  <2>2. \A s \in walked : Relatives(s, withSources) \subseteq Stages
    BY <1>3, <1>11, <1>13
  <2>3. targets \subseteq Protected' /\ \A s \in walked : Relatives(s, withSources) \subseteq Protected'
    BY <2>2, <1>3, <1>8, <1>9, <1>14
  <2>4. Protected' \subseteq c.stages
    BY <1>3, <1>8, <1>9, <1>11, <1>13, <1>14
  <2> QED
    BY <2>1, <2>3, <2>4
<1>16. walked \subseteq Protected'
  <2>1. targets \ c.handled \subseteq walked \cap Protected'
    BY <1>11, <1>15
  <2>2. \A s \in walked \cap Protected' :
          Relatives(s, withSources) \ c.handled \subseteq walked \cap Protected'
    BY <1>11, <1>15
  <2>3. walked \cap Protected' \in SUBSET walked
    OBVIOUS
  <2> QED
    BY <2>1, <2>2, <2>3, <1>11
<1>17. TypeOK' /\ KeepInv' /\ FinalInv' /\ TagInv' /\ NewInv' /\ RecordInv'
  <2>1. imports \subseteq c'.imports
    BY <1>1, <1>12 DEF IInv, RecordInv
  <2> QED
    BY <2>1, <1>1, <1>12, <1>15, ProtectingKeeps
<1>18. \A s : /\ Ancestor(s)' = Ancestor(s)
              /\ ImportSources(s)' = ImportSources(s)
              /\ DependencySources(s)' = DependencySources(s)
  BY <1>12 DEF Ancestor, ImportSources, DependencySources
<1>19. WalkInv'
  <2>1. c'.handled \subseteq Protected'
    BY <1>4, <1>12, <1>15, <1>16
  <2>2. \A s \in c'.handled : Ancestor(s)' \subseteq c'.handled
    <3>1. \A s \in walked : Ancestor(s) \subseteq walked \cup c.handled
      BY <1>3, <1>11, <1>13
    <3> QED
      BY <3>1, <1>4, <1>12, <1>18
  <2>3. NoGit' => \A s \in c'.handled :
            ImportSources(s)' \cup DependencySources(s)' \subseteq c'.handled
    <3>1. NoGit' => NoGit /\ withSources
      <4>1. \A s \in Stages : c.reason[s] = "git" => c'.reason[s] = "git"
        BY <1>9, NoneIsApart DEF Reasons, Policies
      <4> QED
        BY <4>1, <1>6 DEF NoGit, withSources
    <3>2. withSources => \A s \in walked :
             ImportSources(s) \cup DependencySources(s) \subseteq walked \cup c.handled
      BY <1>3, <1>11, <1>13
    <3> QED
      BY <3>1, <3>2, <1>4, <1>12, <1>18
  <2>4. \A s \in Protected' :
            s \in c'.handled \/ Platforms[s] # {} \/ \E h \in c'.groups : s \in h[2]
    <3>1. \A s \in Protected' : s \in Protected \/ s \in c'.handled
      BY <1>9, <1>11, <1>12, <1>14
    <3>2. ASSUME NEW s \in Protected, s \notin c'.handled, Platforms[s] = {}
          PROVE  \E h \in c'.groups : s \in h[2]
      <4>1. PICK h \in c.groups : s \in h[2]
        BY <3>2, <1>5, <1>12
      <4>2. s \notin S
        BY <3>2, <1>8, <1>11, <1>12
      <4> QED
        BY <4>1, <4>2, <1>12 DEF S
    <3> QED
      BY <3>1, <3>2
  <2>5. \A h \in c'.groups : h[2] = {s \in Stages : c'.reason[s] = h[1]} /\ h[2] # {}
    <3>1. ASSUME NEW h \in c.groups
          PROVE  {s \in Stages : c'.reason[s] = h[1]} = {s \in Stages : c.reason[s] = h[1]}
      <4>1. h[1] \in Policies /\ None \notin Policies
        BY <1>3, NoneIsApart DEF Reasons
      <4> QED
        BY <4>1, <1>9
    <3> QED
      BY <3>1, <1>5, <1>12
  <2>6. \A s \in Stages : c'.reason[s] \in Policies =>
            \/ \E h \in c'.groups : h[1] = c'.reason[s]
            \/ Platforms[s] \cap c'.stages \subseteq Protected'
    <3>1. SUFFICES ASSUME NEW s \in Stages, c'.reason[s] \in Policies,
                          ~\E h \in c'.groups : h[1] = c'.reason[s]
                   PROVE  Platforms[s] \cap c.stages \subseteq Protected'
      BY <1>12
    <3>2. c'.reason[s] = c.reason[s]
      BY <3>1, <1>9
    <3>3. CASE \E h \in c.groups : h[1] = c.reason[s]
      <4>1. g[1] = c.reason[s]
        BY <3>1, <3>2, <3>3, <1>12
      <4>2. s \in S
        BY <4>1, <1>6 DEF p
      <4> QED
        BY <4>2, <1>8, <1>15
    <3>4. CASE ~\E h \in c.groups : h[1] = c.reason[s]
      BY <3>1, <3>2, <3>4, <1>5, <1>15
    <3> QED
      BY <3>3, <3>4
  <2> QED
    BY <2>1, <2>2, <2>3, <2>4, <2>5, <2>6, <1>12 DEF WalkInv, BeforeWalk
<1>20. RelativesStay'
  BY <1>12 DEF RelativesStay, Walked
<1> QED
  BY <1>17, <1>19, <1>20 DEF IInv

LEMMA StartDeletingKeeps ==
  ASSUME IInv, StartDeleting
  PROVE  IInv'
<1>1. /\ c.phase = "walk" /\ c.groups = {} /\ OnlyManager
      /\ c' = [c EXCEPT !.phase = "stages", !.todo = c.stages \ Protected]
  BY DEF StartDeleting, OnlyManager, world, registry, tags
<1>2. /\ c' \in Manager /\ c'.phase = "stages" /\ c'.todo = c.stages \ Protected
      /\ UNCHANGED <<c.round, c.seen, c.linked, c.tags, c.imports, c.stages, c.finalStages,
                     c.reason, c.finalProtected, c.tagList, c.handled, c.groups, c.unregister,
                     c.spared, c.used>>
  <2>1. c \in Manager /\ "stages" \in Phases
        /\ c.stages \ Protected \in SUBSET (Stages \cup CustomTags)
    BY ManagerFields DEF IInv, Phases
  <2> QED
    BY <2>1, <1>1 DEF Manager
<1>3. Protected' = Protected /\ Protected \subseteq c.stages /\ c.stages \subseteq Stages
  BY <1>2, ManagerFields DEF IInv, Protected
<1>4. TypeOK' /\ KeepInv' /\ FinalInv' /\ TagInv' /\ NewInv' /\ RecordInv'
  <2>1. imports \subseteq c'.imports
    BY <1>1, <1>2 DEF IInv, RecordInv
  <2> QED
    BY <2>1, <1>1, <1>2, <1>3, ProtectingKeeps
<1>5. WalkInv'
  BY <1>2 DEF WalkInv, BeforeWalk, Deciding
<1>6. RelativesStay'
  <2>1. \A s : /\ Ancestor(s)' = Ancestor(s)
               /\ ImportSources(s)' = ImportSources(s)
               /\ DependencySources(s)' = DependencySources(s)
    BY <1>2 DEF Ancestor, ImportSources, DependencySources
  <2>2. /\ c.handled \subseteq Protected
        /\ \A s \in c.handled : Ancestor(s) \subseteq c.handled
        /\ NoGit => \A s \in c.handled :
             ImportSources(s) \cup DependencySources(s) \subseteq c.handled
        /\ \A s \in Protected : s \in c.handled \/ Platforms[s] # {}
        /\ \A s \in Stages : c.reason[s] \in Policies => Platforms[s] \cap c.stages \subseteq Protected
    BY <1>1 DEF IInv, WalkInv
  <2>3. \A s \in Stages : Platforms[s] # {} =>
          Ancestor(s) = {} /\ ImportSources(s) = {} /\ DependencySources(s) = {}
    <3>1. ASSUME NEW s \in Stages, Platforms[s] # {}
          PROVE  Parent[s] = None /\ Imports[s] = {} /\ Dependencies[s] = {}
      BY <3>1, CleanupAssumption
    <3> QED
      BY <3>1, <1>3, NoneIsApart DEF Ancestor, ImportSources, DependencySources
  <2>4. \A s \in Protected : Ancestor(s) \subseteq Protected
    BY <2>2, <2>3, <1>3
  <2>5. NoGit => \A s \in Protected : ImportSources(s) \cup DependencySources(s) \subseteq Protected
    BY <2>2, <2>3, <1>3
  <2> QED
    BY <2>1, <2>2, <2>4, <2>5, <1>2, <1>3 DEF RelativesStay, NoGit
<1> QED
  BY <1>4, <1>5, <1>6 DEF IInv

-----------------------------------------------------------------------------
(* Steps that delete.                                                      *)

Deleting == {"stages", "unused tags", "final stages"}

\* What such a step does to the manager: it only goes on.
ManagerGoesOn ==
  /\ c.phase \in Deleting /\ c' \in Manager /\ c'.phase \in Deleting \cup {"done", "failed"}
  /\ UNCHANGED <<options, linked, b, drifted>>
  /\ UNCHANGED <<c.round, c.seen, c.linked, c.tags, c.imports, c.finalStages, c.reason,
                 c.finalProtected, c.tagList, c.used>>
  /\ c'.stages \subseteq c.stages /\ Protected \subseteq c'.stages

\* And to the registry: less is there, yet all that is protected or published
\* just now, and each record until its turn comes.
RegistryShrinks ==
  /\ repo' \subseteq repo /\ final' \subseteq final /\ imports' \subseteq imports
  /\ points' \in [CustomTags -> Stages \cup {None}]
  /\ tagRecord' \in [CustomTags -> Stages \cup {None}]
  /\ \A t \in CustomTags : points'[t] \in {None, points[t]}
  /\ \A t \in CustomTags : tagRecord'[t] \in {None, tagRecord[t]}
  /\ \A t \in CustomTags : Pending(t)' => Pending(t) /\ tagRecord'[t] = tagRecord[t]
  /\ TagsNameTheirStage => Protected \subseteq repo'
  /\ TagsNameTheirStage /\ Fresh /\ New \in repo => New \in repo'
  /\ c.finalProtected \subseteq final' /\ (c'.phase # "done" => final' = final)

\* And to the lists of what is to be deleted.
TurnsCome ==
  /\ c'.phase = "stages" => c'.todo \subseteq c'.stages \ Protected /\ c'.unregister = {}
  /\ c'.phase = "unused tags" =>
       /\ c'.stages = Protected
       /\ c'.todo \subseteq CustomTags
       /\ c'.todo \cap c'.unregister = {}
       /\ \A t \in c'.todo : c.tagList[t] # None /\ c.tagList[t] \notin Protected
  /\ b.at = "idle" /\ c'.phase \in {"unused tags", "final stages", "done"} /\ ~c'.spared =>
       \A t \in CustomTags :
         c.tagList[t] # None /\ c.tagList[t] \notin Protected =>
           tagRecord'[t] = None
             \/ (c'.phase = "unused tags" /\ t \in c'.todo \cup c'.unregister)
  /\ c'.phase \in {"final stages", "done"} /\ ~c'.spared =>
       \A i \in imports' : ImportMetadata[i].source \in Protected

LEMMA DeletingKeeps ==
  ASSUME IInv, ManagerGoesOn, RegistryShrinks, TurnsCome
  PROVE  IInv'
<1>1. /\ Protected' = Protected /\ TagsNameTheirStage' = TagsNameTheirStage /\ Fresh' = Fresh
      /\ c.phase \in Deleting /\ c'.phase \in Deleting \cup {"done", "failed"}
  BY DEF ManagerGoesOn, Protected, TagsNameTheirStage, Fresh, Deleting
<1>2. TypeOK'
  <2>1. /\ c' \in Manager /\ c'.round = c.round /\ Protected' \subseteq c'.stages
        /\ UNCHANGED <<options, linked, b, drifted>>
    BY <1>1 DEF ManagerGoesOn
  <2>2. /\ repo' \subseteq repo /\ final' \subseteq final /\ imports' \subseteq imports
        /\ points' \in [CustomTags -> Stages \cup {None}]
        /\ tagRecord' \in [CustomTags -> Stages \cup {None}]
    BY DEF RegistryShrinks
  <2> QED
    BY <2>1, <2>2 DEF IInv, TypeOK
<1>3. KeepInv'
  <2>1. c'.used \subseteq Protected' /\ c'.phase \notin Deciding
    BY <1>1 DEF ManagerGoesOn, IInv, KeepInv, Deleting, Deciding
  <2>2. TagsNameTheirStage' => Protected' \subseteq repo'
    BY <1>1 DEF RegistryShrinks
  <2>3. /\ c'.phase = "stages" => c'.todo \subseteq c'.stages \ Protected' /\ c'.unregister = {}
        /\ c'.phase = "unused tags" =>
             /\ c'.stages = Protected'
             /\ c'.todo \subseteq CustomTags
             /\ c'.todo \cap c'.unregister = {}
             /\ \A t \in c'.todo : c'.tagList[t] # None /\ c'.tagList[t] \notin Protected'
    BY <1>1 DEF TurnsCome, ManagerGoesOn
  <2> QED
    BY <2>1, <2>2, <2>3 DEF KeepInv
<1>4. FinalInv'
  BY <1>1 DEF IInv, FinalInv, ManagerGoesOn, RegistryShrinks, Deleting
<1>5. TagInv'
  <2>1. ~Drift(points, tagRecord) => ~Drift(points, tagRecord)'
    BY DEF Drift, RegistryShrinks
  <2>2. UNCHANGED <<b, drifted, c.tagList>>
    BY DEF ManagerGoesOn
  <2>3. ~drifted =>
          /\ ~Drift(points, tagRecord)
          /\ b.at = "tagged" => tagRecord[b.tag] \in {None, b.target} /\ b.tag \in CustomTags
          /\ \A t \in CustomTags : Pending(t) => tagRecord[t] = c.tagList[t]
    BY DEF IInv, TagInv
  <2>4. /\ \A t \in CustomTags : tagRecord'[t] \in {None, tagRecord[t]}
        /\ \A t \in CustomTags : Pending(t)' => Pending(t) /\ tagRecord'[t] = tagRecord[t]
    BY DEF RegistryShrinks
  <2>5. ~drifted' /\ b'.at = "tagged" => tagRecord'[b'.tag] \in {None, b'.target}
    BY <2>2, <2>3, <2>4
  <2>6. ~drifted' => \A t \in CustomTags : Pending(t)' => tagRecord'[t] = c'.tagList[t]
    BY <2>2, <2>3, <2>4
  <2>7. c'.phase \notin {"list", "final list", "custom tags"}
    BY <1>1 DEF Deleting
  <2> QED
    BY <2>1, <2>2, <2>3, <2>5, <2>6, <2>7 DEF IInv, TagInv
<1>6. NewInv'
  <2>1. UNCHANGED <<options, b, drifted, linked, c.seen, c.linked, c.tagList>> /\ c'.stages \subseteq c.stages
        /\ c.phase # "list" /\ c'.phase \notin {"list", "final list", "custom tags"}
        /\ c'.round = c.round
    BY DEF ManagerGoesOn, Deleting
  <2>2. TagsNameTheirStage /\ Fresh /\ New \in repo => New \in repo'
    BY DEF RegistryShrinks
  <2>3. NewStagesStay'
    <3>1. TagsNameTheirStage /\ Fresh /\ b.target = New =>
            New \in repo /\ (b.at \in {"linked", "tagged", "deployed"} => <<New, options.image, "head">> \in linked)
      BY DEF IInv, NewInv, NewStagesStay, Fresh
    <3> QED
      BY <3>1, <2>1, <2>2, <1>1 DEF NewStagesStay, Fresh
  <2>4. b'.target # New => New \notin repo' /\ \A t \in CustomTags : tagRecord'[t] # New
    BY <2>1, NoneIsApart DEF IInv, NewInv, RegistryShrinks
  <2> QED
    BY <2>1, <2>3, <2>4, <1>1 DEF IInv, NewInv, Listing
<1>7. RecordInv'
  <2>1. c.phase # "list"
    BY <1>1 DEF Deleting
  <2>2. /\ imports \subseteq c.imports
        /\ b.at = "idle" =>
             /\ linked \subseteq c.linked
             /\ \A t \in CustomTags : c.tagList[t] # None => tagRecord[t] \in {None, c.tagList[t]}
    BY <2>1 DEF IInv, RecordInv
  <2>3. UNCHANGED <<b, linked, c.linked, c.imports, c.tagList>>
    BY DEF ManagerGoesOn
  <2>4. /\ imports' \subseteq imports
        /\ \A t \in CustomTags : tagRecord'[t] \in {None, tagRecord[t]}
    BY DEF RegistryShrinks
  <2>5. b'.at = "idle" =>
          /\ linked' \subseteq c'.linked
          /\ \A t \in CustomTags : c'.tagList[t] # None => tagRecord'[t] \in {None, c'.tagList[t]}
    BY <1>1, <2>2, <2>3, <2>4
  <2>6. imports' \subseteq c'.imports
    BY <2>2, <2>3, <2>4
  <2>7. /\ b'.at = "idle" /\ c'.phase \in {"unused tags", "final stages", "done"} /\ ~c'.spared =>
             \A t \in CustomTags :
               c'.tagList[t] # None /\ c'.tagList[t] \notin Protected' =>
                 tagRecord'[t] = None
                   \/ (c'.phase = "unused tags" /\ t \in c'.todo \cup c'.unregister)
        /\ c'.phase \in {"final stages", "done"} /\ ~c'.spared =>
             \A i \in imports' : ImportMetadata[i].source \in Protected'
    BY <1>1, <2>3 DEF TurnsCome
  <2> QED
    BY <2>5, <2>6, <2>7 DEF RecordInv
<1>8. WalkInv'
  BY <1>1 DEF WalkInv, BeforeWalk, Deciding, Deleting
<1>9. RelativesStay'
  <2>1. /\ c'.stages \subseteq c.stages /\ c'.imports = c.imports /\ c'.reason = c.reason
        /\ Protected \subseteq c'.stages
    BY DEF ManagerGoesOn
  <2>2. \A s : /\ Ancestor(s)' \subseteq Ancestor(s)
               /\ ImportSources(s)' \subseteq ImportSources(s)
               /\ DependencySources(s)' \subseteq DependencySources(s)
    BY <2>1 DEF Ancestor, ImportSources, DependencySources
  <2>3. Walked
    BY <1>1 DEF Walked, Deleting
  <2> QED
    BY <2>1, <2>2, <2>3, <1>1 DEF IInv, RelativesStay
<1> QED
  BY <1>2, <1>3, <1>4, <1>5, <1>6, <1>7, <1>8, <1>9 DEF IInv

\* What the invariant says while the cleanup deletes.
LEMMA WhileDeleting ==
  ASSUME IInv, c.phase \in Deleting
  PROVE  /\ c \in Manager /\ Protected \subseteq c.stages /\ c.stages \subseteq c.seen
         /\ repo \subseteq Stages
         /\ points \in [CustomTags -> Stages \cup {None}]
         /\ tagRecord \in [CustomTags -> Stages \cup {None}]
         /\ TagsNameTheirStage => Protected \subseteq repo
         /\ c.finalProtected \subseteq final
         /\ c.phase = "stages" => c.todo \subseteq c.stages \ Protected /\ c.unregister = {}
         /\ c.phase = "unused tags" =>
              /\ c.stages = Protected
              /\ c.todo \subseteq CustomTags
              /\ c.todo \cap c.unregister = {}
              /\ \A t \in c.todo : c.tagList[t] # None /\ c.tagList[t] \notin Protected
         /\ b.at = "idle" /\ c.phase \in {"unused tags", "final stages"} /\ ~c.spared =>
              \A t \in CustomTags :
                c.tagList[t] # None /\ c.tagList[t] \notin Protected =>
                  tagRecord[t] = None
                    \/ (c.phase = "unused tags" /\ t \in c.todo \cup c.unregister)
         /\ c.phase = "final stages" /\ ~c.spared =>
              \A i \in imports : ImportMetadata[i].source \in Protected
         /\ imports \subseteq c.imports
BY DEF IInv, TypeOK, KeepInv, FinalInv, NewInv, RecordInv, Deleting

\* A cleanup that ends with an error.
LEMMA FailingKeeps ==
  ASSUME IInv, c.phase \in Deleting, OnlyManager, c' = [c EXCEPT !.phase = "failed"]
  PROVE  IInv'
<1>1. /\ c' \in Manager /\ c'.phase = "failed"
      /\ UNCHANGED <<c.round, c.seen, c.linked, c.tags, c.imports, c.stages, c.finalStages,
                     c.reason, c.finalProtected, c.tagList, c.used>>
  BY WhileDeleting DEF Manager, Phases
<1>2. \A t \in CustomTags : ~Pending(t)'
  BY <1>1 DEF Pending
<1> QED
  <2>1. ManagerGoesOn
    BY <1>1, WhileDeleting DEF ManagerGoesOn, OnlyManager
  <2>2. RegistryShrinks
    BY <1>2, WhileDeleting DEF RegistryShrinks, OnlyManager
  <2>3. TurnsCome
    BY <1>1 DEF TurnsCome
  <2> QED
    BY <2>1, <2>2, <2>3, DeletingKeeps

LEMMA DeleteStageKeeps ==
  ASSUME IInv, NEW s \in Stages, DeleteStage(s)
  PROVE  IInv'
<1> DEFINE rest == [c EXCEPT !.todo = c.todo \ {s}]
<1>1. c.phase = "stages" /\ s \in c.todo /\ c.phase \in Deleting
      /\ UNCHANGED <<options, b, drifted>>
  BY DEF DeleteStage, Deleting, world
<1>2. /\ rest \in Manager /\ rest.phase = "stages" /\ rest.todo = c.todo \ {s}
      /\ rest.round = c.round /\ rest.seen = c.seen /\ rest.linked = c.linked
      /\ rest.tags = c.tags /\ rest.imports = c.imports /\ rest.stages = c.stages
      /\ rest.finalStages = c.finalStages /\ rest.reason = c.reason
      /\ rest.finalProtected = c.finalProtected /\ rest.tagList = c.tagList
      /\ rest.unregister = c.unregister /\ rest.used = c.used
  BY <1>1, WhileDeleting DEF Manager
<1>3. [rest EXCEPT !.spared = TRUE] \in Manager
  BY <1>2 DEF Manager
<1>4. s \in c.stages \ Protected /\ (Fresh => s # New)
  BY <1>1, WhileDeleting DEF Fresh
<1>5. CASE c' = [c EXCEPT !.phase = "failed"] /\ OnlyManager
  BY <1>1, <1>5, FailingKeeps
<1>6. CASE /\ c' \in {rest, [rest EXCEPT !.spared = TRUE]}
           /\ repo' \in {repo, repo \ {s}}
           /\ points' \in {points, WithoutManifest(s)}
           /\ UNCHANGED <<final, tagRecord, linked, imports>>
  <2>1. /\ c' \in Manager /\ c'.phase = "stages" /\ c'.todo \subseteq c.todo
        /\ UNCHANGED <<c.round, c.seen, c.linked, c.tags, c.imports, c.stages, c.finalStages,
                       c.reason, c.finalProtected, c.tagList, c.unregister, c.used>>
    BY <1>2, <1>3, <1>6 DEF Manager
  <2>2. /\ points' \in [CustomTags -> Stages \cup {None}]
        /\ \A t \in CustomTags : points'[t] \in {None, points[t]}
    BY <1>1, <1>6, WhileDeleting DEF WithoutManifest
  <2>3. \A t \in CustomTags : Pending(t)' => Pending(t) /\ tagRecord'[t] = tagRecord[t]
    BY <1>1, <1>6, <2>1 DEF Pending
  <2>4. /\ repo' \subseteq repo
        /\ TagsNameTheirStage => Protected \subseteq repo'
        /\ TagsNameTheirStage /\ Fresh /\ New \in repo => New \in repo'
    BY <1>1, <1>4, <1>6, WhileDeleting
  <2>5. c'.todo \subseteq c'.stages \ Protected /\ c'.unregister = {}
    BY <1>1, <2>1, WhileDeleting
  <2>6. ManagerGoesOn
    BY <1>1, <1>6, <2>1, WhileDeleting DEF ManagerGoesOn, Deleting
  <2>7. RegistryShrinks
    BY <1>1, <1>6, <2>2, <2>3, <2>4, WhileDeleting DEF RegistryShrinks
  <2>8. TurnsCome
    BY <2>1, <2>5 DEF TurnsCome
  <2> QED
    BY <2>6, <2>7, <2>8, DeletingKeeps
<1> QED
  BY <1>1, <1>5, <1>6 DEF DeleteStage, Spare, OnlyManager, registry, tags, world

LEMMA ForgetDeletedStagesKeeps ==
  ASSUME IInv, ForgetDeletedStages
  PROVE  IInv'
<1> DEFINE unused == {t \in CustomTags : c.tagList[t] # None /\ c.tagList[t] \notin Protected}
<1>1. /\ c.phase = "stages" /\ c.phase \in Deleting /\ OnlyManager
      /\ Protected \subseteq c.stages /\ c \in Manager
  BY WhileDeleting DEF ForgetDeletedStages, Deleting, OnlyManager, world, registry, tags
<1>2. c' = [c EXCEPT !.phase = "unused tags", !.stages = Protected, !.todo = unused]
  <2>1. c.stages \cap Protected = Protected
    BY <1>1
  <2> QED
    BY <2>1 DEF ForgetDeletedStages
<1>3. /\ c' \in Manager /\ c'.phase = "unused tags" /\ c'.stages = Protected /\ c'.todo = unused
      /\ UNCHANGED <<c.round, c.seen, c.linked, c.tags, c.imports, c.finalStages, c.reason,
                     c.finalProtected, c.tagList, c.unregister, c.used>>
  <2>1. Protected \in SUBSET Stages /\ unused \in SUBSET (Stages \cup CustomTags)
        /\ "unused tags" \in Phases
    BY DEF Protected, Phases
  <2> HIDE DEF unused
  <2> QED
    BY <1>1, <1>2, <2>1 DEF Manager
<1>4. \A t \in CustomTags : Pending(t)' => Pending(t)
  BY <1>1, <1>3 DEF Pending
<1>5. ManagerGoesOn
  BY <1>1, <1>3 DEF ManagerGoesOn, OnlyManager, Deleting
<1>6. RegistryShrinks
  BY <1>1, <1>3, <1>4, WhileDeleting DEF RegistryShrinks, OnlyManager
<1>7. TurnsCome
  BY <1>1, <1>3, WhileDeleting DEF TurnsCome
<1> QED
  BY <1>5, <1>6, <1>7, DeletingKeeps

\* While no tag has moved, a tag that is to go names the stage that it was
\* registered for, which is neither protected nor new.
LEMMA DeleteStageCustomTagKeeps ==
  ASSUME IInv, NEW t \in CustomTags, DeleteStageCustomTag(t)
  PROVE  IInv'
<1> DEFINE rest == [c EXCEPT !.todo = c.todo \ {t}, !.unregister = c.unregister \cup {t}]
           over == [c EXCEPT !.todo = c.todo \ {t}]
<1>1. c.phase = "unused tags" /\ t \in c.todo /\ c.phase \in Deleting
      /\ UNCHANGED <<options, b, drifted>>
  BY DEF DeleteStageCustomTag, Deleting, world
<1>2. c \in Manager /\ c.stages = Protected /\ c.todo \cap c.unregister = {}
      /\ c.tagList[t] # None /\ c.tagList[t] \notin Protected
  BY <1>1, WhileDeleting
<1>3. ~drifted /\ points[t] # None => points[t] \notin Protected /\ (Fresh => points[t] # New)
  <2>1. Pending(t)
    BY <1>1, <1>2 DEF Pending
  <2>2. ~drifted => ~Drift(points, tagRecord) /\ tagRecord[t] = c.tagList[t]
    BY <2>1 DEF IInv, TagInv
  <2>3. ~drifted /\ points[t] # None => points[t] = c.tagList[t]
    BY <2>2, <1>2 DEF Drift
  <2>4. ~drifted /\ Fresh => c.tagList[t] # New
    BY DEF IInv, NewInv
  <2> QED
    BY <2>3, <2>4, <1>2
<1>4. CASE c' = [c EXCEPT !.phase = "failed"] /\ OnlyManager
  BY <1>1, <1>4, FailingKeeps
<1>5. CASE /\ \/ c' = rest
              \/ c' = [over EXCEPT !.spared = TRUE]
           /\ \/ UNCHANGED <<repo, points>>
              \/ /\ points[t] # None
                 /\ points' = [WithoutManifest(points[t]) EXCEPT ![t] = None]
                 /\ repo' = IF options.byManifest THEN repo \ {points[t]} ELSE repo
           /\ UNCHANGED <<final, tagRecord, linked, imports>>
  <2>1. /\ c' \in Manager /\ c'.phase = "unused tags" /\ c'.todo = c.todo \ {t}
        /\ c'.unregister \in {c.unregister, c.unregister \cup {t}}
        /\ ~c'.spared => ~c.spared /\ c'.unregister = c.unregister \cup {t}
        /\ UNCHANGED <<c.round, c.seen, c.linked, c.tags, c.imports, c.stages, c.finalStages,
                       c.reason, c.finalProtected, c.tagList, c.used>>
    <3>1. CASE c' = rest
      BY <3>1, <1>1, <1>2 DEF Manager
    <3>2. CASE c' = [over EXCEPT !.spared = TRUE]
      <4>1. over \in Manager
        BY <1>2 DEF Manager
      <4> QED
        BY <3>2, <4>1, <1>1, <1>2 DEF Manager
    <3> QED
      BY <3>1, <3>2, <1>5
  <2> HIDE DEF rest, over
  <2>2. /\ points' \in [CustomTags -> Stages \cup {None}]
        /\ \A u \in CustomTags : points'[u] \in {None, points[u]}
    <3>1. points \in [CustomTags -> Stages \cup {None}]
      BY <1>1, WhileDeleting
    <3> QED
      BY <3>1, <1>5 DEF WithoutManifest
  <2>3. \A u \in CustomTags : Pending(u)' => Pending(u) /\ tagRecord'[u] = tagRecord[u]
    BY <1>1, <1>5, <2>1 DEF Pending
  <2>4. /\ repo' \subseteq repo
        /\ TagsNameTheirStage => Protected \subseteq repo'
        /\ TagsNameTheirStage /\ Fresh /\ New \in repo => New \in repo'
    <3>1. TagsNameTheirStage => Protected \subseteq repo
      BY <1>1, WhileDeleting
    <3> QED
      BY <3>1, <1>3, <1>5 DEF TagsNameTheirStage
  <2>5. ManagerGoesOn
    BY <1>1, <1>2, <1>5, <2>1, WhileDeleting DEF ManagerGoesOn, Deleting
  <2>6. RegistryShrinks
    BY <1>1, <1>5, <2>2, <2>3, <2>4, WhileDeleting DEF RegistryShrinks
  <2>7. TurnsCome
    BY <1>1, <1>2, <1>5, <2>1, WhileDeleting DEF TurnsCome
  <2> QED
    BY <2>5, <2>6, <2>7, DeletingKeeps
<1> HIDE DEF rest, over
<1>6. \/ /\ c' = rest
         /\ UNCHANGED registry
      \/ /\ points[t] # None
         /\ points' = [WithoutManifest(points[t]) EXCEPT ![t] = None]
         /\ repo' = IF options.byManifest THEN repo \ {points[t]} ELSE repo
         /\ c' = rest
         /\ UNCHANGED <<final, tagRecord, linked, imports>>
      \/ /\ c' \in {[over EXCEPT !.spared = TRUE], [c EXCEPT !.phase = "failed"]}
         /\ UNCHANGED registry
  BY DEF DeleteStageCustomTag, Spare, rest, over
<1> QED
  BY <1>1, <1>4, <1>5, <1>6 DEF OnlyManager, registry, tags

LEMMA UnregisterStageCustomTagKeeps ==
  ASSUME IInv, NEW t \in CustomTags, UnregisterStageCustomTag(t)
  PROVE  IInv'
<1> DEFINE rest == [c EXCEPT !.unregister = c.unregister \ {t}]
<1>1. c.phase = "unused tags" /\ t \in c.unregister /\ c.phase \in Deleting
      /\ UNCHANGED <<options, b, drifted>>
  BY DEF UnregisterStageCustomTag, Deleting, world
<1>2. c \in Manager /\ c.stages = Protected /\ c.todo \cap c.unregister = {}
      /\ tagRecord \in [CustomTags -> Stages \cup {None}]
  BY <1>1, WhileDeleting
<1>3. rest \in Manager
  BY <1>2 DEF Manager
<1>4. CASE c' = [c EXCEPT !.phase = "failed"] /\ OnlyManager
  BY <1>1, <1>4, FailingKeeps
<1>5. CASE /\ \/ c' = rest /\ tagRecord' = [tagRecord EXCEPT ![t] = None]
              \/ c' = [rest EXCEPT !.spared = TRUE] /\ tagRecord' = tagRecord
           /\ UNCHANGED <<repo, final, points, linked, imports>>
  <2>1. /\ c' \in Manager /\ c'.phase = "unused tags" /\ c'.todo = c.todo
        /\ c'.unregister = c.unregister \ {t}
        /\ ~c'.spared => ~c.spared /\ tagRecord'[t] = None
        /\ UNCHANGED <<c.round, c.seen, c.linked, c.tags, c.imports, c.stages, c.finalStages,
                       c.reason, c.finalProtected, c.tagList, c.used>>
    <3>1. CASE c' = rest /\ tagRecord' = [tagRecord EXCEPT ![t] = None]
      BY <3>1, <1>1, <1>2, <1>3 DEF Manager
    <3>2. CASE c' = [rest EXCEPT !.spared = TRUE]
      BY <3>2, <1>1, <1>2, <1>3 DEF Manager
    <3> QED
      BY <3>1, <3>2, <1>5
  <2> HIDE DEF rest
  <2>2. /\ tagRecord' \in [CustomTags -> Stages \cup {None}]
        /\ \A u \in CustomTags : tagRecord'[u] \in {None, tagRecord[u]}
        /\ \A u \in CustomTags : u # t => tagRecord'[u] = tagRecord[u]
    BY <1>2, <1>5
  <2>3. \A u \in CustomTags : Pending(u)' => Pending(u) /\ tagRecord'[u] = tagRecord[u]
    BY <1>1, <1>2, <2>1, <2>2 DEF Pending
  <2>4. ManagerGoesOn
    BY <1>1, <1>2, <1>5, <2>1 DEF ManagerGoesOn, Deleting
  <2>5. RegistryShrinks
    BY <1>1, <1>5, <2>2, <2>3, WhileDeleting DEF RegistryShrinks
  <2>6. TurnsCome
    BY <1>1, <1>2, <2>1, <2>2, WhileDeleting DEF TurnsCome
  <2> QED
    BY <2>4, <2>5, <2>6, DeletingKeeps
<1> QED
  BY <1>1, <1>4, <1>5 DEF UnregisterStageCustomTag, Spare, OnlyManager, registry, tags

LEMMA DeleteUnusedImportsMetadataKeeps ==
  ASSUME IInv, DeleteUnusedImportsMetadata
  PROVE  IInv'
<1> DEFINE unused == {i \in c.imports : ImportMetadata[i].source \notin Protected}
           rest == [c EXCEPT !.phase = "final stages"]
<1>1. /\ c.phase = "unused tags" /\ c.todo = {} /\ c.unregister = {} /\ c.phase \in Deleting
      /\ UNCHANGED <<options, b, drifted>>
  BY DEF DeleteUnusedImportsMetadata, Deleting, world
<1>2. c \in Manager /\ c.stages = Protected
  BY <1>1, WhileDeleting
<1>3. rest \in Manager
  BY <1>2 DEF Manager, Phases
<1>4. CASE c' = [c EXCEPT !.phase = "failed"] /\ OnlyManager
  BY <1>1, <1>4, FailingKeeps
<1>5. CASE /\ \/ c' = rest /\ imports' = imports \ unused
              \/ c' = [rest EXCEPT !.spared = TRUE] /\ imports' = imports
           /\ UNCHANGED <<repo, final, points, tagRecord, linked>>
  <2>1. /\ c' \in Manager /\ c'.phase = "final stages"
        /\ ~c'.spared => ~c.spared /\ imports' = imports \ unused
        /\ UNCHANGED <<c.round, c.seen, c.linked, c.tags, c.imports, c.stages, c.finalStages,
                       c.reason, c.finalProtected, c.tagList, c.used>>
    <3>1. CASE c' = rest /\ imports' = imports \ unused
      BY <3>1, <1>1, <1>2, <1>3 DEF Manager
    <3>2. CASE c' = [rest EXCEPT !.spared = TRUE]
      BY <3>2, <1>1, <1>2, <1>3 DEF Manager
    <3> QED
      BY <3>1, <3>2, <1>5
  <2>2. imports' \subseteq imports
        /\ (~c'.spared => \A i \in imports' : ImportMetadata[i].source \in Protected)
    <3>1. imports \subseteq c.imports
      BY <1>1, WhileDeleting
    <3> QED
      BY <3>1, <2>1, <1>5
  <2> HIDE DEF rest, unused
  <2>3. \A t \in CustomTags : ~Pending(t)'
    BY <2>1 DEF Pending
  <2>4. ManagerGoesOn
    BY <1>1, <1>2, <1>5, <2>1 DEF ManagerGoesOn, Deleting
  <2>5. RegistryShrinks
    BY <1>1, <1>5, <2>2, <2>3, WhileDeleting DEF RegistryShrinks
  <2>6. TurnsCome
    BY <1>1, <1>5, <2>1, <2>2, WhileDeleting DEF TurnsCome
  <2> QED
    BY <2>4, <2>5, <2>6, DeletingKeeps
<1> QED
  BY <1>1, <1>4, <1>5 DEF DeleteUnusedImportsMetadata, Spare, OnlyManager, registry, tags

LEMMA CleanupFinalStagesKeeps ==
  ASSUME IInv, CleanupFinalStages
  PROVE  IInv'
<1> DEFINE unused == {s \in c.finalStages \ c.finalProtected : s \in c.stages}
           rest == [c EXCEPT !.phase = "done"]
           left == [t \in CustomTags |->
                      IF options.final /\ options.byManifest /\ points[t] \in unused
                      THEN None ELSE points[t]]
<1>1. c.phase = "final stages" /\ c.phase \in Deleting /\ UNCHANGED <<options, b, drifted>>
  BY DEF CleanupFinalStages, Deleting, world
<1>2. c \in Manager /\ c.finalProtected \subseteq final /\ Protected \subseteq c.stages
      /\ points \in [CustomTags -> Stages \cup {None}]
  BY <1>1, WhileDeleting
<1>3. rest \in Manager
  BY <1>2 DEF Manager, Phases
<1>4. CASE c' = [c EXCEPT !.phase = "failed"] /\ OnlyManager
  BY <1>1, <1>4, FailingKeeps
<1>5. CASE /\ \/ c' = rest /\ final' = final \ unused /\ points' = left
              \/ c' = [rest EXCEPT !.spared = TRUE] /\ UNCHANGED <<final, points>>
           /\ UNCHANGED <<repo, tagRecord, linked, imports>>
  <2>1. /\ c' \in Manager /\ c'.phase = "done"
        /\ ~c'.spared => ~c.spared
        /\ UNCHANGED <<c.round, c.seen, c.linked, c.tags, c.imports, c.stages, c.finalStages,
                       c.reason, c.finalProtected, c.tagList, c.used>>
    <3>1. CASE c' = rest
      BY <3>1, <1>1, <1>2, <1>3 DEF Manager
    <3>2. CASE c' = [rest EXCEPT !.spared = TRUE]
      BY <3>2, <1>1, <1>2, <1>3 DEF Manager
    <3> QED
      BY <3>1, <3>2, <1>5
  <2>2. final' \subseteq final /\ c.finalProtected \subseteq final'
    BY <1>2, <1>5
  <2>3. /\ points' \in [CustomTags -> Stages \cup {None}]
        /\ \A u \in CustomTags : points'[u] \in {None, points[u]}
    BY <1>2, <1>5
  <2> HIDE DEF rest, unused, left
  <2>4. \A t \in CustomTags : ~Pending(t)'
    BY <2>1 DEF Pending
  <2>5. ManagerGoesOn
    BY <1>1, <1>2, <1>5, <2>1 DEF ManagerGoesOn, Deleting
  <2>6. RegistryShrinks
    BY <1>1, <1>5, <2>1, <2>2, <2>3, <2>4, WhileDeleting DEF RegistryShrinks
  <2>7. TurnsCome
    BY <1>1, <1>5, <2>1, WhileDeleting DEF TurnsCome
  <2> QED
    BY <2>5, <2>6, <2>7, DeletingKeeps
<1> QED
  BY <1>1, <1>4, <1>5 DEF CleanupFinalStages, Spare, OnlyManager, registry, tags

-----------------------------------------------------------------------------
(* Image metadata: what is linked in the end.                              *)

\* Steps of the build take the premise away.
LEMMA BuildingUnlinks ==
  ASSUME IInv, UnlinkInv, Building
  PROVE  UnlinkInv'
<1>1. UNCHANGED c /\ b'.at # "idle"
  <2>1. b \in BuildRecord
    BY DEF IInv, TypeOK, BuildRecord, BuildAts
  <2>2. ASSUME NEW s \in Stages, Build(s) PROVE UNCHANGED c /\ b'.at # "idle"
    BY <2>2 DEF Build
  <2>3. CASE PublishFinalImage
    BY <2>1, <2>3 DEF PublishFinalImage, BuildRecord
  <2>4. CASE PublishImageGitMetadata
    BY <2>1, <2>4 DEF PublishImageGitMetadata, BuildRecord
  <2>5. ASSUME NEW t \in CustomTags, AddStageCustomTag(t) PROVE UNCHANGED c /\ b'.at # "idle"
    BY <2>1, <2>5 DEF AddStageCustomTag, BuildRecord
  <2>6. CASE RegisterStageCustomTag
    BY <2>1, <2>6 DEF RegisterStageCustomTag, BuildRecord
  <2>7. CASE Deploy
    BY <2>1, <2>7 DEF Deploy, BuildRecord
  <2> QED
    BY <2>2, <2>3, <2>4, <2>5, <2>6, <2>7 DEF Building
<1> QED
  BY <1>1 DEF UnlinkInv

\* Nothing is to be unlinked before git history is scanned.
LEMMA ListingUnlinks ==
  ASSUME c'.phase \in BeforeGit \cup {"git"}, c'.unlink = {}, c'.scanned = {},
         c'.seen \subseteq c'.stages
  PROVE  UnlinkInv'
BY DEF UnlinkInv, BeforeGit, AfterGit

LEMMA ListingStepsUnlink ==
  ASSUME IInv, UnlinkInv,
         InitStageDescSet \/ InitFinalStageDescSet \/ InitCustomTagsMetadata
           \/ KubernetesBasedPolicy \/ RunAgain
  PROVE  UnlinkInv'
<1>1. c \in Manager
  BY DEF IInv, TypeOK
<1>2. c.phase \in BeforeGit => c.unlink = {} /\ c.scanned = {} /\ c.seen \subseteq c.stages
  BY DEF UnlinkInv, BeforeGit, Deciding
<1>3. CASE InitStageDescSet
  BY <1>1, <1>2, <1>3, ListingUnlinks DEF InitStageDescSet, Manager, BeforeGit
<1>4. CASE InitFinalStageDescSet
  BY <1>1, <1>2, <1>4, ListingUnlinks DEF InitFinalStageDescSet, Manager, BeforeGit
<1>5. CASE InitCustomTagsMetadata
  BY <1>1, <1>2, <1>5, ListingUnlinks DEF InitCustomTagsMetadata, Manager, BeforeGit
<1>6. CASE KubernetesBasedPolicy
  BY <1>1, <1>2, <1>6, ListingUnlinks DEF KubernetesBasedPolicy, Manager, BeforeGit
<1>7. CASE RunAgain
  BY <1>7, ListingUnlinks DEF RunAgain, NewCleanupManager, BeforeGit
<1> QED
  BY <1>3, <1>4, <1>5, <1>6, <1>7

\* What is linked was listed, so the hits of its image and the rest make it up.
LEMMA ScanReferencesHistoryUnlinks ==
  ASSUME IInv, UnlinkInv, NEW i \in ManagedImages, ScanReferencesHistory(i)
  PROVE  UnlinkInv'
<1> DEFINE links == {l \in c.linked : l[2] = i}
<1>1. /\ c.phase = "git" /\ UNCHANGED <<linked, b>> /\ c \in Manager
      /\ \/ \E hits \in SUBSET {l \in links : l[1] \in c.stages} :
              c' = [c EXCEPT !.scanned = c.scanned \cup {i}, !.unlink = c.unlink \cup (links \ hits),
                      !.reason = MarkStageDescAsProtected(c.reason, {l[1] : l \in hits}, "git", TRUE)]
         \/ c' = [c EXCEPT !.phase = "failed"]
  BY DEF ScanReferencesHistory, ImageMetadata, registry, IInv, TypeOK
<1>2. CASE c' = [c EXCEPT !.phase = "failed"]
  BY <1>1, <1>2 DEF UnlinkInv, Manager, Deciding, BeforeGit, AfterGit
<1>3. ASSUME NEW hits \in SUBSET {l \in links : l[1] \in c.stages},
             c' = [c EXCEPT !.scanned = c.scanned \cup {i}, !.unlink = c.unlink \cup (links \ hits),
                     !.reason = MarkStageDescAsProtected(c.reason, {l[1] : l \in hits}, "git", TRUE)]
      PROVE  UnlinkInv'
  <2> DEFINE mark == MarkStageDescAsProtected(c.reason, {l[1] : l \in hits}, "git", TRUE)
  <2>1. /\ \A l \in hits : l[1] \in Stages => mark[l[1]] # None
        /\ \A s \in Stages : c.reason[s] # None => mark[s] # None
    <3>1. "git" # None
      BY NoneIsApart DEF Reasons, Policies
    <3> QED
      BY <3>1 DEF MarkStageDescAsProtected
  <2>2. \A l \in hits : l[1] \in Stages
    BY ManagerFields DEF IInv
  <2> HIDE DEF mark
  <2>3. /\ c'.phase = "git" /\ c'.scanned = c.scanned \cup {i}
        /\ c'.unlink = c.unlink \cup (links \ hits) /\ c'.reason = mark
        /\ UNCHANGED <<c.linked, c.seen, c.stages, c.spared>>
    BY <1>1, <1>3 DEF Manager, mark
  <2>4. Protected \subseteq Protected' /\ \A l \in hits : l[1] \in Protected'
    BY <2>1, <2>2, <2>3 DEF Protected
  <2>5. ASSUME b.at = "idle", ~c.spared, NEW l \in linked, l[2] \in c'.scanned
        PROVE  l[1] \in Protected' \/ l \in c'.unlink
    <3>1. l \in c.linked
      BY <1>1, <2>5 DEF IInv, RecordInv
    <3>2. CASE l[2] \in c.scanned
      BY <1>1, <2>3, <2>4, <2>5, <3>2 DEF UnlinkInv
    <3>3. CASE l[2] = i
      BY <2>3, <2>4, <3>1, <3>3
    <3> QED
      BY <2>3, <2>5, <3>2, <3>3
  <2>6. c'.unlink \subseteq c'.linked /\ c'.seen \subseteq c'.stages
    BY <1>1, <2>3 DEF UnlinkInv, Deciding
  <2> QED
    BY <1>1, <2>3, <2>5, <2>6 DEF UnlinkInv, BeforeGit, AfterGit
<1> QED
  BY <1>1, <1>2, <1>3

LEMMA RmImageMetadataUnlinks ==
  ASSUME IInv, UnlinkInv, NEW l \in c.unlink, RmImageMetadata(l)
  PROVE  UnlinkInv'
<1> DEFINE rest == [c EXCEPT !.unlink = c.unlink \ {l}]
<1>1. /\ c.phase \in {"git", "other policies"} /\ UNCHANGED <<options, b>> /\ c \in Manager
      /\ \/ c' = rest /\ linked' = linked \ {l}
         \/ c' = [rest EXCEPT !.spared = TRUE] /\ linked' = linked
         \/ c' = [c EXCEPT !.phase = "failed"]
  BY DEF RmImageMetadata, Spare, world, registry, IInv, TypeOK
<1>2. CASE c' = rest /\ linked' = linked \ {l}
  <2>1. /\ c'.unlink = c.unlink \ {l}
        /\ UNCHANGED <<c.phase, c.linked, c.seen, c.stages, c.reason, c.scanned, c.spared>>
    BY <1>1, <1>2 DEF Manager
  <2>2. Protected' = Protected /\ \A k : Orphaned(k)' = Orphaned(k)
    BY <1>1, <2>1 DEF Protected, Orphaned
  <2> QED
    BY <1>1, <1>2, <2>1, <2>2 DEF UnlinkInv, BeforeGit, AfterGit
<1>3. CASE c' = [rest EXCEPT !.spared = TRUE] /\ linked' = linked
  <2>1. /\ c'.unlink = c.unlink \ {l} /\ c'.spared
        /\ UNCHANGED <<c.phase, c.linked, c.seen, c.stages>>
    BY <1>1, <1>3 DEF Manager
  <2> QED
    BY <1>1, <2>1 DEF UnlinkInv, BeforeGit
<1>4. CASE c' = [c EXCEPT !.phase = "failed"]
  BY <1>1, <1>4 DEF UnlinkInv, Manager, Deciding, BeforeGit, AfterGit
<1> QED
  BY <1>1, <1>2, <1>3, <1>4

\* An image in werf.yaml that was not visited has no record of a listed stage.
LEMMA CleanupNonexistentImageMetadataUnlinks ==
  ASSUME IInv, UnlinkInv, CleanupNonexistentImageMetadata
  PROVE  UnlinkInv'
<1> DEFINE gone == {l \in c.linked : options.git => l[2] \notin ManagedImages}
<1>1. /\ c.phase = "git" /\ c.unlink = {} /\ UNCHANGED <<options, linked, b>> /\ c \in Manager
      /\ options.git =>
           \A i \in ManagedImages \ c.scanned : \A l \in c.linked : l[2] = i => l[1] \notin c.stages
      /\ c' = [c EXCEPT !.phase = "other policies", !.unlink = gone]
  BY DEF CleanupNonexistentImageMetadata, ToScan, ImageMetadata, world, registry, IInv, TypeOK
<1> HIDE DEF gone
<1>2. /\ c'.phase = "other policies" /\ c'.unlink = gone
      /\ UNCHANGED <<c.linked, c.seen, c.stages, c.reason, c.spared>>
  BY <1>1 DEF Manager
<1>3. c.seen \subseteq c.stages
  BY <1>1 DEF UnlinkInv, Deciding
<1>4. ASSUME b.at = "idle", ~c.spared, NEW l \in linked, l[1] \notin Protected, l \notin gone
      PROVE  Orphaned(l)
  <2>1. l \in c.linked
    BY <1>1, <1>4 DEF IInv, RecordInv
  <2>2. options.git /\ l[2] \in ManagedImages
    BY <2>1, <1>4 DEF gone
  <2>3. l[2] \notin c.scanned
    BY <1>1, <1>4 DEF UnlinkInv
  <2> QED
    BY <2>2, <2>3, <1>1, <1>3 DEF Orphaned
<1>5. Protected' = Protected /\ \A l : Orphaned(l)' = Orphaned(l)
  BY <1>1, <1>2 DEF Protected, Orphaned
<1>6. gone \subseteq c.linked
  BY DEF gone
<1> QED
  BY <1>1, <1>2, <1>3, <1>4, <1>5, <1>6 DEF UnlinkInv, BeforeGit

\* After that nothing is linked or unlinked, and no protection is lost.
LEMMA UnlinkedStays ==
  ASSUME UnlinkInv, c.phase \in AfterGit, c.unlink = {},
         c'.phase \in (AfterGit \ {"other policies"}) \cup {"failed"},
         UNCHANGED <<options, linked, b, c.linked, c.seen, c.unlink>>,
         Protected \subseteq Protected', ~c'.spared => ~c.spared,
         c'.phase = "walk" => c.seen \subseteq c'.stages
  PROVE  UnlinkInv'
<1>1. \A l : Orphaned(l)' = Orphaned(l)
  BY DEF Orphaned
<1>2. b'.at = "idle" /\ ~c'.spared /\ c'.phase \in AfterGit =>
        \A l \in linked' : l[1] \in Protected' \/ l \in c'.unlink \/ Orphaned(l)'
  BY <1>1 DEF UnlinkInv
<1> QED
  BY <1>2 DEF UnlinkInv, Deciding, BeforeGit, AfterGit

LEMMA ProtectingUnlinks ==
  ASSUME IInv, UnlinkInv, OtherPolicies \/ Walk \/ StartDeleting
  PROVE  UnlinkInv'
<1>1. /\ c \in Manager /\ UNCHANGED <<options, linked, b>>
      /\ c.phase \in {"other policies", "walk"} /\ c.unlink = {} /\ c.seen \subseteq c.stages
  BY DEF OtherPolicies, Walk, StartDeleting, world, registry, IInv, TypeOK, UnlinkInv, Deciding
<1>2. CASE OtherPolicies
  <2> DEFINE built == MarkStageDescAsProtected(c.reason, c.stages \cap recent, "hours", FALSE)
             all == MarkStageDescAsProtected(built, c.stages \cap keepList, "keep list", FALSE)
             groups == {<<p, {s \in Stages : all[s] = p}>> :
                           p \in {q \in Policies : \E s \in Stages : all[s] = q}}
  <2>1. \A s \in Stages : c.reason[s] # None => all[s] # None
    <3>1. "hours" # None /\ "keep list" # None
      BY NoneIsApart DEF Reasons, Policies
    <3> QED
      BY <3>1 DEF MarkStageDescAsProtected
  <2>2. c' = [c EXCEPT !.phase = "walk", !.imports = c.imports \cap imports, !.reason = all,
                       !.groups = groups]
    BY <1>2 DEF OtherPolicies
  <2> HIDE DEF all, groups
  <2>3. c'.phase = "walk" /\ c'.reason = all
        /\ UNCHANGED <<c.linked, c.seen, c.unlink, c.stages, c.spared>>
    BY <2>2, <1>1 DEF Manager
  <2>4. Protected \subseteq Protected'
    BY <2>1, <2>3 DEF Protected
  <2> QED
    BY <1>1, <2>3, <2>4, UnlinkedStays DEF AfterGit
<1>3. CASE Walk
  <2>1. PICK p, S : c' = ProtectRelativeStages(p, S)
    BY <1>3 DEF Walk
  <2> DEFINE groups == c.groups \ {<<p, S>>}
             handled == c.handled \cup Handled(Targets(S), p # "git")
  <2>2. /\ c' = [c EXCEPT !.groups = groups, !.handled = handled, !.reason = c'.reason]
        /\ \A s \in Stages : c.reason[s] # None => c'.reason[s] = c.reason[s]
    BY <2>1, WalkMarks
  <2> HIDE DEF groups, handled
  <2>3. /\ UNCHANGED <<c.phase, c.linked, c.seen, c.unlink, c.stages, c.spared>>
        /\ Protected \subseteq Protected'
    BY <2>2, <1>1 DEF Manager, Protected
  <2>4. c.phase = "walk"
    BY <1>3 DEF Walk
  <2> QED
    BY <1>1, <2>3, <2>4, UnlinkedStays DEF AfterGit
<1>4. CASE StartDeleting
  <2>1. c'.phase = "stages" /\ UNCHANGED <<c.linked, c.seen, c.unlink, c.reason, c.spared>>
    BY <1>1, <1>4 DEF StartDeleting, Manager
  <2> QED
    BY <1>1, <2>1, UnlinkedStays DEF AfterGit, Protected
<1> QED
  BY <1>2, <1>3, <1>4

\* The steps that delete leave image metadata alone.
LEMMA DeletingUnlinks ==
  ASSUME IInv, UnlinkInv, c.phase \in Deleting,
         c'.phase \in Deleting \cup {"done", "failed"},
         UNCHANGED <<options, linked, b, c.linked, c.seen, c.unlink, c.reason>>,
         ~c'.spared => ~c.spared
  PROVE  UnlinkInv'
<1>1. c.phase \in AfterGit /\ c.unlink = {}
  BY DEF UnlinkInv, Deleting, AfterGit
<1> QED
  BY <1>1, UnlinkedStays DEF Deleting, AfterGit, Protected

LEMMA DeletingStepsUnlink ==
  ASSUME IInv, UnlinkInv,
         \/ \E s \in Stages : DeleteStage(s)
         \/ ForgetDeletedStages
         \/ \E t \in CustomTags : DeleteStageCustomTag(t) \/ UnregisterStageCustomTag(t)
         \/ DeleteUnusedImportsMetadata \/ CleanupFinalStages
  PROVE  UnlinkInv'
<1>1. c \in Manager /\ c.spared \in BOOLEAN
  BY ManagerFields DEF IInv
<1>2. ASSUME NEW s \in Stages, DeleteStage(s) PROVE UnlinkInv'
  BY <1>1, <1>2, DeletingUnlinks DEF DeleteStage, Spare, world, registry, Manager, Deleting
<1>3. CASE ForgetDeletedStages
  BY <1>1, <1>3, DeletingUnlinks DEF ForgetDeletedStages, world, registry, Manager, Deleting
<1>4. ASSUME NEW t \in CustomTags, DeleteStageCustomTag(t) PROVE UnlinkInv'
  BY <1>1, <1>4, DeletingUnlinks DEF DeleteStageCustomTag, Spare, world, registry, Manager, Deleting
<1>5. ASSUME NEW t \in CustomTags, UnregisterStageCustomTag(t) PROVE UnlinkInv'
  BY <1>1, <1>5, DeletingUnlinks DEF UnregisterStageCustomTag, Spare, world, registry, Manager, Deleting
<1>6. CASE DeleteUnusedImportsMetadata
  BY <1>1, <1>6, DeletingUnlinks DEF DeleteUnusedImportsMetadata, Spare, world, registry, Manager, Deleting
<1>7. CASE CleanupFinalStages
  BY <1>1, <1>7, DeletingUnlinks DEF CleanupFinalStages, Spare, world, registry, Manager, Deleting
<1> QED
  BY <1>2, <1>3, <1>4, <1>5, <1>6, <1>7

-----------------------------------------------------------------------------
(* The theorems.                                                           *)

LEMMA InitKeeps ==
  ASSUME Init
  PROVE  IInv
<1>1. PICK w \in Worlds :
        /\ options = w.options /\ repo = w.repo
        /\ final = IF w.options.final THEN w.final ELSE {}
        /\ points = w.points /\ tagRecord = w.tagRecord /\ linked = w.linked
  BY DEF Init
<1>2. /\ imports = DOMAIN ImportMetadata /\ c = NewCleanupManager(1)
      /\ b = [at |-> "idle", target |-> None, tag |-> None, known |-> {}]
      /\ drifted = Drift(points, tagRecord)
  BY DEF Init
<1>3. /\ options \in [final : BOOLEAN, byManifest : BOOLEAN, kube : BOOLEAN, git : BOOLEAN,
                      build : BOOLEAN, image : Images, rounds : Nat \ {0}]
      /\ repo \subseteq Stages \ {New} /\ final \subseteq Stages
      /\ points \in [CustomTags -> Stages \cup {None}]
      /\ tagRecord \in [CustomTags -> (Stages \ {New}) \cup {None}]
      /\ linked \subseteq {r \in Links : r[1] # New}
  BY <1>1, CleanupAssumption
<1>4. /\ c \in Manager /\ c.phase = "list" /\ c.round = 1
      /\ c.stages = {} /\ c.finalStages = {} /\ c.finalProtected = {} /\ c.used = {}
      /\ (\A s \in Stages : c.reason[s] = None) /\ (\A t \in CustomTags : c.tagList[t] = None)
      /\ c.handled = {} /\ c.groups = {} /\ c.seen = {} /\ c.unregister = {}
  BY <1>2 DEF NewCleanupManager, Manager, Phases
<1>5. Protected = {}
  BY <1>4 DEF Protected
<1>6. /\ b.at = "idle" /\ b.target = None
      /\ b \in [at : {"idle", "built", "copied", "linked", "tagged", "deployed", "failed"},
                target : Stages \cup {None}, tag : CustomTags \cup {None},
                known : SUBSET (Links)]
  BY <1>2
<1>7. drifted \in BOOLEAN
  BY <1>2 DEF Drift
<1>8. TypeOK
  BY <1>2, <1>3, <1>4, <1>5, <1>6, <1>7 DEF TypeOK
<1>9. KeepInv /\ FinalInv
  BY <1>4, <1>5 DEF KeepInv, FinalInv
<1>10. TagInv
  BY <1>2, <1>4, <1>6 DEF TagInv, Pending
<1>11. NewInv
  <2>1. New \notin repo /\ (\A t \in CustomTags : tagRecord[t] # New)
        /\ \A r \in linked : r[1] # New
    BY <1>3, NoneIsApart
  <2> QED
    BY <2>1, <1>4, <1>6, NoneIsApart DEF NewInv, Fresh, NewStagesStay
<1>12. RecordInv
  BY <1>4 DEF RecordInv, AfterGit
<1>13. WalkInv /\ RelativesStay
  BY <1>4 DEF WalkInv, RelativesStay, Walked, BeforeWalk, Deciding
<1> QED
  BY <1>8, <1>9, <1>10, <1>11, <1>12, <1>13 DEF IInv

LEMMA StutteringKeeps ==
  ASSUME IInv, UNCHANGED vars
  PROVE  IInv'
<1>1. UNCHANGED <<options, repo, final, points, tagRecord, linked, imports, c, b, drifted>>
  BY DEF vars, world, registry, tags
<1>2. /\ Protected' = Protected /\ WalkInv' = WalkInv /\ RelativesStay' = RelativesStay
      /\ (\A t : Pending(t)' = Pending(t)) /\ Fresh' = Fresh
      /\ TagsNameTheirStage' = TagsNameTheirStage
  BY <1>1, ManagerStays DEF TagsNameTheirStage
<1>3. TypeOK' /\ KeepInv' /\ FinalInv'
  <2>1. TypeOK'
    BY <1>1, <1>2 DEF IInv, TypeOK
  <2>2. KeepInv' /\ FinalInv'
    BY <1>1, <1>2 DEF IInv, KeepInv, FinalInv
  <2> QED
    BY <2>1, <2>2
<1>4. TagInv' /\ RecordInv'
  BY <1>1, <1>2 DEF IInv, TagInv, RecordInv, Drift
<1>5. NewInv'
  <2>1. NewStagesStay'
    BY <1>1, <1>2 DEF IInv, NewInv, NewStagesStay
  <2> QED
    BY <2>1, <1>1, <1>2 DEF IInv, NewInv
<1> QED
  BY <1>2, <1>3, <1>4, <1>5 DEF IInv

\* The strengthening that the theorems below rest on, in every state of every
\* cleanup beside every build.
THEOREM Invariance == Spec => [](IInv /\ UnlinkInv)
<1>1. Init => IInv /\ UnlinkInv
  <2>1. Init => UnlinkInv
    BY DEF Init, NewCleanupManager, UnlinkInv, AfterGit
  <2> QED
    BY <2>1, InitKeeps
<1>2. IInv /\ UnlinkInv /\ [Next]_vars => IInv' /\ UnlinkInv'
  <2>1. SUFFICES ASSUME IInv, UnlinkInv, [Next]_vars PROVE IInv' /\ UnlinkInv'
    OBVIOUS
  <2>2. ASSUME Cleaning PROVE IInv'
    <3>1. c.unlink \subseteq c.linked
      BY <2>1 DEF UnlinkInv
    <3> QED
      BY <2>1, <2>2, <3>1, InitStageDescSetKeeps, InitFinalStageDescSetKeeps,
         InitCustomTagsMetadataKeeps, KubernetesBasedPolicyKeeps, ScanReferencesHistoryKeeps,
         RmImageMetadataKeeps, CleanupNonexistentImageMetadataKeeps,
         OtherPoliciesKeeps, WalkKeeps, StartDeletingKeeps, DeleteStageKeeps,
         ForgetDeletedStagesKeeps, DeleteStageCustomTagKeeps, UnregisterStageCustomTagKeeps,
         DeleteUnusedImportsMetadataKeeps, CleanupFinalStagesKeeps DEF Cleaning
  <2>3. ASSUME Building PROVE IInv'
    BY <2>1, <2>3, BuildKeeps, PublishFinalImageKeeps, PublishImageGitMetadataKeeps,
       AddStageCustomTagKeeps, RegisterStageCustomTagKeeps, DeployKeeps DEF Building
  <2>4. ASSUME Cleaning PROVE UnlinkInv'
    BY <2>1, <2>4, ListingStepsUnlink, ScanReferencesHistoryUnlinks, RmImageMetadataUnlinks,
       CleanupNonexistentImageMetadataUnlinks, ProtectingUnlinks, DeletingStepsUnlink DEF Cleaning
  <2>5. ASSUME UNCHANGED vars PROVE UnlinkInv'
    <3>1. UNCHANGED <<options, linked, c, b>>
      BY <2>5 DEF vars, world, registry
    <3> QED
      BY <2>1, <3>1 DEF UnlinkInv, Protected, Orphaned
  <2> QED
    BY <2>1, <2>2, <2>3, <2>4, <2>5, RunAgainKeeps, ListingStepsUnlink, BuildingUnlinks,
       StutteringKeeps DEF Next
<1> QED
  BY <1>1, <1>2, PTL DEF Spec

\* A stage that Kubernetes used when the cleanup looked is in the repo as long as
\* the cleanup runs and after, and a used copy in the final repo.
THEOREM UsedStay == Spec => []UsedStagesStay
<1>1. IInv => UsedStagesStay
  BY DEF IInv, KeepInv, FinalInv, UsedStagesStay
<1> QED
  BY <1>1, Invariance, PTL

\* Once the walk over relatives is over, protection is closed under ancestors,
\* and under sources and platforms as far as the policies promise it, for any
\* graph of stages and whatever the order in which the reasons are walked.
THEOREM RelativesProtected == Spec => []RelativesStay
<1>1. IInv => RelativesStay
  BY DEF IInv
<1> QED
  BY <1>1, Invariance, PTL

\* A stage published after the cleanup has listed the repo stays, and so does its
\* link to its commit.
THEOREM NewStay == Spec => []NewStagesStay
<1>1. IInv => NewStagesStay
  BY DEF IInv, NewInv
<1> QED
  BY <1>1, Invariance, PTL

\* A cleanup that ends without a failed deletion, beside no build, leaves no link,
\* no custom tag and no import metadata of a stage that is not there, but the
\* links of images that it did not visit.
THEOREM NoRecordsDangle == Spec => []NothingDangles
<1>1. ASSUME IInv, UnlinkInv, Finished, ~c.spared, b.at = "idle", TagsNameTheirStage
      PROVE  /\ \A l \in linked : l[1] \in repo \/ Orphaned(l)
             /\ \A t \in CustomTags : tagRecord[t] \in repo \cup {None} \/ c.tagList[t] = None
             /\ \A i \in imports : ImportMetadata[i].source \in repo
  <2>1. Protected \subseteq repo /\ c.phase = "done"
    BY <1>1 DEF IInv, KeepInv, Finished
  <2>2. \A l \in linked : l[1] \in Protected \/ Orphaned(l)
    BY <1>1, <2>1 DEF UnlinkInv, AfterGit
  <2>3. /\ \A t \in CustomTags : c.tagList[t] # None => tagRecord[t] \in {None, c.tagList[t]}
        /\ \A t \in CustomTags : c.tagList[t] # None /\ c.tagList[t] \notin Protected =>
              tagRecord[t] = None
        /\ \A i \in imports : ImportMetadata[i].source \in Protected
    BY <1>1, <2>1 DEF IInv, RecordInv
  <2> QED
    BY <2>1, <2>2, <2>3
<1>2. IInv /\ UnlinkInv => NothingDangles
  BY <1>1 DEF NothingDangles
<1> QED
  BY <1>2, Invariance, PTL

-----------------------------------------------------------------------------
(* GitData: the cache of git data on the host.                             *)

-----------------------------------------------------------------------------
(* The inductive invariants.                                               *)

\* Whoever writes an entry holds the lock of its key, so the access it has
\* recorded is there until it hands out the path.
WriterInv ==
  \A p \in Procs :
    /\ task[p].pc \in {"meta", "rename"} => keyLock[KeyOf(p)] = p
    /\ At(p, "rename") => meta[KeyOf(p)] \in Times

\* A clone that was seen is there until the access to it is recorded.
SeerInv == \A p \in Procs : At(p, "cloneSee") => clone # NoFile

\* No access was recorded in the future.
PastInv ==
  /\ \A k \in Keys : meta[k] \in Times => meta[k] <= now
  /\ \A d \in {clone, tmp} : d # NoFile /\ d.at \in Times => d.at <= now
  /\ \A p \in Procs : \A k \in Keys : held[p][k] # NoFile => held[p][k] <= now
  /\ \A p \in Procs : clonedAt[p] # NoFile => clonedAt[p] <= now

\* The collector is about to remove the entry e.
Doomed(e) == gc.pc # "idle" /\ (e \in gc.todo \/ gc.pc = e)

\* A file that was handed out less than three hours ago is there and not about
\* to be removed, and metadata that can be read is as young as the path.
HeldInv ==
  \A p \in Procs : \A k \in Keys :
    Preserved(held[p][k]) =>
      /\ data[k] # NoFile /\ ~Doomed(k)
      /\ meta[k] \in Times => held[p][k] <= meta[k]

\* The same of a clone, which has no access recorded when it may be removed,
\* unless the record was lost.
SeenInv ==
  \A p \in Procs :
    Preserved(clonedAt[p]) /\ p \notin lost =>
      /\ clone # NoFile /\ ~Doomed(CloneKey)
      /\ clone.at # NoFile /\ (clone.at \in Times => clonedAt[p] <= clone.at)

\* The collector lists what is there, and what it removes is off the list.
ListedInv ==
  gc.pc # "idle" => gc.pc \notin gc.todo /\ (CloneKey \in gc.todo => clone # NoFile)

BaseInv == DataTypeOK /\ WriterInv /\ SeerInv /\ ListedInv

FilesInv == BaseInv /\ PastInv /\ HeldInv /\ SeenInv

\* One process at a time clones, and what it has written is in the temporary
\* directory, unless two names were cloned at a time.
OneCloner ==
  /\ \A p, q \in Procs : task[p].pc \in Cloning /\ task[q].pc \in Cloning => p = q
  /\ \A p \in Procs : At(p, "clonePart") => tmp # NoFile /\ 1 \in tmp.parts
  /\ \A p \in Procs : At(p, "cloneRename") => tmp # NoFile /\ tmp.parts = Parts

WholeInv == BaseInv /\ (~damaged => OneCloner) /\ ClonesWhole

-----------------------------------------------------------------------------
(* What a process or the collector is doing.                               *)

ClonePcs == {"cloneLock", "cloneSee"} \union Cloning

LEMMA TaskForms ==
  ASSUME DataTypeOK, NEW p \in Procs
  PROVE  /\ task[p].pc \in {"idle"} \union FilePcs \union ClonePcs
         /\ task[p].pc = "idle" <=> task[p] = Idle
         /\ task[p].pc \in FilePcs => task[p] \in [pc : FilePcs, key : Keys]
         /\ task[p].pc \in ClonePcs => task[p] \in [pc : ClonePcs, name : Names]
BY DEF DataTypeOK, Tasks, FilePcs, ClonePcs, Cloning, Idle

LEMMA Going ==
  ASSUME DataTypeOK, NEW p \in Procs, NEW pc, Goto(p, pc),
         \/ task[p].pc \in FilePcs /\ pc \in FilePcs
         \/ task[p].pc \in ClonePcs /\ pc \in ClonePcs
  PROVE  /\ task' \in [Procs -> Tasks]
         /\ task'[p].pc = pc /\ KeyOf(p)' = KeyOf(p)
         /\ \A q \in Procs : q # p => task'[q] = task[q]
<1>1. task \in [Procs -> Tasks] /\ task' = [task EXCEPT ![p].pc = pc]
  BY DEF DataTypeOK, Goto
<1>2. CASE task[p].pc \in FilePcs /\ pc \in FilePcs
  <2>1. task[p] \in [pc : FilePcs, key : Keys]
    BY <1>2, TaskForms
  <2>2. [task[p] EXCEPT !.pc = pc] \in [pc : FilePcs, key : Keys]
    BY <1>2, <2>1
  <2> QED
    BY <1>1, <2>1, <2>2 DEF Tasks, KeyOf
<1>3. CASE task[p].pc \in ClonePcs /\ pc \in ClonePcs
  <2>1. task[p] \in [pc : ClonePcs, name : Names]
    BY <1>3, TaskForms
  <2>2. [task[p] EXCEPT !.pc = pc] \in [pc : ClonePcs, name : Names]
    BY <1>3, <2>1
  <2>3. task' \in [Procs -> Tasks]
    BY <1>1, <2>2 DEF Tasks, ClonePcs
  <2> QED
    BY <1>1, <2>1, <2>3 DEF KeyOf
<1> QED
  BY <1>2, <1>3

LEMMA CollectorForms ==
  ASSUME DataTypeOK, gc.pc # "idle"
  PROVE  /\ gc = [pc |-> gc.pc, todo |-> gc.todo, need |-> gc.need]
         /\ gc.pc \in {"pick", CloneKey, TmpKey} \union Keys
         /\ gc.todo \subseteq Keys \union {CloneKey, TmpKey}
         /\ gc.need \in Nat
BY DEF DataTypeOK, Collectors, NoGC

LEMMA Accessed ==
  ASSUME NEW d \in Clones, NEW t \in Times \union {NoFile, Torn}
  PROVE  [d EXCEPT !.at = t] \in Clones
BY DEF Clones

-----------------------------------------------------------------------------
(* Every step keeps the types and the locks.                               *)

LEMMA Ending ==
  ASSUME DataTypeOK, NEW p \in Procs, End(p)
  PROVE  /\ task' \in [Procs -> Tasks]
         /\ task'[p] = Idle
         /\ \A q \in Procs : q # p => task'[q] = task[q]
BY DEF DataTypeOK, End, Tasks

LEMMA FilesKeepTypes ==
  ASSUME BaseInv, NEW p \in Procs,
         \/ \E k \in Keys : AskFor(p, k)
         \/ Get(p) \/ MakeTmpFile(p) \/ LockKey(p) \/ WriteMetadata(p) \/ RenameIntoPlace(p)
  PROVE  DataTypeOK'
<1> USE TaskForms, Going, Ending DEF BaseInv, files, remote
<1>1. ASSUME NEW k \in Keys, AskFor(p, k) PROVE DataTypeOK'
  <2>1. [pc |-> "get", key |-> k] \in Tasks
    BY DEF Tasks, FilePcs
  <2> QED
    BY <1>1, <2>1 DEF AskFor, DataTypeOK, Active
<1>2. CASE Get(p)
  <2>1. KeyOf(p) \in Keys /\ task[p].pc \in FilePcs /\ gc.pc = "idle"
    BY <1>2 DEF Get, At, KeyOf, FilePcs, DataTypeOK, Active
  <2>2. CASE GetFile(p, KeyOf(p))
    <3>1. meta' \in [Keys -> {NoFile, Torn} \union Times]
      BY <2>1, <2>2 DEF GetFile, DataTypeOK
    <3>2. held' \in [Procs -> [Keys -> Times \union {NoFile}]]
      <4>1. held' = held \/ held' = [held EXCEPT ![p][KeyOf(p)] = now]
        BY <2>2 DEF GetFile
      <4> QED
        <5>1. held \in [Procs -> [Keys -> Times \union {NoFile}]] /\ now \in Times
          BY DEF DataTypeOK
        <5>2. [held[p] EXCEPT ![KeyOf(p)] = now] \in [Keys -> Times \union {NoFile}]
          BY <2>1, <5>1
        <5> QED
          BY <4>1, <5>1, <5>2
    <3>3. task' \in [Procs -> Tasks]
      BY <2>2 DEF GetFile
    <3> QED
      BY <1>2, <2>1, <3>1, <3>2, <3>3 DEF Get, DataTypeOK
  <2>3. CASE Goto(p, IF At(p, "get") THEN "make" ELSE "lock") /\ UNCHANGED <<meta, held>>
    BY <1>2, <2>1, <2>3 DEF Get, DataTypeOK, FilePcs
  <2> QED
    BY <1>2, <2>2, <2>3 DEF Get
<1>3. CASE MakeTmpFile(p)
  <2>1. task[p].pc \in FilePcs /\ gc.pc = "idle"
    BY <1>3 DEF MakeTmpFile, At, FilePcs, DataTypeOK, Active
  <2>2. task' \in [Procs -> Tasks]
    BY <1>3, <2>1 DEF MakeTmpFile, FilePcs
  <2> QED
    BY <1>3, <2>1, <2>2 DEF MakeTmpFile, DataTypeOK
<1>4. CASE LockKey(p)
  <2>1. KeyOf(p) \in Keys /\ task[p].pc \in FilePcs /\ gc.pc = "idle"
    BY <1>4 DEF LockKey, At, KeyOf, FilePcs, DataTypeOK, Active
  <2>2. task' \in [Procs -> Tasks]
    BY <1>4, <2>1 DEF LockKey, FilePcs
  <2> QED
    BY <1>4, <2>1, <2>2 DEF LockKey, DataTypeOK
<1>5. CASE WriteMetadata(p)
  <2>1. KeyOf(p) \in Keys /\ task[p].pc \in FilePcs /\ gc.pc = "idle"
    BY <1>5 DEF WriteMetadata, At, KeyOf, FilePcs, DataTypeOK, Active
  <2>2. task' \in [Procs -> Tasks]
    BY <1>5, <2>1 DEF WriteMetadata, FilePcs
  <2> QED
    BY <1>5, <2>1, <2>2 DEF WriteMetadata, DataTypeOK
<1>6. CASE RenameIntoPlace(p)
  <2>1. /\ KeyOf(p) \in Keys /\ task[p].pc \in FilePcs /\ gc.pc = "idle"
        /\ meta[KeyOf(p)] \in Times
    BY <1>6 DEF RenameIntoPlace, At, KeyOf, FilePcs, DataTypeOK, Active, WriterInv
  <2>2. held' \in [Procs -> [Keys -> Times \union {NoFile}]]
    BY <1>6, <2>1 DEF RenameIntoPlace, DataTypeOK
  <2> QED
    BY <1>6, <2>1, <2>2 DEF RenameIntoPlace, DataTypeOK
<1> QED
  BY <1>1, <1>2, <1>3, <1>4, <1>5, <1>6

LEMMA ClonesKeepTypes ==
  ASSUME BaseInv, NEW p \in Procs,
         \/ \E n \in Names : Clone(p, n)
         \/ LockRemoteRepo(p) \/ RemoteRepoLockTimeout(p) \/ SeeClone(p) \/ WritePart(p)
         \/ RenameClone(p) \/ Kill(p)
  PROVE  DataTypeOK'
<1> USE TaskForms, Going, Ending DEF BaseInv, files, remote
<1>1. ASSUME NEW n \in Names, Clone(p, n) PROVE DataTypeOK'
  <2>1. \A pc \in {"cloneSee", "cloneLock"} : [pc |-> pc, name |-> n] \in Tasks
    BY DEF Tasks
  <2>2. task' \in [Procs -> Tasks]
    BY <1>1, <2>1 DEF Clone, DataTypeOK
  <2> QED
    BY <1>1, <2>2 DEF Clone, DataTypeOK, Active
<1>2. CASE LockRemoteRepo(p)
  <2>1. NameOf(p) \in Names /\ task[p].pc \in ClonePcs /\ gc.pc = "idle"
    BY <1>2 DEF LockRemoteRepo, At, NameOf, ClonePcs, DataTypeOK, Active
  <2>2. task' \in [Procs -> Tasks]
    BY <1>2, <2>1 DEF LockRemoteRepo, ClonePcs, Cloning
  <2> QED
    BY <1>2, <2>1, <2>2 DEF LockRemoteRepo, DataTypeOK
<1>3. CASE RemoteRepoLockTimeout(p)
  BY <1>3 DEF RemoteRepoLockTimeout, DataTypeOK, At, Active, Idle
<1>4. CASE WritePart(p)
  <2>1. task[p].pc \in ClonePcs /\ gc.pc = "idle"
    BY <1>4 DEF WritePart, At, ClonePcs, Cloning, DataTypeOK, Active
  <2>2. task' \in [Procs -> Tasks]
    BY <1>4, <2>1 DEF WritePart, ClonePcs, Cloning
  <2>3. tmp' \in Clones
    BY <1>4 DEF WritePart, DataTypeOK, Clones, Parts
  <2> QED
    BY <1>4, <2>1, <2>2, <2>3 DEF WritePart, DataTypeOK
<1>5. CASE RenameClone(p)
  <2>1. task[p].pc \in ClonePcs /\ gc.pc = "idle"
    BY <1>5 DEF RenameClone, At, ClonePcs, Cloning, DataTypeOK, Active
  <2>2. clonedAt' \in [Procs -> Times \union {NoFile}]
    BY <1>5 DEF RenameClone, DataTypeOK, Clones
  <2>3. task' \in [Procs -> Tasks] /\ nameLock' \in [Names -> Procs \union {NoProc}]
    BY <1>5 DEF RenameClone, ReleaseNames, DataTypeOK
  <2> QED
    BY <1>5, <2>1, <2>2, <2>3 DEF RenameClone, DataTypeOK
<1>6. CASE SeeClone(p)
  <2>1. gc.pc = "idle" /\ clone # NoFile
    BY <1>6 DEF SeeClone, At, ClonePcs, DataTypeOK, Active, SeerInv
  <2>2. clone' \in Clones /\ clonedAt' \in [Procs -> Times \union {NoFile}]
    BY <1>6, <2>1, Accessed DEF SeeClone, DataTypeOK
  <2>3. task' \in [Procs -> Tasks] /\ nameLock' \in [Names -> Procs \union {NoProc}]
    BY <1>6 DEF SeeClone, ReleaseNames, DataTypeOK
  <2> QED
    BY <1>6, <2>1, <2>2, <2>3 DEF SeeClone, DataTypeOK
<1>7. CASE Kill(p)
  <2>1. gc.pc = "idle"
    BY <1>7 DEF Kill, DataTypeOK
  <2>2. /\ held' \in [Procs -> [Keys -> Times \union {NoFile}]]
        /\ clonedAt' \in [Procs -> Times \union {NoFile}]
    BY <1>7 DEF Kill, DataTypeOK
  <2>3. /\ keyLock' \in [Keys -> Procs \union {NoProc}]
        /\ nameLock' \in [Names -> Procs \union {NoProc}]
    BY <1>7 DEF Kill, ReleaseNames, DataTypeOK
  <2>4. meta' \in [Keys -> {NoFile, Torn} \union Times]
    BY <1>7 DEF Kill, DataTypeOK
  <2>5. clone' \in Clones \union {NoFile}
    <3>1. CASE At(p, "cloneSee") /\ clone' = [clone EXCEPT !.at = Torn]
      <4>1. clone \in Clones
        BY <3>1 DEF SeerInv, DataTypeOK
      <4> QED
        BY <3>1, <4>1, Accessed
    <3>2. CASE clone' = clone
      BY <3>2 DEF DataTypeOK
    <3> QED
      BY <1>7, <3>1, <3>2 DEF Kill
  <2>6. tmp' \in Clones \union {NoFile}
    BY <1>7 DEF Kill, DataTypeOK, Clones, Parts
  <2>7. task' \in [Procs -> Tasks]
    BY <1>7 DEF Kill
  <2> QED
    BY <1>7, <2>1, <2>2, <2>3, <2>4, <2>5, <2>6, <2>7 DEF Kill, DataTypeOK
<1> QED
  BY <1>1, <1>2, <1>3, <1>4, <1>5, <1>6, <1>7

LEMMA CollectorKeepsTypes ==
  ASSUME BaseInv,
         \/ ListAndRemoveInvalid
         \/ \E e \in Keys \union {CloneKey, TmpKey} : RemoveEntry(e)
         \/ RemoveRest \/ EndGC \/ KillGC \/ Tick
  PROVE  DataTypeOK' /\ ListedInv'
<1> USE ConstantsAssumption DEF BaseInv, files, remote
<1>1. CASE ListAndRemoveInvalid
  <2>1. PICK need \in 1..(Cardinality(Keys) + 1) :
          gc' = [pc |-> IF Unreadable(clone) THEN CloneKey ELSE "pick", todo |-> Removable,
                 need |-> need]
    BY <1>1 DEF ListAndRemoveInvalid
  <2>2. Removable \subseteq Keys \union {CloneKey, TmpKey} /\ "pick" \notin Removable
    BY DEF Removable, Entries, CloneKey, TmpKey
  <2>3. CloneKey \in Removable => clone # NoFile /\ ~Unreadable(clone)
    BY DEF Removable, Entries, CloneKey, TmpKey
  <2>4. gc' \in Collectors
    BY <2>1, <2>2 DEF Collectors
  <2>5. meta' \in [Keys -> {NoFile, Torn} \union Times]
    BY <1>1 DEF ListAndRemoveInvalid, DataTypeOK
  <2>6. clone' \in Clones \union {NoFile} /\ tmp' \in Clones \union {NoFile}
        /\ (clone # NoFile => clone' # NoFile)
    <3>1. CASE Unreadable(clone)
      <4>1. PICK at \in {clone.at, NoFile} : clone' = [parts |-> {2}, at |-> at]
        BY <1>1, <3>1 DEF ListAndRemoveInvalid, BeginCloneRemoval
      <4>2. clone' \in Clones
        BY <3>1, <4>1 DEF Unreadable, Clones, Parts
      <4> QED
        BY <1>1, <4>2 DEF ListAndRemoveInvalid, DataTypeOK
    <3>2. CASE ~Unreadable(clone)
      BY <1>1, <3>2 DEF ListAndRemoveInvalid, DataTypeOK
    <3> QED
      BY <3>1, <3>2
  <2>7. lost' \subseteq Procs
    BY <1>1 DEF ListAndRemoveInvalid, DataTypeOK
  <2>8. DataTypeOK'
    BY <1>1, <2>4, <2>5, <2>6, <2>7 DEF ListAndRemoveInvalid, DataTypeOK, Active
  <2>9. ListedInv'
    BY <2>1, <2>2, <2>3, <2>6 DEF ListedInv
  <2> QED
    BY <2>8, <2>9
<1>2. ASSUME NEW e \in Keys \union {CloneKey, TmpKey}, RemoveEntry(e)
      PROVE  DataTypeOK' /\ ListedInv'
  <2>1. gc' = [pc |-> e, todo |-> gc.todo \ {e}, need |-> gc.need - 1] /\ gc.pc # "idle"
    BY <1>2 DEF RemoveEntry
  <2>2. gc' \in Collectors
    BY <1>2, <2>1, CollectorForms DEF Collectors, RemoveEntry
  <2>3. clone' \in Clones \union {NoFile} /\ (clone # NoFile => clone' # NoFile)
    <3>1. CASE e = CloneKey
      <4>1. clone \in Clones
        BY <1>2, <3>1 DEF RemoveEntry, ListedInv, DataTypeOK
      <4>2. \A at \in {clone.at, NoFile} : [parts |-> {2}, at |-> at] \in Clones
        BY <4>1 DEF Clones, Parts
      <4> QED
        BY <1>2, <3>1, <4>2 DEF RemoveEntry, BeginCloneRemoval
    <3>2. CASE e # CloneKey
      BY <1>2, <3>2 DEF RemoveEntry, DataTypeOK
    <3> QED
      BY <3>1, <3>2
  <2>4. meta' \in [Keys -> {NoFile, Torn} \union Times]
    BY <1>2 DEF RemoveEntry, DataTypeOK
  <2>5. DataTypeOK'
    BY <1>2, <2>2, <2>3, <2>4 DEF RemoveEntry, DataTypeOK, Active
  <2>6. ListedInv'
    BY <1>2, <2>1, <2>3 DEF RemoveEntry, ListedInv
  <2> QED
    BY <2>5, <2>6
<1>3. CASE RemoveRest
  <2>1. gc.pc \in Keys \union {CloneKey, TmpKey} /\ gc' = [gc EXCEPT !.pc = "pick"]
    BY <1>3 DEF RemoveRest
  <2>2. gc.pc # "idle"
    BY <2>1 DEF CloneKey, TmpKey
  <2>3. gc' = [pc |-> "pick", todo |-> gc.todo, need |-> gc.need]
    BY <2>1, <2>2, CollectorForms
  <2>4. gc' \in Collectors
    BY <2>2, <2>3, CollectorForms DEF Collectors
  <2>5. DataTypeOK'
    BY <1>3, <2>2, <2>4 DEF RemoveRest, DataTypeOK, Active
  <2>6. "pick" \notin gc.todo
    BY <2>2, CollectorForms DEF CloneKey, TmpKey
  <2>7. ListedInv'
    BY <1>3, <2>2, <2>3, <2>6 DEF RemoveRest, ListedInv
  <2> QED
    BY <2>5, <2>7
<1>4. CASE EndGC
  BY <1>4 DEF EndGC, DataTypeOK, ListedInv, Collectors, NoGC
<1>5. CASE KillGC
  <2>1. gc' = NoGC /\ damaged' \in BOOLEAN
    BY <1>5 DEF KillGC
  <2> QED
    BY <1>5, <2>1 DEF KillGC, DataTypeOK, ListedInv, Collectors, NoGC
<1>6. CASE Tick
  BY <1>6 DEF Tick, DataTypeOK, ListedInv, Times, Active
<1> QED
  BY <1>1, <1>2, <1>3, <1>4, <1>5, <1>6

FileStep(p) ==
  \/ \E k \in Keys : AskFor(p, k)
  \/ Get(p) \/ MakeTmpFile(p) \/ LockKey(p) \/ WriteMetadata(p) \/ RenameIntoPlace(p)
CloneStep(p) ==
  \/ \E n \in Names : Clone(p, n)
  \/ LockRemoteRepo(p) \/ RemoteRepoLockTimeout(p) \/ SeeClone(p) \/ WritePart(p)
  \/ RenameClone(p)

LEMMA ProcessesExcludeCollector ==
  ASSUME DataTypeOK, NEW p \in Procs, FileStep(p) \/ CloneStep(p) \/ Kill(p)
  PROVE  gc.pc = "idle" /\ gc' = gc
BY TaskForms DEF FileStep, CloneStep, DataTypeOK, Active, At, FilePcs, ClonePcs, Cloning, Idle,
  AskFor, Get, MakeTmpFile, LockKey, WriteMetadata, RenameIntoPlace, Clone, LockRemoteRepo,
  RemoteRepoLockTimeout, SeeClone, WritePart, RenameClone, Kill

LEMMA FilesKeepLocks ==
  ASSUME BaseInv, NEW p \in Procs, FileStep(p)
  PROVE  WriterInv'
<1> USE ConstantsAssumption, TaskForms, Going, Ending
<1> USE DEF BaseInv, WriterInv, At, FilePcs, files, remote
<1>1. ASSUME NEW k \in Keys, AskFor(p, k) PROVE WriterInv'
  BY <1>1 DEF AskFor, DataTypeOK, KeyOf
<1>2. CASE Get(p)
  <2>1. /\ KeyOf(p) \in Keys /\ keyLock[KeyOf(p)] = NoProc /\ UNCHANGED keyLock
        /\ task'[p].pc \notin {"meta", "rename"} 
        /\ \A q \in Procs : q # p => task'[q] = task[q]
    BY <1>2 DEF Get, GetFile, KeyOf, Idle
  <2>2. meta' \in [Keys -> {NoFile, Torn} \union Times]
        /\ \A k \in Keys : k # KeyOf(p) => meta'[k] = meta[k]
    <3>1. meta' = meta \/ meta' = [meta EXCEPT ![KeyOf(p)] = now]
      BY <1>2 DEF Get, GetFile
    <3> QED
      BY <2>1, <3>1 DEF DataTypeOK
  <2>3. ASSUME NEW q \in Procs, task'[q].pc \in {"meta", "rename"}
        PROVE  q # p /\ task'[q] = task[q] /\ KeyOf(q)' = KeyOf(q) /\ KeyOf(q) \in Keys
                 /\ KeyOf(q) # KeyOf(p)
    BY <2>1, <2>3 DEF KeyOf
  <2> QED
    BY <2>1, <2>2, <2>3
<1>3. CASE MakeTmpFile(p)
  <2>1. task'[p].pc \notin {"meta", "rename"} /\ \A q \in Procs : q # p => task'[q] = task[q]
    BY <1>3 DEF MakeTmpFile, Idle
  <2> QED
    BY <1>3, <2>1 DEF MakeTmpFile, KeyOf
<1>4. CASE LockKey(p)
  <2>1. /\ KeyOf(p) \in Keys /\ keyLock[KeyOf(p)] = NoProc
        /\ task'[p].pc = "meta" /\ KeyOf(p)' = KeyOf(p)
        /\ \A q \in Procs : q # p => task'[q] = task[q]
    BY <1>4 DEF LockKey, KeyOf
  <2> QED
    BY <1>4, <2>1 DEF LockKey, KeyOf, DataTypeOK
<1>5. CASE WriteMetadata(p)
  <2>1. /\ KeyOf(p) \in Keys
        /\ task'[p].pc = "rename" /\ KeyOf(p)' = KeyOf(p)
        /\ \A q \in Procs : q # p => task'[q] = task[q]
    BY <1>5 DEF WriteMetadata, KeyOf
  <2> QED
    BY <1>5, <2>1 DEF WriteMetadata, KeyOf, DataTypeOK
<1>6. CASE RenameIntoPlace(p)
  <2>1. /\ KeyOf(p) \in Keys /\ keyLock[KeyOf(p)] = p
        /\ task'[p] = Idle
        /\ \A q \in Procs : q # p => task'[q] = task[q]
    BY <1>6 DEF RenameIntoPlace, KeyOf
  <2>2. ASSUME NEW q \in Procs, task'[q].pc \in {"meta", "rename"}
        PROVE  q # p /\ task'[q] = task[q] /\ KeyOf(q)' = KeyOf(q) /\ KeyOf(q) \in Keys
                 /\ KeyOf(q) # KeyOf(p)
    BY <2>1, <2>2 DEF KeyOf, Idle
  <2>3. \A k \in Keys : k # KeyOf(p) => keyLock'[k] = keyLock[k]
    BY <1>6, <2>1 DEF RenameIntoPlace, DataTypeOK
  <2> QED
    BY <1>6, <2>2, <2>3 DEF RenameIntoPlace
<1> QED
  BY <1>1, <1>2, <1>3, <1>4, <1>5, <1>6 DEF FileStep

LEMMA ClonesKeepLocks ==
  ASSUME BaseInv, NEW p \in Procs, CloneStep(p)
  PROVE  WriterInv'
<1>1. UNCHANGED <<meta, keyLock>>
  BY DEF CloneStep, Clone, LockRemoteRepo, RemoteRepoLockTimeout, SeeClone, WritePart, RenameClone,
    files
<1>2. task'[p].pc \notin {"meta", "rename"} /\ \A q \in Procs : q # p => task'[q] = task[q]
  <2> USE TaskForms, Going, Ending DEF BaseInv, At, ClonePcs, Cloning, Idle
  <2>1. ASSUME NEW n \in Names, Clone(p, n) 
        PROVE  task'[p].pc \notin {"meta", "rename"} /\ \A q \in Procs : q # p => task'[q] = task[q]
    BY <2>1 DEF Clone, Active, DataTypeOK
  <2>2. CASE LockRemoteRepo(p) \/ RemoteRepoLockTimeout(p) \/ SeeClone(p)
    BY <2>2 DEF LockRemoteRepo, RemoteRepoLockTimeout, SeeClone
  <2>3. CASE WritePart(p) \/ RenameClone(p)
    BY <2>3 DEF WritePart, RenameClone
  <2> QED
    BY <2>1, <2>2, <2>3 DEF CloneStep
<1> QED
  BY <1>1, <1>2 DEF BaseInv, WriterInv, At, KeyOf

LEMMA KillKeepsLocks ==
  ASSUME BaseInv, NEW p \in Procs, Kill(p)
  PROVE  WriterInv'
<1> USE ConstantsAssumption DEF BaseInv
<1>1. task'[p] = Idle /\ \A q \in Procs : q # p => task'[q] = task[q]
  BY Ending DEF Kill
<1> SUFFICES ASSUME NEW q \in Procs, task'[q].pc \in {"meta", "rename"}
             PROVE  keyLock'[KeyOf(q)'] = q /\ (At(q, "rename")' => meta'[KeyOf(q)'] \in Times)
  BY DEF WriterInv, At
<1>2. /\ q # p /\ task'[q] = task[q] /\ KeyOf(q)' = KeyOf(q)
      /\ KeyOf(q) \in Keys /\ keyLock[KeyOf(q)] = q
  BY <1>1, TaskForms DEF KeyOf, Idle, WriterInv, FilePcs
<1>3. keyLock'[KeyOf(q)] = q
  BY <1>2 DEF Kill, DataTypeOK
<1>4. meta'[KeyOf(q)] = meta[KeyOf(q)]
  <2>1. CASE meta' = meta
    BY <2>1
  <2>2. CASE /\ \/ At(p, "meta")
                \/ task[p].pc \in {"get", "recheck"} /\ Present(KeyOf(p))
                     /\ keyLock[KeyOf(p)] = NoProc
             /\ meta' = [meta EXCEPT ![KeyOf(p)] = Torn]
    <3>1. KeyOf(p) # KeyOf(q)
      BY <1>2, <2>2 DEF WriterInv, At
    <3> QED
      BY <1>2, <2>2, <3>1 DEF DataTypeOK
  <2> QED
    BY <2>1, <2>2 DEF Kill
<1> QED
  BY <1>2, <1>3, <1>4 DEF WriterInv, At

\* A process removes no clone, and records its access only in one it has seen.
LEMMA ProcessKeepsSeen ==
  ASSUME BaseInv, NEW p \in Procs, FileStep(p) \/ CloneStep(p) \/ Kill(p)
  PROVE  SeerInv'
<1> USE ConstantsAssumption, TaskForms, Going, Ending DEF BaseInv, At, FilePcs, ClonePcs, Cloning, Idle
<1>1. clone # NoFile => clone' # NoFile
  <2>1. CASE FileStep(p)
    BY <2>1 DEF FileStep, AskFor, Get, MakeTmpFile, LockKey, WriteMetadata, RenameIntoPlace, remote
  <2>2. CASE CloneStep(p)
    BY <2>2, Accessed DEF CloneStep, Clone, LockRemoteRepo, RemoteRepoLockTimeout, SeeClone,
      WritePart, RenameClone, remote, DataTypeOK
  <2>3. CASE Kill(p)
    BY <2>3, Accessed DEF Kill, DataTypeOK
  <2> QED
    BY <2>1, <2>2, <2>3
<1>2. /\ task'[p].pc = "cloneSee" => clone # NoFile
      /\ \A q \in Procs : q # p => task'[q] = task[q]
  <2>1. ASSUME NEW k \in Keys, AskFor(p, k)
        PROVE  task'[p].pc # "cloneSee" /\ \A q \in Procs : q # p => task'[q] = task[q]
    BY <2>1 DEF AskFor, DataTypeOK
  <2>2. CASE Get(p)
    BY <2>2 DEF Get, GetFile
  <2>3. CASE MakeTmpFile(p) \/ LockKey(p) \/ WriteMetadata(p) \/ RenameIntoPlace(p) \/ Kill(p)
    BY <2>3 DEF MakeTmpFile, LockKey, WriteMetadata, RenameIntoPlace, Kill
  <2>4. ASSUME NEW n \in Names, Clone(p, n)
        PROVE  /\ task'[p].pc = "cloneSee" => clone # NoFile
               /\ \A q \in Procs : q # p => task'[q] = task[q]
    BY <2>4 DEF Clone, DataTypeOK
  <2>5. CASE LockRemoteRepo(p) \/ RemoteRepoLockTimeout(p) \/ SeeClone(p)
    BY <2>5 DEF LockRemoteRepo, RemoteRepoLockTimeout, SeeClone
  <2>6. CASE WritePart(p) \/ RenameClone(p)
    BY <2>6 DEF WritePart, RenameClone
  <2> QED
    BY <2>1, <2>2, <2>3, <2>4, <2>5, <2>6 DEF FileStep, CloneStep
<1> QED
  BY <1>1, <1>2 DEF SeerInv

LEMMA StepKeepsBase ==
  ASSUME BaseInv, [DataNext]_dataVars
  PROVE  BaseInv'
<1>1. ASSUME NEW p \in Procs, FileStep(p) \/ CloneStep(p) \/ Kill(p) PROVE BaseInv'
  <2>1. ListedInv'
    BY <1>1, ProcessesExcludeCollector DEF BaseInv, ListedInv
  <2>2. DataTypeOK'
    BY <1>1, FilesKeepTypes, ClonesKeepTypes DEF FileStep, CloneStep
  <2> QED
    BY <1>1, <2>1, <2>2, FilesKeepLocks, ClonesKeepLocks, KillKeepsLocks, ProcessKeepsSeen DEF BaseInv
<1>2. ASSUME \/ ListAndRemoveInvalid
             \/ \E e \in Keys \union {CloneKey, TmpKey} : RemoveEntry(e)
             \/ RemoveRest \/ EndGC \/ KillGC \/ Tick
      PROVE  BaseInv'
  <2>1. DataTypeOK' /\ ListedInv'
    BY <1>2, CollectorKeepsTypes
  <2>2. WriterInv' /\ SeerInv'
    <3>1. CASE gc.pc # "idle" \/ ListAndRemoveInvalid
      <4>1. \A p \in Procs : task'[p] = Idle
        BY <1>2, <3>1 DEF BaseInv, DataTypeOK, Active, ListAndRemoveInvalid, RemoveEntry,
          RemoveRest, EndGC, KillGC, Tick
      <4> QED
        BY <4>1 DEF WriterInv, SeerInv, At, Idle
    <3>2. CASE Tick
      BY <3>2 DEF Tick, files, remote, BaseInv, WriterInv, SeerInv, At, KeyOf
    <3> QED
      BY <1>2, <3>1, <3>2, ConstantsAssumption DEF RemoveEntry, RemoveRest, EndGC, KillGC, CloneKey, TmpKey
  <2> QED
    BY <2>1, <2>2 DEF BaseInv
<1>3. CASE UNCHANGED dataVars
  BY <1>3 DEF dataVars, BaseInv, DataTypeOK, WriterInv, SeerInv, ListedInv, At, KeyOf, Active
<1> QED
  BY <1>1, <1>2, <1>3 DEF DataNext, FileStep, CloneStep

LEMMA InitBase == DataInit => BaseInv
<1> SUFFICES ASSUME DataInit PROVE BaseInv
  OBVIOUS
<1>1. 0 \in Times
  BY ConstantsAssumption DEF Times
<1>2. gc \in Collectors /\ gc.pc = "idle" /\ task \in [Procs -> Tasks]
  BY DEF DataInit, Collectors, NoGC, Tasks
<1>3. DataTypeOK
  BY <1>1, <1>2 DEF DataInit, DataTypeOK
<1>4. WriterInv
  BY DEF DataInit, WriterInv, At, Idle
<1>5. SeerInv
  BY DEF DataInit, SeerInv, At, Idle
<1> QED
  BY <1>2, <1>3, <1>4, <1>5 DEF BaseInv, ListedInv

(* The variables keep their types, and the collector, which holds the lock *)
(* of the git data exclusively, never runs beside a process that is        *)
(* between asking for a file and being answered.                           *)
THEOREM TypeCorrect == DataSpec => []DataTypeOK
<1>1. BaseInv => DataTypeOK
  BY DEF BaseInv
<1> QED
  BY <1>1, InitBase, StepKeepsBase, PTL DEF DataSpec

-----------------------------------------------------------------------------
(* What was handed out stays for three hours.                              *)

CollectStep ==
  \/ ListAndRemoveInvalid
  \/ \E e \in Keys \union {CloneKey, TmpKey} : RemoveEntry(e)
  \/ RemoveRest \/ EndGC \/ KillGC

\* How a step of a process changes a file: it records an access now, hands out
\* a file with the access recorded, or leaves metadata that cannot be read.
LEMMA StepOnFiles ==
  ASSUME BaseInv, NEW p \in Procs, FileStep(p)
  PROVE  /\ UNCHANGED <<now, clone, tmp, clonedAt, gc, damaged, lost>>
         /\ \A k \in Keys : meta'[k] \in {meta[k], now}
         /\ \A k \in Keys : data[k] # NoFile => data'[k] # NoFile
         /\ \A q \in Procs : \A k \in Keys :
              \/ held'[q][k] = held[q][k]
              \/ held'[q][k] = meta'[k] /\ meta'[k] \in Times /\ data'[k] # NoFile
<1> USE ConstantsAssumption DEF BaseInv, files, remote
<1>1. UNCHANGED <<now, clone, tmp, clonedAt, gc, damaged, lost>>
  BY DEF FileStep, AskFor, Get, MakeTmpFile, LockKey, WriteMetadata, RenameIntoPlace
<1>2. CASE UNCHANGED <<files, held>>
  BY <1>1, <1>2
<1>3. CASE Get(p)
  <2>1. KeyOf(p) \in Keys
    BY <1>3, TaskForms DEF Get, At, KeyOf, FilePcs
  <2>2. CASE /\ Present(KeyOf(p))
             /\ meta' = [meta EXCEPT ![KeyOf(p)] = now]
             /\ held' = [held EXCEPT ![p][KeyOf(p)] = now]
    BY <1>1, <1>3, <2>1, <2>2 DEF Get, Present, DataTypeOK
  <2> QED
    BY <1>2, <1>3, <2>2 DEF Get, GetFile
<1>4. CASE WriteMetadata(p)
  <2>1. KeyOf(p) \in Keys
    BY <1>4, TaskForms DEF WriteMetadata, At, KeyOf, FilePcs
  <2> QED
    BY <1>1, <1>4, <2>1 DEF WriteMetadata, DataTypeOK
<1>5. CASE RenameIntoPlace(p)
  <2>1. KeyOf(p) \in Keys /\ meta[KeyOf(p)] \in Times
    BY <1>5, TaskForms DEF RenameIntoPlace, At, KeyOf, FilePcs, WriterInv
  <2> QED
    BY <1>1, <1>5, <2>1 DEF RenameIntoPlace, DataTypeOK
<1> QED
  BY <1>2, <1>3, <1>4, <1>5 DEF FileStep, AskFor, MakeTmpFile, LockKey

\* How a step of a process changes a clone: it records an access now or puts a
\* new clone in its place.
Recorded(at) == IF at = Torn THEN NoFile ELSE at

LEMMA StepOnClone ==
  ASSUME BaseInv, NEW p \in Procs, CloneStep(p)
  PROVE  /\ UNCHANGED <<now, meta, data, held, gc>>
         /\ \A q \in Procs : q # p => clonedAt'[q] = clonedAt[q] /\ (q \in lost' <=> q \in lost)
         /\ \/ UNCHANGED <<clone, clonedAt, lost>>
            \/ /\ clone # NoFile /\ clone' # NoFile
               /\ clone'.at = now /\ clonedAt'[p] = now
            \/ /\ clone = NoFile /\ tmp # NoFile /\ clone' = tmp
               /\ clonedAt'[p] = Recorded(tmp.at)
         /\ tmp' \in {tmp, NoFile} \/ tmp'.at \in {NoFile, now}
<1> USE ConstantsAssumption DEF BaseInv, files
<1>1. UNCHANGED <<now, meta, data, held, gc>>
  BY DEF CloneStep, Clone, LockRemoteRepo, RemoteRepoLockTimeout, SeeClone, WritePart, RenameClone,
    remote
<1>2. ASSUME SeeClone(p)
      PROVE  /\ clone # NoFile /\ clone' # NoFile /\ clone'.at = now /\ clonedAt'[p] = now
             /\ \A q \in Procs : q # p => clonedAt'[q] = clonedAt[q] /\ (q \in lost' <=> q \in lost)
             /\ tmp' = tmp
  <2>1. clone \in Clones /\ clone' \in Clones
    BY <1>2, Accessed DEF SeeClone, SeerInv, DataTypeOK
  <2> QED
    BY <1>2, <2>1 DEF SeeClone, DataTypeOK, Clones
<1>3. ASSUME LockRemoteRepo(p)
      PROVE  UNCHANGED <<clone, clonedAt, lost>> /\ tmp' \in {tmp, NoFile}
  BY <1>3 DEF LockRemoteRepo
<1>4. ASSUME WritePart(p)
      PROVE  UNCHANGED <<clone, clonedAt, lost>> /\ tmp'.at \in {NoFile, now}
  BY <1>4 DEF WritePart
<1>5. ASSUME RenameClone(p)
      PROVE  /\ \A q \in Procs : q # p => clonedAt'[q] = clonedAt[q] /\ (q \in lost' <=> q \in lost)
             /\ \/ UNCHANGED <<clone, clonedAt, lost>>
                \/ clone = NoFile /\ tmp # NoFile /\ clone' = tmp /\ clonedAt'[p] = Recorded(tmp.at)
             /\ tmp' = NoFile
  BY <1>5 DEF RenameClone, Recorded, DataTypeOK
<1>6. ASSUME (\E n \in Names : Clone(p, n)) \/ RemoteRepoLockTimeout(p)
      PROVE  UNCHANGED <<clone, clonedAt, lost, tmp>>
  BY <1>6 DEF Clone, RemoteRepoLockTimeout, remote
<1> QED
  BY <1>1, <1>2, <1>3, <1>4, <1>5, <1>6 DEF CloneStep

\* A killed process holds nothing, and what it was writing cannot be read.
LEMMA KillOnFiles ==
  ASSUME BaseInv, NEW p \in Procs, Kill(p)
  PROVE  /\ UNCHANGED <<now, data, gc, lost>>
         /\ clone' = clone \/ (clone # NoFile /\ clone' # NoFile /\ clone'.at = Torn)
         /\ tmp' = tmp \/ tmp'.at = Torn
         /\ \A k \in Keys : meta'[k] \in {meta[k], Torn}
         /\ \A q \in Procs : \A k \in Keys : held'[q][k] \in {held[q][k], NoFile}
         /\ \A q \in Procs : clonedAt'[q] \in {clonedAt[q], NoFile}
<1>1. UNCHANGED <<now, data, gc, lost>> /\ (tmp' = tmp \/ tmp'.at = Torn)
  BY DEF Kill
<1>2. \A k \in Keys : meta'[k] \in {meta[k], Torn}
  BY DEF Kill, BaseInv, DataTypeOK
<1>3. /\ \A q \in Procs : \A k \in Keys : held'[q][k] \in {held[q][k], NoFile}
      /\ \A q \in Procs : clonedAt'[q] \in {clonedAt[q], NoFile}
  BY DEF Kill, BaseInv, DataTypeOK
<1>4. clone' = clone \/ (clone # NoFile /\ clone' # NoFile /\ clone'.at = Torn)
  <2>1. CASE At(p, "cloneSee") /\ clone' = [clone EXCEPT !.at = Torn]
    <3>1. clone \in Clones
      BY <2>1 DEF BaseInv, DataTypeOK, SeerInv
    <3> QED
      BY <2>1, <3>1, Accessed, ConstantsAssumption DEF Clones
  <2> QED
    BY <2>1 DEF Kill
<1> QED
  BY <1>1, <1>2, <1>3, <1>4

LEMMA ProcessKeepsFiles ==
  ASSUME FilesInv, NEW p \in Procs, FileStep(p) \/ CloneStep(p) \/ Kill(p)
  PROVE  PastInv' /\ HeldInv' /\ SeenInv'
<1> USE ConstantsAssumption DEF FilesInv, Preserved, Doomed
<1>0. /\ BaseInv /\ BaseInv' /\ DataTypeOK /\ DataTypeOK' /\ now' = now /\ now \in Nat
      /\ gc.pc = "idle" /\ gc' = gc
  <2>1. BaseInv'
    BY StepKeepsBase DEF DataNext, FileStep, CloneStep
  <2> QED
    BY <2>1, ProcessesExcludeCollector, StepOnFiles, StepOnClone, KillOnFiles
      DEF BaseInv, DataTypeOK, Times
<1>1. CASE FileStep(p)
  <2>1. PastInv'
    BY <1>0, <1>1, StepOnFiles DEF PastInv, Times
  <2>2. HeldInv'
    <3> SUFFICES ASSUME NEW q \in Procs, NEW k \in Keys, Preserved(held[q][k])'
                 PROVE  data'[k] # NoFile /\ (meta'[k] \in Times => held'[q][k] <= meta'[k])
      BY <1>0 DEF HeldInv
    <3>1. CASE held'[q][k] = held[q][k]
      <4>1. /\ data[k] # NoFile /\ held[q][k] \in Times /\ held[q][k] <= now
            /\ meta[k] \in Times => held[q][k] <= meta[k]
        BY <1>0, <3>1 DEF HeldInv, PastInv, DataTypeOK
      <4> QED
        BY <1>1, <3>1, <4>1, StepOnFiles
    <3>2. CASE held'[q][k] = meta'[k] /\ meta'[k] \in Times /\ data'[k] # NoFile
      BY <3>2 DEF Times
    <3> QED
      BY <1>1, <3>1, <3>2, StepOnFiles
  <2>3. SeenInv'
    BY <1>0, <1>1, StepOnFiles DEF SeenInv
  <2> QED
    BY <2>1, <2>2, <2>3
<1>2. CASE CloneStep(p)
  <2>1. PastInv'
    <3>1. tmp' # NoFile /\ tmp'.at \in Times => tmp'.at <= now
      BY <1>0, <1>2, StepOnClone DEF PastInv, Times
    <3>2. clone' # NoFile /\ clone'.at \in Times => clone'.at <= now
      BY <1>0, <1>2, StepOnClone DEF PastInv
    <3>3. \A q \in Procs : clonedAt'[q] # NoFile => clonedAt'[q] <= now
      <4>1. clonedAt'[p] # NoFile => clonedAt'[p] <= now
        <5>1. tmp # NoFile /\ Recorded(tmp.at) # NoFile => Recorded(tmp.at) <= now
          BY <1>0 DEF PastInv, Recorded, DataTypeOK, Clones
        <5> QED
          BY <1>0, <1>2, <5>1, StepOnClone DEF PastInv
      <4> QED
        BY <1>0, <1>2, <4>1, StepOnClone DEF PastInv
    <3> QED
      BY <1>0, <1>2, <3>1, <3>2, <3>3, StepOnClone DEF PastInv
  <2>2. HeldInv'
    BY <1>0, <1>2, StepOnClone DEF HeldInv
  <2>3. SeenInv'
    <3> SUFFICES ASSUME NEW q \in Procs, Preserved(clonedAt[q])', q \notin lost'
                 PROVE  /\ clone' # NoFile /\ clone'.at # NoFile
                        /\ clone'.at \in Times => clonedAt'[q] <= clone'.at
      BY <1>0 DEF SeenInv
    <3>1. clonedAt'[q] \in Times /\ clonedAt'[q] <= now
      BY <1>0, <2>1 DEF DataTypeOK, PastInv
    <3>2. CASE UNCHANGED <<clone, clonedAt, lost>>
      BY <1>0, <3>2 DEF SeenInv
    <3>3. CASE clone' # NoFile /\ clone'.at = now
      BY <1>0, <3>1, <3>3 DEF DataTypeOK
    <3>4. CASE clone = NoFile /\ clone' = tmp /\ tmp # NoFile /\ clonedAt'[p] = Recorded(tmp.at)
      <4>1. q = p
        BY <1>0, <1>2, <3>4, StepOnClone DEF SeenInv
      <4> QED
        BY <1>0, <3>1, <3>4, <4>1 DEF Recorded, DataTypeOK, Times
    <3> QED
      BY <1>2, <3>2, <3>3, <3>4, StepOnClone
  <2> QED
    BY <2>1, <2>2, <2>3
<1>3. CASE Kill(p)
  <2>1. PastInv'
    BY <1>0, <1>3, KillOnFiles DEF PastInv
  <2>2. HeldInv'
    BY <1>0, <1>3, KillOnFiles DEF HeldInv
  <2>3. SeenInv'
    BY <1>0, <1>3, KillOnFiles DEF SeenInv
  <2> QED
    BY <2>1, <2>2, <2>3
<1> QED
  BY <1>1, <1>2, <1>3

LEMMA ListedMayGo ==
  ASSUME FilesInv
  PROVE  /\ \A k \in Keys : k \in Removable =>
              \A p \in Procs : ~Preserved(held[p][k])
         /\ CloneKey \in Removable => \A p \in Procs \ lost : ~Preserved(clonedAt[p])
<1> USE ConstantsAssumption DEF FilesInv, BaseInv, CloneKey, TmpKey
<1>1. ASSUME NEW k \in Keys, k \in Removable, NEW p \in Procs PROVE ~Preserved(held[p][k])
  <2>1. meta[k] \in Times /\ ~Preserved(meta[k])
    BY <1>1 DEF Removable, Entries, LastAccess
  <2> QED
    BY <2>1 DEF HeldInv, Preserved, DataTypeOK, Times
<1>2. ASSUME CloneKey \in Removable, NEW p \in Procs \ lost PROVE ~Preserved(clonedAt[p])
  <2>1. clone # NoFile /\ ~Preserved(clone.at) /\ clone.at # Torn
    BY <1>2 DEF Removable, Entries, LastAccess, Unreadable
  <2> QED
    BY <2>1 DEF SeenInv, Preserved, DataTypeOK, Times, Clones
<1> QED
  BY <1>1, <1>2

LEMMA CollectorKeepsFiles ==
  ASSUME FilesInv, CollectStep
  PROVE  PastInv' /\ HeldInv' /\ SeenInv'
<1> USE ConstantsAssumption DEF FilesInv, BaseInv, CloneKey, TmpKey
<1>0. UNCHANGED <<now, held, clonedAt>>
  BY DEF CollectStep, ListAndRemoveInvalid, RemoveEntry, RemoveRest, EndGC, KillGC, remote
<1>1. CASE ListAndRemoveInvalid
  <2>1. /\ gc'.pc = IF Unreadable(clone) THEN CloneKey ELSE "pick"
        /\ gc'.todo = Removable /\ UNCHANGED data /\ tmp' \in {tmp, NoFile}
        /\ \A k \in Keys : meta'[k] \in {meta[k], NoFile}
    BY <1>1 DEF ListAndRemoveInvalid
  <2>2. IF Unreadable(clone)
        THEN clone'.at \in {clone.at, NoFile} /\ \A p \in Procs : clonedAt[p] # NoFile => p \in lost'
        ELSE UNCHANGED <<clone, lost>>
    BY <1>1 DEF ListAndRemoveInvalid, BeginCloneRemoval
  <2>3. PastInv'
    BY <1>0, <2>1, <2>2 DEF PastInv, Unreadable
  <2>4. HeldInv'
    BY <1>0, <2>1, ListedMayGo DEF HeldInv, Preserved, Doomed
  <2>5. SeenInv'
    BY <1>0, <2>1, <2>2, ListedMayGo DEF SeenInv, Preserved, Doomed
  <2> QED
    BY <2>3, <2>4, <2>5
<1>2. ASSUME NEW e \in Keys \union {CloneKey, TmpKey}, RemoveEntry(e)
      PROVE  PastInv' /\ HeldInv' /\ SeenInv'
  <2>1. /\ gc.pc = "pick" /\ e \in gc.todo
        /\ gc'.pc = e /\ gc'.todo = gc.todo \ {e} /\ UNCHANGED <<data, lost>>
        /\ \A k \in Keys : meta'[k] = IF k = e THEN NoFile ELSE meta[k]
        /\ tmp' \in {tmp, NoFile}
    BY <1>2 DEF RemoveEntry
  <2>2. IF e = CloneKey THEN clone'.at \in {clone.at, NoFile} /\ clone # NoFile
                        ELSE clone' = clone
    BY <1>2, <2>1 DEF RemoveEntry, BeginCloneRemoval, ListedInv
  <2>3. PastInv'
    BY <1>0, <2>1, <2>2 DEF PastInv
  <2>4. HeldInv'
    BY <1>0, <2>1 DEF HeldInv, Preserved, Doomed
  <2>5. SeenInv'
    BY <1>0, <2>1, <2>2 DEF SeenInv, Preserved, Doomed
  <2> QED
    BY <2>3, <2>4, <2>5
<1>3. CASE RemoveRest
  <2>1. gc.pc # "idle" /\ gc'.pc = "pick" /\ gc'.todo = gc.todo /\ UNCHANGED <<meta, tmp, lost>>
    BY <1>3, CollectorForms DEF RemoveRest
  <2>2. /\ clone' = IF gc.pc = CloneKey THEN NoFile ELSE clone
        /\ \A k \in Keys : data'[k] = IF k = gc.pc THEN NoFile ELSE data[k]
    BY <1>3 DEF RemoveRest
  <2>3. PastInv'
    BY <1>0, <2>1, <2>2 DEF PastInv
  <2>4. HeldInv'
    BY <1>0, <2>1, <2>2 DEF HeldInv, Preserved, Doomed
  <2>5. SeenInv'
    BY <1>0, <2>1, <2>2 DEF SeenInv, Preserved, Doomed
  <2> QED
    BY <2>3, <2>4, <2>5
<1>4. CASE EndGC \/ KillGC
  <2>1. gc'.pc = "idle" /\ UNCHANGED <<meta, data, clone, tmp, lost>>
    BY <1>4 DEF EndGC, KillGC, NoGC, files, remote
  <2> QED
    BY <1>0, <2>1 DEF PastInv, HeldInv, SeenInv, Preserved, Doomed
<1> QED
  BY <1>1, <1>2, <1>3, <1>4 DEF CollectStep

(* A path handed out leads to a file for three hours, and a clone is there *)
(* for three hours from the access recorded in it, whatever the processes  *)
(* and the collector do and whoever of them is killed, unless the record   *)
(* of a later access to the clone was cut off.                             *)
THEOREM HandedOutStays == DataSpec => []FilesAtHand
<1>1. DataInit => FilesInv
  <2>1. DataInit => PastInv /\ HeldInv /\ SeenInv
    BY ConstantsAssumption DEF DataInit, PastInv, HeldInv, SeenInv, Preserved
  <2> QED
    BY <2>1, InitBase DEF FilesInv
<1>2. FilesInv /\ [DataNext]_dataVars => FilesInv'
  <2> SUFFICES ASSUME FilesInv, [DataNext]_dataVars PROVE PastInv' /\ HeldInv' /\ SeenInv'
    BY StepKeepsBase DEF FilesInv
  <2>1. CASE Tick
    <3>1. /\ now \in Nat /\ now' = now + 1 /\ KeepFor \in Nat
          /\ UNCHANGED <<meta, data, clone, tmp, held, clonedAt, gc, lost>>
      BY <2>1, ConstantsAssumption DEF Tick, files, remote, FilesInv, BaseInv, DataTypeOK, Times
    <3>2. PastInv'
      BY <3>1, ConstantsAssumption DEF FilesInv, BaseInv, DataTypeOK, PastInv, Times, Clones
    <3>3. \A p \in Procs : Preserved(clonedAt[p])' => Preserved(clonedAt[p])
      BY <3>1, ConstantsAssumption DEF FilesInv, BaseInv, DataTypeOK, Preserved, Times
    <3>4. \A p \in Procs : \A k \in Keys : Preserved(held[p][k])' => Preserved(held[p][k])
      BY <3>1, ConstantsAssumption DEF FilesInv, BaseInv, DataTypeOK, Preserved, Times
    <3>5. HeldInv' /\ SeenInv'
      BY <3>1, <3>3, <3>4 DEF FilesInv, HeldInv, SeenInv, Doomed
    <3> QED
      BY <3>2, <3>5
  <2>2. CASE UNCHANGED dataVars
    BY <2>2 DEF dataVars, FilesInv, PastInv, HeldInv, SeenInv, Preserved, Doomed
  <2> QED
    BY <2>1, <2>2, ProcessKeepsFiles, CollectorKeepsFiles DEF DataNext, FileStep, CloneStep, CollectStep
<1>3. FilesInv => FilesAtHand
  BY DEF FilesInv, FilesAtHand, HeldInv, SeenInv, Preserved
<1> QED
  BY <1>1, <1>2, <1>3, PTL DEF DataSpec

-----------------------------------------------------------------------------
(* A clone in its place is whole.                                          *)

LEMMA ProcessKeepsWhole ==
  ASSUME WholeInv, NEW p \in Procs, FileStep(p) \/ CloneStep(p) \/ Kill(p)
  PROVE  (~damaged' => OneCloner') /\ ClonesWhole'
<1> USE ConstantsAssumption, TaskForms, Going, Ending DEF WholeInv, BaseInv, At
<1>0. gc.pc = "idle" /\ gc' = gc
  BY ProcessesExcludeCollector
<1>1. CASE FileStep(p) \/ RemoteRepoLockTimeout(p) \/ SeeClone(p) \/ Kill(p)
             \/ \E n \in Names : Clone(p, n)
  <2>1. /\ damaged' = damaged
        /\ clone' = clone \/ (clone # NoFile /\ clone'.parts = clone.parts)
    <3>1. CASE SeeClone(p) \/ (At(p, "cloneSee") /\ Kill(p))
      <4>1. clone \in Clones
        BY <3>1 DEF SeeClone, SeerInv, DataTypeOK
      <4> QED
        BY <3>1, <4>1 DEF SeeClone, Kill, Clones
    <3>2. CASE FileStep(p) \/ RemoteRepoLockTimeout(p) \/ \E n \in Names : Clone(p, n)
      BY <3>2, StepOnFiles DEF RemoteRepoLockTimeout, Clone, remote
    <3>3. CASE Kill(p) /\ ~At(p, "cloneSee")
      BY <3>3 DEF Kill
    <3> QED
      BY <1>1, <3>1, <3>2, <3>3
  <2>2. \A q \in Procs : task'[q] = task[q] \/ task'[q].pc \notin Cloning
    <3>1. ASSUME NEW k \in Keys, AskFor(p, k) PROVE task'[p].pc \notin Cloning
      BY <3>1 DEF AskFor, Cloning, DataTypeOK
    <3>2. ASSUME NEW n \in Names, Clone(p, n) PROVE task'[p].pc \notin Cloning
      BY <3>2 DEF Clone, Cloning, DataTypeOK
    <3>3. task'[p].pc \notin Cloning
      BY <1>1, <3>1, <3>2 DEF FileStep, Get, GetFile, MakeTmpFile, LockKey, WriteMetadata,
        RenameIntoPlace, RemoteRepoLockTimeout, SeeClone, Kill, Cloning, Idle, FilePcs
    <3>4. \A q \in Procs : q # p => task'[q] = task[q]
      BY <1>1 DEF FileStep, AskFor, Get, GetFile, MakeTmpFile, LockKey, WriteMetadata,
        RenameIntoPlace, RemoteRepoLockTimeout, SeeClone, Kill, Clone, FilePcs, DataTypeOK
    <3> QED
      BY <3>3, <3>4
  <2>3. tmp' = tmp \/ (Kill(p) /\ At(p, "clonePart"))
    BY <1>1, StepOnFiles DEF RemoteRepoLockTimeout, SeeClone, Clone, Kill, remote
  <2>4. ~damaged' => OneCloner'
    <3>1. CASE tmp' = tmp
      BY <2>1, <2>2, <3>1 DEF OneCloner, Cloning
    <3>2. CASE Kill(p) /\ At(p, "clonePart")
      <4>1. task'[p].pc \notin Cloning /\ \A q \in Procs : q # p => task'[q] = task[q]
        BY <3>2 DEF Kill, Cloning, Idle
      <4> QED
        BY <2>1, <3>2, <4>1 DEF OneCloner, Cloning
    <3> QED
      BY <2>3, <3>1, <3>2
  <2> QED
    BY <1>0, <2>1, <2>4 DEF ClonesWhole
<1>2. CASE LockRemoteRepo(p)
  <2>1. ClonesWhole'
    BY <1>0, <1>2 DEF ClonesWhole, LockRemoteRepo
  <2>2. ~damaged' => OneCloner'
    <3>1. CASE clone # NoFile
      <4>1. UNCHANGED <<tmp, damaged>>
        BY <1>2, <3>1 DEF LockRemoteRepo
      <4>2. task'[p].pc = "cloneSee" /\ \A q \in Procs : q # p => task'[q] = task[q]
        BY <1>2, <3>1 DEF LockRemoteRepo, ClonePcs, Cloning
      <4> QED
        BY <4>1, <4>2 DEF OneCloner, Cloning
    <3>2. CASE clone = NoFile
      <4>1. /\ task'[p].pc = "cloneBegin" /\ \A q \in Procs : q # p => task'[q] = task[q]
            /\ ~damaged' => \A q \in Procs : task[q].pc \notin Cloning
        BY <1>2, <3>2 DEF LockRemoteRepo, ClonePcs, Cloning
      <4> QED
        BY <4>1 DEF OneCloner, Cloning
    <3> QED
      BY <3>1, <3>2
  <2> QED
    BY <2>1, <2>2
<1>3. CASE WritePart(p)
  <2>1. UNCHANGED <<clone, damaged>> /\ task[p].pc \in {"cloneBegin", "clonePart"}
    BY <1>3 DEF WritePart
  <2>2. /\ task'[p].pc = IF At(p, "cloneBegin") THEN "clonePart" ELSE "cloneRename"
        /\ \A q \in Procs : q # p => task'[q] = task[q]
    BY <1>3 DEF WritePart, ClonePcs, Cloning
  <2>3. ASSUME ~damaged PROVE OneCloner'
    <3>1. \A q \in Procs : q # p => task'[q].pc \notin Cloning
      BY <2>1, <2>2, <2>3 DEF OneCloner, Cloning
    <3>2. CASE At(p, "cloneBegin")
      <4>1. tmp' \in Clones /\ 1 \in tmp'.parts
        BY <1>3, <3>2 DEF WritePart, DataTypeOK, Clones, Parts
      <4> QED
        BY <2>2, <3>1, <3>2, <4>1 DEF OneCloner, Cloning, Clones
    <3>3. CASE At(p, "clonePart")
      <4>1. tmp \in Clones /\ 1 \in tmp.parts
        BY <2>3, <3>3 DEF OneCloner, DataTypeOK
      <4>2. tmp' = [parts |-> tmp.parts \union {2}, at |-> now]
        BY <1>3, <3>3, <4>1 DEF WritePart
      <4>3. tmp' \in Clones /\ tmp'.parts = Parts
        BY <4>1, <4>2 DEF DataTypeOK, Clones, Parts
      <4> QED
        BY <2>2, <3>1, <3>3, <4>3 DEF OneCloner, Cloning, Clones
    <3> QED
      BY <2>1, <3>2, <3>3
  <2> QED
    BY <1>0, <2>1, <2>3 DEF ClonesWhole
<1>4. CASE RenameClone(p)
  <2>1. /\ task[p].pc \in {"clonePart", "cloneRename"} /\ UNCHANGED damaged
        /\ clone' = clone \/ (At(p, "cloneRename") /\ tmp # NoFile /\ clone' = tmp)
        /\ task'[p] = Idle /\ \A q \in Procs : q # p => task'[q] = task[q]
    <3>1. End(p) /\ task[p].pc \in {"clonePart", "cloneRename"} /\ UNCHANGED damaged
      BY <1>4 DEF RenameClone
    <3>2. clone' = clone \/ (At(p, "cloneRename") /\ tmp # NoFile /\ clone' = tmp)
      BY <1>4 DEF RenameClone
    <3> QED
      BY <3>1, <3>2
  <2>2. ~damaged' => OneCloner'
    BY <2>1 DEF OneCloner, Cloning, Idle
  <2>3. ClonesWhole'
    BY <1>0, <2>1 DEF OneCloner, ClonesWhole
  <2> QED
    BY <2>2, <2>3
<1> QED
  BY <1>1, <1>2, <1>3, <1>4 DEF CloneStep

LEMMA CollectorKeepsWhole ==
  ASSUME WholeInv, CollectStep
  PROVE  (~damaged' => OneCloner') /\ ClonesWhole'
<1> USE ConstantsAssumption DEF WholeInv, BaseInv, CloneKey, TmpKey
<1>1. \A p \in Procs : task'[p] = Idle
  BY DEF CollectStep, ListAndRemoveInvalid, RemoveEntry, RemoveRest, EndGC, KillGC, DataTypeOK, Active
<1>2. OneCloner'
  BY <1>1 DEF OneCloner, At, Cloning, Idle
<1>3. ClonesWhole'
  <2>1. CASE ListAndRemoveInvalid
    BY <2>1 DEF ListAndRemoveInvalid, ClonesWhole
  <2>2. ASSUME NEW e \in Keys \union {CloneKey, TmpKey}, RemoveEntry(e) PROVE ClonesWhole'
    <3>1. gc.pc = "pick" /\ gc'.pc = e /\ damaged' = damaged /\ (e # CloneKey => clone' = clone)
      BY <2>2 DEF RemoveEntry
    <3> QED
      BY <3>1 DEF ClonesWhole
  <2>3. CASE RemoveRest
    <3>1. damaged' = damaged /\ clone' = IF gc.pc = CloneKey THEN NoFile ELSE clone
      BY <2>3 DEF RemoveRest
    <3> QED
      BY <3>1 DEF ClonesWhole
  <2>4. CASE EndGC
    BY <2>4 DEF EndGC, remote, ClonesWhole
  <2>5. CASE KillGC
    BY <2>5 DEF KillGC, ClonesWhole
  <2> QED
    BY <2>1, <2>2, <2>3, <2>4, <2>5 DEF CollectStep
<1> QED
  BY <1>2, <1>3

(* The clone in its place is whole, whoever was killed while cloning,      *)
(* unless it was cloned under two names at a time or the collector was     *)
(* killed while it removed it.                                             *)
THEOREM CloneIsWhole == DataSpec => []ClonesWhole
<1>1. DataInit => WholeInv
  <2>1. DataInit => OneCloner /\ ClonesWhole
    BY DEF DataInit, OneCloner, ClonesWhole, At, Cloning, Idle
  <2> QED
    BY <2>1, InitBase DEF WholeInv
<1>2. WholeInv /\ [DataNext]_dataVars => WholeInv'
  <2> SUFFICES ASSUME WholeInv, [DataNext]_dataVars PROVE (~damaged' => OneCloner') /\ ClonesWhole'
    BY StepKeepsBase DEF WholeInv
  <2>1. CASE Tick
    BY <2>1 DEF Tick, remote, WholeInv, OneCloner, ClonesWhole, At
  <2>2. CASE UNCHANGED dataVars
    BY <2>2 DEF dataVars, WholeInv, OneCloner, ClonesWhole, At
  <2> QED
    BY <2>1, <2>2, ProcessKeepsWhole, CollectorKeepsWhole DEF DataNext, FileStep, CloneStep, CollectStep
<1>3. WholeInv => ClonesWhole
  BY DEF WholeInv
<1> QED
  BY <1>1, <1>2, <1>3, PTL DEF DataSpec
=============================================================================
