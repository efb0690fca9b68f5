------------------------------ MODULE Cleanup -------------------------------
(***************************************************************************)
(* "werf cleanup" of a container registry beside a build.  The cleanup     *)
(* lists the repository once, protects stages by its policies (used in     *)
(* Kubernetes, reached in git history, built within the last hours, keep   *)
(* list), protects the relatives of what is protected, and deletes the     *)
(* rest with the records that only served it.  The build publishes a stage *)
(* or uses one that it found, copies it into the final repo, links it to   *)
(* its commit and gives it a custom tag.  Neither waits for the other.     *)
(*                                                                         *)
(* A cleanup may stop anywhere and be run again.  Which stages the scan of *)
(* git history reaches is the matter of GitHistory and is left open here.  *)
(***************************************************************************)
EXTENDS Naturals

CONSTANTS
    Stages,          \* stage IDs
    New,             \* the one that is not yet built
    None,            \* no stage, no reason
    CustomTags,
    Images,          \* names of images
    ManagedImages,   \* those of the werf.yaml of the cleanup
    Commits,         \* commits of the git history; "head" is built
    Parent,          \* Parent[s]: the stage s was built on, or None
    Imports,         \* Imports[s]: checksums of what s has imported
    Dependencies,    \* Dependencies[s]: stages named by dependency labels of s
    Platforms,       \* Platforms[s]: stages of the platforms of an image index
    ImportMetadata,  \* from an ID to [source, checksum]; a source may be external
    Worlds           \* what a run may start from, see Init

\* Names of images: in the repo, in the final repo, or a custom tag of the repo.
InRepo(s) == <<"repo", s>>
InFinal(s) == <<"final", s>>
ByTag(t) == <<"tag", t>>

Policies == {"kubernetes", "git", "hours", "keep list"}
Links == Stages \X Images \X Commits      \* image metadata
Reasons == Policies \cup {"import source", "dependency source", "ancestor", "platform"}

\* An image index has no labels and so no relatives but its platforms; the new
\* stage is nowhere yet.
ASSUME CleanupAssumption ==
    /\ New \in Stages /\ None \notin Stages \cup CustomTags \cup Reasons
    /\ "head" \in Commits /\ ManagedImages \subseteq Images
    /\ Parent \in [Stages -> Stages \cup {None}]
    /\ \A s \in Stages : Platforms[s] # {} =>
          Parent[s] = None /\ Imports[s] = {} /\ Dependencies[s] = {}
    /\ Worlds \subseteq
          [options : [final : BOOLEAN, byManifest : BOOLEAN, kube : BOOLEAN, git : BOOLEAN,
                      build : BOOLEAN, image : Images, rounds : Nat \ {0}],
           recent : SUBSET Stages, keepList : SUBSET Stages,
           cluster : SUBSET ({InRepo(s) : s \in Stages} \cup {InFinal(s) : s \in Stages}
                               \cup {ByTag(t) : t \in CustomTags}),
           repo : SUBSET (Stages \ {New}), final : SUBSET Stages,
           points : [CustomTags -> Stages \cup {None}],
           tagRecord : [CustomTags -> (Stages \ {New}) \cup {None}],
           linked : SUBSET {l \in Links : l[1] # New}]

VARIABLES
    options, recent, keepList,
    cluster,         \* names of images used in Kubernetes
    repo, final,     \* stages in the repo and in the final repo
    points,          \* points[t]: the stage whose manifest custom tag t names
    tagRecord,       \* tagRecord[t]: the stage that t is registered for
    linked,          \* image metadata: <<stage, image, commit>>
    imports,         \* IDs of import metadata
    c,               \* the cleanup
    b,               \* the build
    drifted          \* a registered custom tag has named another stage

world == <<options, recent, keepList>>
tags == <<points, tagRecord>>
registry == <<repo, final, tags, linked, imports>>
vars == <<world, cluster, registry, c, b, drifted>>

\* A new cleanup manager.
NewCleanupManager(round) ==
    [phase |-> "list", round |-> round,
     seen |-> {}, linked |-> {}, tags |-> {}, imports |-> {},   \* what was listed
     stages |-> {}, finalStages |-> {},            \* the managed sets
     reason |-> [s \in Stages |-> None],           \* why a stage is protected
     finalProtected |-> {},
     scanned |-> {}, unlink |-> {},                \* images done, metadata to be deleted
     tagList |-> [t \in CustomTags |-> None],      \* custom tag metadata
     handled |-> {}, groups |-> {},                \* of the walk over relatives
     todo |-> {}, unregister |-> {},               \* what is to be deleted
     spared |-> FALSE,                             \* some deletion has failed
     used |-> {}]                                  \* used when the cleanup looked

Drift(p, r) == \E t \in CustomTags : p[t] # None /\ r[t] # None /\ p[t] # r[t]

Init ==
    /\ \E w \in Worlds :
          /\ options = w.options      \* [final, byManifest, kube, git, build, image, rounds]
          /\ recent = w.recent        \* stages built within the last N hours
          /\ keepList = w.keepList
          /\ cluster = w.cluster
          /\ repo = w.repo
          /\ final = IF w.options.final THEN w.final ELSE {}
          /\ points = w.points
          /\ tagRecord = w.tagRecord
          /\ linked = w.linked
    /\ imports = DOMAIN ImportMetadata
    /\ c = NewCleanupManager(1)
    /\ b = [at |-> "idle", target |-> None, tag |-> None, known |-> {}]
    /\ drifted = Drift(points, tagRecord)

-----------------------------------------------------------------------------
(* Fetching manifests and metadata.                                        *)

\* All lists of the cleanup are made from one cached list of tags, so stages,
\* image metadata and IDs of other metadata are those of one moment.
InitStageDescSet ==
    /\ c.phase = "list"
    /\ c' = [c EXCEPT !.phase = "final list", !.stages = repo, !.seen = repo, !.linked = linked,
                      !.tags = {t \in CustomTags : tagRecord[t] # None}, !.imports = imports]
    /\ UNCHANGED <<world, cluster, registry, b, drifted>>

InitFinalStageDescSet ==
    /\ c.phase = "final list"
    /\ c' = [c EXCEPT !.phase = "custom tags", !.finalStages = final]
    /\ UNCHANGED <<world, cluster, registry, b, drifted>>

\* The contents of the metadata are read after the list.
InitCustomTagsMetadata ==
    /\ c.phase = "custom tags"
    /\ c' = [c EXCEPT !.phase = "kubernetes",
                      !.tagList = [t \in CustomTags |-> IF t \in c.tags THEN tagRecord[t] ELSE None]]
    /\ UNCHANGED <<world, cluster, registry, b, drifted>>

-----------------------------------------------------------------------------
(* Policies.                                                               *)

\* A protected stage keeps its reason unless the reason is forced.
MarkStageDescAsProtected(reason, S, why, force) ==
    [s \in Stages |-> IF s \in S /\ (force \/ reason[s] = None) THEN why ELSE reason[s]]

Protected == {s \in Stages : c.reason[s] # None}

\* Stages whose custom tags are used.
UsedByTag == {c.tagList[t] : t \in {u \in CustomTags : ByTag(u) \in cluster}} \ {None}

\* Mutant: custom tags do not count.
UsedUnderStageName == {s \in c.stages : InRepo(s) \in cluster}

\* The managed stages that are used, by name or by a registered custom tag.
UsedInKubernetes ==
    {s \in c.stages : InRepo(s) \in cluster} \cup (UsedByTag \cap c.stages)

\* The custom tags of a stage that is no more are forgotten if one is used.
KubernetesBasedPolicy ==
    /\ c.phase = "kubernetes"
    /\ c' = IF ~options.kube THEN [c EXCEPT !.phase = "git"]
            ELSE [c EXCEPT !.phase = "git",
                    !.used = {s \in c.stages : InRepo(s) \in cluster
                                \/ \E t \in CustomTags : ByTag(t) \in cluster /\ c.tagList[t] = s},
                    !.reason = MarkStageDescAsProtected(@, UsedInKubernetes, "kubernetes", FALSE),
                    !.tagList = [t \in CustomTags |->
                        IF @[t] \in UsedByTag \ c.stages THEN None ELSE @[t]],
                    !.finalProtected = {s \in c.finalStages : InFinal(s) \in cluster}]
    /\ UNCHANGED <<world, cluster, registry, b, drifted>>

\* Mutant: image metadata is listed afresh.
ImageMetadataNow == linked

\* The image metadata that the cleanup works on.
ImageMetadata == c.linked

\* A deletion that fails is reported and passed over, or ends the cleanup.
Spare(rest) ==
    /\ c' \in {[rest EXCEPT !.spared = TRUE], [c EXCEPT !.phase = "failed"]}
    /\ UNCHANGED registry

\* Images in werf.yaml are scanned if a stage that is linked to them was listed.
ToScan ==
    {i \in ManagedImages \ c.scanned : \E l \in ImageMetadata : l[2] = i /\ l[1] \in c.stages}

\* Saved stages get the reason "git" even if they are protected already.  Of the
\* metadata of the image only the hits stay: the rest links stages that were not
\* reached, that are no more, or commits that others were chosen over.
ScanReferencesHistory(i) ==
    /\ c.phase = "git" /\ options.git
    /\ i \in ToScan
    /\ LET links == {l \in ImageMetadata : l[2] = i} IN
       \/ \E hits \in SUBSET {l \in links : l[1] \in c.stages} :
             c' = [c EXCEPT !.scanned = @ \cup {i}, !.unlink = @ \cup (links \ hits),
                     !.reason = MarkStageDescAsProtected(@, {l[1] : l \in hits}, "git", TRUE)]
       \/ c' = [c EXCEPT !.phase = "failed"]       \* an error of git
    /\ UNCHANGED <<world, cluster, registry, b, drifted>>

\* Images are scanned, and records deleted, side by side.
RmImageMetadata(l) ==
    /\ c.phase \in {"git", "other policies"}
    /\ l \in c.unlink
    /\ LET rest == [c EXCEPT !.unlink = @ \ {l}] IN
       \/ /\ linked' = linked \ {l}
          /\ c' = rest
          /\ UNCHANGED <<repo, final, tags, imports>>
       \/ Spare(rest)
    /\ UNCHANGED <<world, cluster, b, drifted>>

\* At last the metadata of images that are not in werf.yaml (any more) goes;
\* without the policy all metadata goes.
CleanupNonexistentImageMetadata ==
    /\ c.phase = "git"
    /\ c.unlink = {}
    /\ options.git => ToScan = {}
    /\ c' = [c EXCEPT !.phase = "other policies",
                !.unlink = {l \in ImageMetadata : options.git => l[2] \notin ManagedImages}]
    /\ UNCHANGED <<world, cluster, registry, b, drifted>>

\* The policies that ask nobody, then the imports metadata is read.  Protected
\* stages are grouped by reason once, before the walk over relatives.
OtherPolicies ==
    /\ c.phase = "other policies"
    /\ c.unlink = {}
    /\ LET built == MarkStageDescAsProtected(c.reason, c.stages \cap recent, "hours", FALSE)
           all == MarkStageDescAsProtected(built, c.stages \cap keepList, "keep list", FALSE)
       IN  c' = [c EXCEPT !.phase = "walk", !.imports = @ \cap imports, !.reason = all,
                   !.groups = {<<p, {s \in Stages : all[s] = p}>> :
                                  p \in {q \in Policies : \E s \in Stages : all[s] = q}}]
    /\ UNCHANGED <<world, cluster, registry, b, drifted>>

-----------------------------------------------------------------------------
(* Relatives of protected stages.                                          *)

ImportSources(s) ==
    {ImportMetadata[i].source : i \in {j \in c.imports : ImportMetadata[j].checksum \in Imports[s]}}
        \cap c.stages
DependencySources(s) == Dependencies[s] \cap c.stages
Ancestor(s) == {Parent[s]} \cap c.stages

\* What a walk goes on to from s.
Relatives(s, withSources) ==
    Ancestor(s) \cup IF withSources THEN ImportSources(s) \cup DependencySources(s) ELSE {}

\* All stages that a walk from S handles; those handled before end the walk.
Handled(S, withSources) ==
    LET Closed(T) == /\ S \ c.handled \subseteq T
                     /\ \A s \in T : Relatives(s, withSources) \ c.handled \subseteq T
    IN  {s \in Stages : \A T \in SUBSET Stages : Closed(T) => s \in T}

\* Where a walk starts: an image index stands for the stages of its platforms.
Targets(S) == UNION {IF Platforms[s] = {} THEN {s} ELSE Platforms[s] \cap c.stages : s \in S}

\* Mutant: only direct relatives of the saved stages are protected.
ProtectNearRelatives(p, S) ==
    LET withSources == p # "git" IN
    [c EXCEPT !.groups = @ \ {<<p, S>>},
       !.handled = @ \cup Targets(S),
       !.reason = MarkStageDescAsProtected(@,
           Targets(S) \cup UNION {Relatives(s, withSources) : s \in Targets(S)}, "ancestor", FALSE)]

\* The roots of one reason: import and dependency sources are followed unless
\* the reason is git history.  A relative gets the reason it was met for.
ProtectRelativeStages(p, S) ==
    LET withSources == p # "git"
        walked == Handled(Targets(S), withSources)
        platforms == MarkStageDescAsProtected(c.reason, Targets(S), "platform", FALSE)
        sources == IF withSources THEN
                MarkStageDescAsProtected(
                    MarkStageDescAsProtected(platforms,
                        UNION {ImportSources(s) : s \in walked}, "import source", FALSE),
                    UNION {DependencySources(s) : s \in walked}, "dependency source", FALSE)
            ELSE platforms
    IN  [c EXCEPT !.groups = @ \ {<<p, S>>},
           !.handled = @ \cup walked,
           !.reason = MarkStageDescAsProtected(sources,
                          UNION {Ancestor(s) : s \in walked}, "ancestor", FALSE)]

\* Reasons come in any order (a Go map).
Walk ==
    /\ c.phase = "walk"
    /\ \E g \in c.groups : c' = ProtectRelativeStages(g[1], g[2])
    /\ UNCHANGED <<world, cluster, registry, b, drifted>>

-----------------------------------------------------------------------------
(* Deleting.                                                               *)

\* Deleting the manifest of a stage takes all tags that name it along.
WithoutManifest(s) ==
    [t \in CustomTags |-> IF options.byManifest /\ points[t] = s THEN None ELSE points[t]]

StartDeleting ==
    /\ c.phase = "walk"
    /\ c.groups = {}
    /\ c' = [c EXCEPT !.phase = "stages", !.todo = c.stages \ Protected]
    /\ UNCHANGED <<world, cluster, registry, b, drifted>>

DeleteStage(s) ==
    /\ c.phase = "stages"
    /\ s \in c.todo
    /\ LET rest == [c EXCEPT !.todo = @ \ {s}] IN
       \/ /\ repo' = repo \ {s}
          /\ points' = IF options.final THEN points ELSE WithoutManifest(s)
          /\ c' = rest
          /\ UNCHANGED <<final, tagRecord, linked, imports>>
       \/ Spare(rest)
    /\ UNCHANGED <<world, cluster, b, drifted>>

\* Mutant: stages that could not be deleted are not forgotten.
ForgetNothing ==
    /\ c.phase = "stages"
    /\ c.todo = {}
    /\ c' = [c EXCEPT !.phase = "unused tags",
               !.todo = {t \in CustomTags : c.tagList[t] # None /\ c.tagList[t] \notin c.stages}]
    /\ UNCHANGED <<world, cluster, registry, b, drifted>>

\* Unprotected stages are forgotten, deleted or not.  Custom tags whose stage is
\* not managed (any more) are to go.
ForgetDeletedStages ==
    /\ c.phase = "stages"
    /\ c.todo = {}
    /\ LET kept == c.stages \cap Protected IN
       c' = [c EXCEPT !.phase = "unused tags", !.stages = kept,
               !.todo = {t \in CustomTags : c.tagList[t] # None /\ c.tagList[t] \notin kept}]
    /\ UNCHANGED <<world, cluster, registry, b, drifted>>

\* The custom tag goes, then its record.  The tag is looked for in the repo: with
\* a final repo it is not there.  A manifest is deleted whatever it is by now.
DeleteStageCustomTag(t) ==
    /\ c.phase = "unused tags"
    /\ t \in c.todo
    /\ LET rest == [c EXCEPT !.todo = @ \ {t}, !.unregister = @ \cup {t}] IN
       \/ /\ options.final \/ points[t] = None
          /\ c' = rest
          /\ UNCHANGED registry
       \/ /\ ~options.final /\ points[t] # None
          /\ points' = [WithoutManifest(points[t]) EXCEPT ![t] = None]
          /\ repo' = IF options.byManifest THEN repo \ {points[t]} ELSE repo
          /\ c' = rest
          /\ UNCHANGED <<final, tagRecord, linked, imports>>
       \/ Spare([c EXCEPT !.todo = @ \ {t}])
    /\ UNCHANGED <<world, cluster, b, drifted>>

UnregisterStageCustomTag(t) ==
    /\ c.phase = "unused tags"
    /\ t \in c.unregister
    /\ LET rest == [c EXCEPT !.unregister = @ \ {t}] IN
       \/ /\ tagRecord' = [tagRecord EXCEPT ![t] = None]
          /\ c' = rest
          /\ UNCHANGED <<repo, final, points, linked, imports>>
       \/ Spare(rest)
    /\ UNCHANGED <<world, cluster, b, drifted>>

\* Import metadata goes with its source.
DeleteUnusedImportsMetadata ==
    /\ c.phase = "unused tags"
    /\ c.todo = {} /\ c.unregister = {}
    /\ LET unused == {i \in c.imports : ImportMetadata[i].source \notin Protected}
           rest == [c EXCEPT !.phase = "final stages"]
       IN  \/ /\ imports' = imports \ unused
              /\ c' = rest
              /\ UNCHANGED <<repo, final, tags, linked>>
           \/ unused # {} /\ Spare(rest)
    /\ UNCHANGED <<world, cluster, b, drifted>>

\* Stages of the final repo that are not used go if the cleanup has kept them in
\* the repo; what the repo does not hold is protected ("not found in repo").
CleanupFinalStages ==
    /\ c.phase = "final stages"
    /\ LET unused == {s \in c.finalStages \ c.finalProtected : s \in c.stages}
           rest == [c EXCEPT !.phase = "done"]
       IN  \/ /\ final' = final \ unused
              /\ points' = [t \in CustomTags |->
                    IF options.final /\ options.byManifest /\ points[t] \in unused THEN None ELSE points[t]]
              /\ c' = rest
              /\ UNCHANGED <<repo, tagRecord, linked, imports>>
           \/ unused # {} /\ Spare(rest)
    /\ UNCHANGED <<world, cluster, b, drifted>>

\* The cleanup is run again after it has ended, failed or been killed.
RunAgain ==
    /\ c.round < options.rounds
    /\ c.phase # "list"
    /\ c' = NewCleanupManager(c.round + 1)
    /\ UNCHANGED <<world, cluster, registry, b, drifted>>

-----------------------------------------------------------------------------
(* The build.                                                              *)

\* A stage is built and published, or one is found in the repo.
Build(s) ==
    /\ b.at = "idle" /\ options.build
    /\ s = New \/ s \in repo
    /\ repo' = repo \cup {s}
    /\ b' = [at |-> "built", target |-> s, tag |-> None, known |-> linked]
    /\ UNCHANGED <<world, cluster, final, tags, linked, imports, c, drifted>>

\* The copy needs the original, unless it is there already.
PublishFinalImage ==
    /\ b.at = "built"
    /\ final' = IF options.final /\ b.target \in repo THEN final \cup {b.target} ELSE final
    /\ b' = [b EXCEPT !.at = IF options.final => b.target \in final' THEN "copied" ELSE "failed"]
    /\ UNCHANGED <<world, cluster, repo, tags, linked, imports, c, drifted>>

\* The stage is linked to the commit as one of the image that is built.  Whether
\* the record exists is told by a list of tags made before.
PublishImageGitMetadata ==
    /\ b.at = "copied"
    /\ LET link == <<b.target, options.image, "head">>
       IN  linked' = IF link \in b.known THEN linked ELSE linked \cup {link}
    /\ b' = [b EXCEPT !.at = "linked"]
    /\ UNCHANGED <<world, cluster, repo, final, tags, imports, c, drifted>>

\* A tag is put on the stage, in the final repo if there is one, and then
\* registered in the repo; the same with the next tag.
AddStageCustomTag(t) ==
    /\ b.at = "linked"
    /\ IF b.target \in (IF options.final THEN final ELSE repo)
       THEN /\ points' = [points EXCEPT ![t] = b.target]
            /\ b' = [b EXCEPT !.at = "tagged", !.tag = t]
       ELSE /\ b' = [b EXCEPT !.at = "failed"]
            /\ UNCHANGED points
    /\ drifted' = (drifted \/ Drift(points', tagRecord))
    /\ UNCHANGED <<world, cluster, repo, final, tagRecord, linked, imports, c>>

RegisterStageCustomTag ==
    /\ b.at = "tagged"
    /\ tagRecord' = [tagRecord EXCEPT ![b.tag] = b.target]
    /\ b' = [b EXCEPT !.at = "linked", !.tag = None]
    /\ drifted' = (drifted \/ Drift(points, tagRecord'))
    /\ UNCHANGED <<world, cluster, repo, final, points, linked, imports, c>>

\* What was built is deployed, with the tags that were asked for.
Deploy ==
    /\ b.at = "linked"
    /\ cluster' = cluster \cup {IF options.final THEN InFinal(b.target) ELSE InRepo(b.target)}
    /\ b' = [b EXCEPT !.at = "deployed"]
    /\ UNCHANGED <<world, registry, c, drifted>>

-----------------------------------------------------------------------------
Cleaning ==
    \/ InitStageDescSet \/ InitFinalStageDescSet \/ InitCustomTagsMetadata
    \/ KubernetesBasedPolicy
    \/ \E i \in ManagedImages : ScanReferencesHistory(i)
    \/ \E l \in c.unlink : RmImageMetadata(l)
    \/ CleanupNonexistentImageMetadata \/ OtherPolicies
    \/ Walk \/ StartDeleting
    \/ \E s \in Stages : DeleteStage(s)
    \/ ForgetDeletedStages
    \/ \E t \in CustomTags : DeleteStageCustomTag(t) \/ UnregisterStageCustomTag(t)
    \/ DeleteUnusedImportsMetadata \/ CleanupFinalStages

Building ==
    \/ \E s \in Stages : Build(s)
    \/ PublishFinalImage \/ PublishImageGitMetadata
    \/ \E t \in CustomTags : AddStageCustomTag(t)
    \/ RegisterStageCustomTag \/ Deploy

Next == Cleaning \/ RunAgain \/ Building

Spec == Init /\ [][Next]_vars
-----------------------------------------------------------------------------
(* Properties.                                                             *)

Finished == c.phase = "done"
Walked == c.phase \in {"stages", "unused tags", "final stages", "done"}

\* By the manifest a custom tag takes away the stage that it names by now, which
\* is another than the one it was deleted for if it has been moved.
TagsNameTheirStage == options.byManifest => ~drifted

Phases == {"list", "final list", "custom tags", "kubernetes", "git", "other policies", "walk",
           "stages", "unused tags", "final stages", "done", "failed"}

Manager ==
    [phase : Phases, round : Nat, seen : SUBSET Stages, linked : SUBSET Links,
     tags : SUBSET CustomTags, imports : SUBSET DOMAIN ImportMetadata,
     stages : SUBSET Stages, finalStages : SUBSET Stages, reason : [Stages -> Reasons \cup {None}],
     finalProtected : SUBSET Stages, scanned : SUBSET Images, unlink : SUBSET Links, tagList : [CustomTags -> Stages \cup {None}],
     handled : SUBSET Stages, groups : SUBSET (Policies \X SUBSET Stages),
     todo : SUBSET (Stages \cup CustomTags), unregister : SUBSET CustomTags,
     spared : BOOLEAN, used : SUBSET Stages]

\* Types of the variables.
TypeOK ==
    /\ options \in [final : BOOLEAN, byManifest : BOOLEAN, kube : BOOLEAN, git : BOOLEAN,
                    build : BOOLEAN, image : Images, rounds : Nat \ {0}]
    /\ repo \subseteq Stages /\ final \subseteq Stages
    /\ points \in [CustomTags -> Stages \cup {None}]
    /\ tagRecord \in [CustomTags -> Stages \cup {None}]
    /\ linked \subseteq Links
    /\ imports \subseteq DOMAIN ImportMetadata
    /\ c \in Manager /\ c.round \in 1..options.rounds /\ Protected \subseteq c.stages
    /\ b \in [at : {"idle", "built", "copied", "linked", "tagged", "deployed", "failed"},
              target : Stages \cup {None}, tag : CustomTags \cup {None},
              known : SUBSET Links]
    /\ drifted \in BOOLEAN

\* A stage that is used in Kubernetes, under its own name or a registered custom
\* tag, when the cleanup looks, is there as long as the cleanup runs and after
\* (cr_cleanup.md: "werf will never delete this image version"); and so is a copy
\* in the final repo that Kubernetes uses.
UsedStagesStay ==
    /\ TagsNameTheirStage => c.used \subseteq repo
    /\ c.finalProtected \subseteq final

\* What a protected stage was built on is protected as long as the repo has it;
\* and what it was made from, unless git history asked for it or for something
\* that was met on the way (cleanupUnusedStages).
RelativesStay ==
    Walked =>
        /\ \A s \in Protected : Ancestor(s) \subseteq Protected
        /\ (\A s \in Stages : c.reason[s] # "git") =>
              \A s \in Protected : ImportSources(s) \cup DependencySources(s) \subseteq Protected
        /\ \A s \in Protected : c.reason[s] \in Policies => Platforms[s] \cap c.stages \subseteq Protected

\* A stage that was published after the cleanup listed the repo, and the record
\* that links it to its commit, are left alone.
NewStagesStay ==
    (TagsNameTheirStage /\ b.target = New /\ New \notin c.seen /\ c.phase # "list" /\ c.round = 1)
        => /\ New \in repo
           /\ b.at \in {"linked", "tagged", "deployed"} =>
                 <<New, options.image, "head">> \in linked

\* What the git policy never looks at: metadata of an image that is in werf.yaml
\* when no stage that is linked to the image is in the repo any more.
Orphaned(l) ==
    /\ options.git /\ l[2] \in ManagedImages
    /\ \A k \in c.linked : k[2] = l[2] => k[1] \notin c.seen

\* A cleanup that deletes all it wants to leaves no record behind that serves
\* nothing: what is linked, registered or recorded as import source is in the
\* repo, whatever an earlier cleanup left undone.  Two exceptions: a custom tag in
\* use is kept after its stage is gone, and image metadata is orphaned when the
\* last stage of an image is gone, for ever unless the image is built again
\* (gitHistoryBasedCleanup visits the images of GetImageStageIDCommitListToCleanup
\* only, so cleanupImageMetadata, which deletes "metadata for nonexistent
\* stageIDs", is not called for it).
NothingDangles ==
    (Finished /\ ~c.spared /\ b.at = "idle" /\ TagsNameTheirStage) =>
        /\ \A l \in linked : l[1] \in repo \/ Orphaned(l)
        /\ \A t \in CustomTags : tagRecord[t] \in repo \cup {None} \/ c.tagList[t] = None
        /\ \A i \in imports : ImportMetadata[i].source \in repo
=============================================================================
