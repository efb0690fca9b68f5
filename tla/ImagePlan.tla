----------------------------- MODULE ImagePlan -----------------------------
(***************************************************************************)
(* From werf.yaml to a build: the configuration is validated, the images   *)
(* asked for are selected, grouped into sets of images that do not need    *)
(* one another (pkg/config), mapped to images per platform and per stage   *)
(* of a staged Dockerfile (pkg/build/image, pkg/dockerfile), and the sets  *)
(* are built one after another, the images of a set in parallel            *)
(* (pkg/build/conveyor.go).                                                *)
(*                                                                         *)
(* A pattern of the command line is [literal, names]: the names it         *)
(* matches, and whether it is written as one of them.  A stage of a        *)
(* Dockerfile is [named, base, copies]: base is the number of the stage    *)
(* its FROM names, or Registry; copies are the references of its COPY      *)
(* --from and RUN --mount=from in their order, numbers of stages or        *)
(* Registry.                                                               *)
(***************************************************************************)
EXTENDS Integers, Sequences, FiniteSets, SequencesExt

CONSTANTS
  Images,            \* names of images; the ones not configured are in a registry
  Platforms,
  RuntimePlatform,   \* GOOS/GOARCH of the process
  BackendPlatform,   \* the default platform of the container backend
  Configs            \* configurations and options to begin with

Registry == 0

ASSUME PlatformsAssumption == {RuntimePlatform, BackendPlatform} \subseteq Platforms

ASSUME ConfigsAssumption ==
  \A c \in Configs :
    /\ c.defined \subseteq Images /\ c.staged \subseteq c.defined /\ c.artifact \subseteq Images
    /\ c.from \in [Images -> Images] /\ c.deps \in [Images -> SUBSET Images]
    \* validate of stapel_image_base.go: an image is not built from itself
    /\ \A i \in c.defined : c.from[i] # i
    /\ c.platform \in [Images -> SUBSET Platforms]
    /\ c.common \subseteq Platforms /\ c.forced \subseteq Platforms
    /\ c.stages \in Seq([named : BOOLEAN, base : Nat, copies : Seq(Nat)])
    /\ c.staged # {} => c.stages # <<>>
    /\ \A k \in 1..Len(c.stages) :
         \* FROM names an earlier stage and COPY an earlier one: planning of a
         \* Dockerfile that refers to itself or forward does not end
         /\ c.stages[k].base \in 0..(k - 1)
         /\ c.stages[k].base # Registry => c.stages[c.stages[k].base].named
         /\ \A r \in ToSet(c.stages[k].copies) : r \in 0..(k - 1)

VARIABLES
  cfg,
  pc,          \* "validate", "select", "group", "map", "run", "done", "failed", "panic"
  asked,       \* ImagesToProcess.ImageNameList
  toHandle,    \* images to group, with their relatives
  groups,      \* GroupImagesByIndependentSets
  todo,        \* images of the first group to map
  mapping,     \* [image, platforms]: the image being mapped, its platforms to do
  queue, ret,  \* of mapDockerfileToImagesSets
  builder,     \* ImagesSetsBuilder
  batch,       \* the number of the set being built
  started, ended, bad,   \* positions of the set: started, processed, failed
  built        \* images processed without an error

planVars == <<asked, toHandle, groups, todo, mapping, queue, ret, builder>>
runVars == <<batch, started, ended, bad, built>>
vars == <<cfg, pc, asked, toHandle, groups, todo, mapping, queue, ret, builder,
          batch, started, ended, bad, built>>

NoMapping == [image |-> Registry, platforms |-> {}]

Init ==
  /\ cfg \in Configs
  /\ pc = "validate"
  /\ asked = {} /\ toHandle = <<>> /\ groups = <<>> /\ todo = {}
  /\ mapping = NoMapping /\ queue = <<>> /\ ret = <<>>
  /\ builder = [images |-> <<>>, imagesSets |-> <<>>, curSetInd |-> 0, nextSetInd |-> 1]
  /\ batch = 1 /\ started = {} /\ ended = {} /\ bad = {} /\ built = {}

-----------------------------------------------------------------------------
(* The configuration: the graph of the images.                            *)

\* The names validateRelatedImages and validateInfiniteLoopBetweenRelatedImages
\* look at: not the one of "from" and "fromImage".
DependsOn == [i \in cfg.defined |->
  cfg.deps[i] \cup (IF i \in cfg.artifact /\ i \notin cfg.staged THEN {cfg.from[i]} ELSE {})]

\* updateDependencies: what the images are grouped by.
Relatives == [i \in cfg.defined |->
  IF i \in cfg.staged THEN cfg.deps[i]
                      ELSE cfg.deps[i] \cup ({cfg.from[i]} \cap cfg.defined)]

\* The images reached from the set S of images.
Reached(S, edges) ==
  {i \in cfg.defined :
     \A T \in SUBSET cfg.defined : (S \subseteq T /\ (\A j \in T : edges[j] \subseteq T)) => i \in T}

Loop(edges) == \E i \in cfg.defined : i \in Reached(edges[i], edges)

\* Mutant: only an image that depends on itself is noticed.
SelfLoop == \E i \in cfg.defined : i \in DependsOn[i]

InfiniteLoop == Loop(DependsOn)

CrossJoin(i, platforms) ==
  {i} \X (IF platforms = {} THEN {RuntimePlatform} ELSE platforms)

PlatformsPresent ==
  LET all == UNION {CrossJoin(i, cfg.platform[i]) : i \in cfg.defined}
  IN \A i \in cfg.defined : \A d \in cfg.deps[i] \cap cfg.defined :
       CrossJoin(d, cfg.platform[i]) \subseteq all

Valid ==
  /\ PlatformsPresent
  /\ \A i \in cfg.defined : DependsOn[i] \subseteq cfg.defined
  /\ ~InfiniteLoop

\* GetWerfConfig: the configuration is used or refused.
Validate ==
  /\ pc = "validate"
  /\ pc' = IF Valid THEN "select" ELSE "failed"
  /\ UNCHANGED <<cfg, planVars, runVars>>

Included ==
  IF cfg.include = {} THEN cfg.defined
                      ELSE UNION {p.names : p \in cfg.include} \cap cfg.defined

Excluded(i) ==
  /\ \E p \in cfg.exclude : i \in p.names
  /\ ~\E p \in cfg.include : p.literal /\ p.names = {i}

\* NewImagesToProcess, and the relatives of what it selects.
Select ==
  LET chosen == {i \in Included : ~Excluded(i) /\ (cfg.onlyFinal => i \in cfg.final)}
  IN /\ pc = "select"
     /\ IF \E p \in cfg.include : p.names \cap cfg.defined = {}
          THEN pc' = "failed" /\ UNCHANGED <<asked, toHandle>>
          ELSE /\ asked' = chosen
               /\ toHandle' = [i \in Reached(chosen, Relatives) |-> Relatives[i]]
               /\ pc' = "group"
     /\ UNCHANGED <<cfg, groups, todo, mapping, queue, ret, builder, runVars>>

\* One round of GroupImagesByIndependentSets.  A round that finds nothing
\* leaves the loop as it was, for ever.
Group ==
  LET checked == UNION ToSet(groups)
      current == {i \in DOMAIN toHandle : toHandle[i] \subseteq checked}
  IN /\ pc = "group"
     /\ IF toHandle = <<>>
          THEN /\ pc' = IF groups = <<>> THEN "run" ELSE "map"
               /\ todo' = IF groups = <<>> THEN {} ELSE Head(groups)
               /\ UNCHANGED <<toHandle, groups>>
          ELSE /\ groups' = IF current = {} THEN groups ELSE Append(groups, current)
               /\ toHandle' = [i \in DOMAIN toHandle \ current |-> toHandle[i]]
               /\ UNCHANGED <<pc, todo>>
     /\ UNCHANGED <<cfg, asked, mapping, queue, ret, builder, runVars>>

-----------------------------------------------------------------------------
(* The images of a configured image: one, or the stages of a Dockerfile.  *)

\* The image planned for stage k of i; stage 0 is the image itself, which
\* stands for the target stage, the last one.
Image(name, k, p) == [name |-> name, stage |-> k, platform |-> p]

\* GetWerfImageName.  NewDockerfileStage leaves Index 0.
StageName(i, k) == <<i, IF cfg.stages[k].named THEN k ELSE -1>>

\* SetupDockerfileStagesDependencies returns at the first reference that is
\* no stage, and ParseDockerfileWithBuildkit goes on without the rest.
Resolved(k) ==
  LET copies == cfg.stages[k].copies
      Unresolved(l) == Registry \in ToSet(cfg.stages[l].copies)
  IN IF \E l \in 1..(k - 1) : Unresolved(l) THEN <<>>
     ELSE IF Unresolved(k) THEN SubSeq(copies, 1, SelectInSeq(copies, LAMBDA r : r = Registry) - 1)
     ELSE copies

\* Calculate: the platforms of a configured image.
TargetPlatforms(i) ==
  CASE cfg.forced # {} -> cfg.forced
    [] cfg.forced = {} /\ cfg.platform[i] # {} -> cfg.platform[i]
    [] cfg.forced = {} /\ cfg.platform[i] = {} /\ cfg.common # {} -> cfg.common
    [] OTHER -> {BackendPlatform}

\* MergeImagesSets.
MergeImagesSets(b, newSets) ==
  LET upTo == b.curSetInd + Len(newSets)
      old(n) == IF n <= Len(b.imagesSets) THEN b.imagesSets[n] ELSE <<>>
      size == IF upTo > Len(b.imagesSets) THEN upTo ELSE Len(b.imagesSets)
  IN [images |-> b.images \o FlattenSeq(newSets),
      imagesSets |-> [n \in 1..size |->
                        IF n \in (b.curSetInd + 1)..upTo THEN old(n) \o newSets[n - b.curSetInd]
                                                         ELSE old(n)],
      curSetInd |-> b.curSetInd,
      nextSetInd |-> IF upTo > b.nextSetInd THEN upTo ELSE b.nextSetInd]

TakeImage(i) ==
  /\ pc = "map" /\ mapping.platforms = {} /\ queue = <<>> /\ ret = <<>>
  /\ i \in todo
  /\ todo' = todo \ {i}
  /\ mapping' = [image |-> i, platforms |-> TargetPlatforms(i)]
  /\ UNCHANGED <<cfg, pc, asked, toHandle, groups, queue, ret, builder, runVars>>

\* MapStapelConfigToImagesSets, mapLegacyDockerfileToImage and the beginning of
\* mapDockerfileToImagesSets.
MapImage(p) ==
  LET i == mapping.image
      target == Len(cfg.stages)
  IN /\ pc = "map" /\ queue = <<>> /\ ret = <<>>
     /\ p \in mapping.platforms
     /\ mapping' = [mapping EXCEPT !.platforms = @ \ {p}]
     /\ IF i \in cfg.staged
          THEN /\ queue' = <<[name |-> <<i, 0>>, stage |-> target, level |-> 0, platform |-> p]>>
               /\ UNCHANGED builder
          ELSE /\ builder' = MergeImagesSets(builder, <<<<Image(<<i, 0>>, 0, p)>>>>)
               /\ UNCHANGED queue
     /\ UNCHANGED <<cfg, pc, asked, toHandle, groups, todo, ret, runVars>>

\* Mutant: a stage met again stays in the sets it was in.
AppendImageTwice(sets, level, new) ==
  LET all == IF level = Len(sets) THEN <<<<>>>> \o sets ELSE sets
  IN IF \E n \in DOMAIN all[1] : all[1][n].name = new.name THEN all
     ELSE [all EXCEPT ![1] = Append(@, new)]

\* appendImageToCurrentSet: an image goes to the first set, and from any other.
AppendImageToCurrentSet(sets, level, new) ==
  LET all == IF level = Len(sets) THEN <<<<>>>> \o sets ELSE sets
      Without(s) == FlattenSeq([n \in DOMAIN s |-> IF s[n].name = new.name THEN <<>> ELSE <<s[n]>>])
  IN IF \E n \in DOMAIN all[1] : all[1][n].name = new.name THEN all
     ELSE [n \in DOMAIN all |-> IF n = 1 THEN Append(all[1], new) ELSE Without(all[n])]

\* One stage of the Dockerfile: its base and what it copies from are queued a
\* level further, then its image is added.
MapStage ==
  LET item == Head(queue)
      k == item.stage
      Item(l) == [name |-> StageName(mapping.image, l), stage |-> l, level |-> item.level + 1,
                  platform |-> item.platform]
      base == IF cfg.stages[k].base = Registry THEN <<>> ELSE <<Item(cfg.stages[k].base)>>
      copies == [n \in DOMAIN Resolved(k) |-> Item(Resolved(k)[n])]
  IN /\ pc = "map" /\ queue # <<>>
     /\ queue' = Tail(queue) \o base \o copies
     /\ ret' = AppendImageToCurrentSet(ret, item.level, Image(item.name, k, item.platform))
     /\ UNCHANGED <<cfg, pc, asked, toHandle, groups, todo, mapping, builder, runVars>>

MergeStages ==
  /\ pc = "map" /\ queue = <<>> /\ ret # <<>>
  /\ builder' = MergeImagesSets(builder, ret)
  /\ ret' = <<>>
  /\ UNCHANGED <<cfg, pc, asked, toHandle, groups, todo, mapping, queue, runVars>>

\* Mutant: the next group comes one set further.
NextByOne(b) == [b EXCEPT !.curSetInd = @ + 1]

\* Next of images_sets.go: the images of the next group come after all sets.
BuilderNext(b) == [b EXCEPT !.curSetInd = b.nextSetInd]

NextGroup ==
  /\ pc = "map" /\ todo = {} /\ mapping.platforms = {} /\ queue = <<>> /\ ret = <<>>
  /\ builder' = BuilderNext(builder)
  /\ groups' = Tail(groups)
  /\ todo' = IF Len(groups) = 1 THEN {} ELSE groups[2]
  /\ pc' = IF Len(groups) = 1 THEN "run" ELSE "map"
  /\ UNCHANGED <<cfg, asked, toHandle, mapping, queue, ret, runVars>>

-----------------------------------------------------------------------------
(* The build: doImages.                                                   *)

\* What is built one after another: the sets, or image by image.
Batches ==
  IF cfg.parallel /\ Len(builder.images) > 1
    THEN builder.imagesSets
    ELSE [n \in DOMAIN builder.images |-> <<builder.images[n]>>]

\* What the processing of an image asks GetImage for: its base (SetupBaseImage),
\* the stages it copies from, the images it imports from or depends on.
Asks(img) ==
  LET i == img.name[1]
      k == img.stage
      stages == IF k = 0 THEN {}
                ELSE {StageName(i, l) : l \in ({cfg.stages[k].base} \ {Registry}) \cup ToSet(Resolved(k))}
      others == IF i \in cfg.staged THEN cfg.deps[i] ELSE Relatives[i]
  IN stages \cup {<<j, 0>> : j \in others}

GetImage(name, p) == {n \in DOMAIN builder.images :
                        builder.images[n].name = name /\ builder.images[n].platform = p}

\* An image of the set begins.  GetImage panics when it finds nothing.
StartImage(n) ==
  /\ pc = "run" /\ batch <= Len(Batches)
  /\ n \in DOMAIN Batches[batch] \ started
  /\ started' = started \cup {n}
  /\ pc' = IF \A a \in Asks(Batches[batch][n]) : GetImage(a, Batches[batch][n].platform) # {}
             THEN "run" ELSE "panic"
  /\ UNCHANGED <<cfg, planVars, batch, ended, bad, built>>

EndImage(n) ==
  /\ pc = "run" /\ n \in started \ ended
  /\ ended' = ended \cup {n}
  /\ \/ built' = built \cup {Batches[batch][n]} /\ UNCHANGED bad
     \/ bad' = bad \cup {n} /\ UNCHANGED built
  /\ UNCHANGED <<cfg, pc, planVars, batch, started>>

\* DoTasks returns when the images started have ended and, if none failed, all
\* of the set have.
EndSet ==
  /\ pc = "run" /\ batch <= Len(Batches)
  /\ started = ended
  /\ bad # {} \/ ended = DOMAIN Batches[batch]
  /\ IF bad # {} THEN pc' = "failed" /\ UNCHANGED <<batch, started, ended, bad>>
     ELSE /\ batch' = batch + 1
          /\ started' = {} /\ ended' = {} /\ bad' = {}
          /\ UNCHANGED pc
  /\ UNCHANGED <<cfg, planVars, built>>

EndImages ==
  /\ pc = "run" /\ batch > Len(Batches)
  /\ pc' = "done"
  /\ UNCHANGED <<cfg, planVars, runVars>>

Next ==
  \/ Validate \/ Select \/ Group
  \/ \E i \in Images : TakeImage(i)
  \/ \E p \in Platforms : MapImage(p)
  \/ MapStage \/ MergeStages \/ NextGroup
  \/ \E n \in DOMAIN builder.images : StartImage(n) \/ EndImage(n)
  \/ EndSet \/ EndImages

\* Planning and building are one command: it goes on while it can.
Spec == Init /\ [][Next]_vars /\ WF_vars(Next)

-----------------------------------------------------------------------------
(* Properties.  An image is meant as <<configured image, stage, platform>>. *)

TargetOf(i) == IF i \in cfg.staged THEN Len(cfg.stages) ELSE 0

\* The stages of the Dockerfile stage k is made from, by its FROM and COPY.
StagesOf(k) == ({cfg.stages[k].base} \cup ToSet(cfg.stages[k].copies)) \ {Registry}

\* The stages the target stage is made from, directly or not.
StagesNeeded ==
  {k \in DOMAIN cfg.stages :
     \A T \in SUBSET DOMAIN cfg.stages :
       (Len(cfg.stages) \in T /\ (\A l \in T : StagesOf(l) \subseteq T)) => k \in T}

\* The Dockerfile is planned as it is written: no two stages without a name,
\* which would share one, and no copy from an image of a registry.
AsWritten ==
  cfg.staged # {} =>
    /\ Cardinality({k \in 1..(Len(cfg.stages) - 1) : ~cfg.stages[k].named}) <= 1
    /\ \A k \in DOMAIN cfg.stages : Registry \notin ToSet(cfg.stages[k].copies)

Meant(img) == <<img.name[1], img.stage, img.platform>>

\* What the image is made from.
Needs(img) ==
  LET i == img.name[1]
  IN {<<i, k, img.platform>> : k \in IF img.stage = 0 THEN {} ELSE StagesOf(img.stage)}
       \cup {<<j, TargetOf(j), img.platform>> : j \in Relatives[i]}

\* Types of the variables; a batch ends only what it started, and the index of
\* the set being filled never passes that of the next one.
TypeOK ==
  /\ pc \in {"validate", "select", "group", "map", "run", "done", "failed", "panic"}
  /\ asked \subseteq cfg.defined /\ todo \subseteq cfg.defined
  /\ DOMAIN toHandle \subseteq cfg.defined
  /\ \A n \in DOMAIN groups : groups[n] \subseteq cfg.defined
  /\ mapping.platforms \subseteq Platforms
  /\ \A n \in DOMAIN queue : queue[n].level \in 0..Len(cfg.stages)
  /\ builder.curSetInd <= builder.nextSetInd
  /\ builder.nextSetInd >= Len(builder.imagesSets)
  /\ bad \subseteq ended /\ ended \subseteq started
  /\ built \subseteq ToSet(builder.images)

\* An image is processed only after every image it is made from: its base, the
\* stages it copies from, the images it imports from or depends on, whether
\* the sets are built in parallel or image by image (doImages).
NeededBuiltFirst ==
  (pc = "run" /\ AsWritten) =>
    \A n \in started : Needs(Batches[batch][n]) \subseteq {Meant(img) : img \in built}

\* The plan holds the images asked for, what they need, for each of their
\* platforms, every needed stage of a Dockerfile once and nothing else, in sets
\* none of which is empty, though a stage is met at several levels and moved
\* between the sets.
PlanIsExact ==
  (pc = "run" /\ AsWritten) =>
    LET wanted == UNION {{i} \X (IF i \in cfg.staged THEN StagesNeeded ELSE {0}) \X TargetPlatforms(i)
                           : i \in Reached(asked, Relatives)}
    IN /\ {Meant(img) : img \in ToSet(builder.images)} = wanted
       /\ Len(builder.images) = Cardinality(wanted)
       /\ Len(FlattenSeq(builder.imagesSets)) = Cardinality(wanted)
       /\ ToSet(FlattenSeq(builder.imagesSets)) = ToSet(builder.images)
       /\ \A n \in DOMAIN builder.imagesSets : builder.imagesSets[n] # <<>>

\* The validator's view of the platforms is the one of the build: the images
\* without a platform get the one of the process, and those built from another
\* image are built for platforms of that one.
PlatformsAgree ==
  \/ cfg.forced # {}
  \/ /\ \A i \in cfg.defined : cfg.platform[i] = {} => TargetPlatforms(i) = {RuntimePlatform}
     /\ \A i \in cfg.defined \ cfg.staged :
          cfg.from[i] \in cfg.defined => TargetPlatforms(i) \subseteq TargetPlatforms(cfg.from[i])

\* A loop through "from", which the validation does not look at.
FromLoop == Loop(Relatives) /\ ~Loop(DependsOn)

\* Planning and build end: a loop between images is refused, or the rounds of
\* GroupImagesByIndependentSets and the queue of stages run dry.  If the
\* validator's view of the platforms is right they end without GetImage
\* panicking for an image of another platform.
BuildEnds ==
  (pc = "select" /\ ~FromLoop)
    ~> (pc \in {"done", "failed"} \/ (pc = "panic" /\ ~PlatformsAgree))
=============================================================================
