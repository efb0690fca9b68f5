----------------------------- MODULE GitHistory -----------------------------
(***************************************************************************)
(* The git-history keep policies of "werf cleanup", for one image: which   *)
(* references the policies select and with which limit on images, the scan *)
(* of the history of each selected reference, and the metadata that the    *)
(* cleanup leaves behind, which is all that the next cleanup knows.        *)
(*                                                                         *)
(* A date is a number, "in the last N hours" is a date that a commit has   *)
(* to be younger than.  A regexp is the set of references it matches.      *)
(***************************************************************************)
EXTENDS Integers, FiniteSets, SequencesExt

CONSTANTS
    Commits,         \* a finite set of commits, all of them in the local git
    Gone,            \* a commit that is no longer there
    Stages,          \* stage IDs of the image
    Branches, Tags,  \* references: branches of origin, and tags
    MainBranches,    \* main, master, staging and production
    TaggerDate,      \* the date of an annotated tag, NoDate of a lightweight one
    WeekAgo,         \* the date of a week ago
    Histories,       \* functions from a commit to the sequence of its parents
    Calendars,       \* functions from a commit to its committer date
    HeadChoices,     \* functions from a reference to its head commit
    PolicyChoices,   \* sequences of keep policies
    MaxCommits,      \* most commits a stage is recorded on at the start
    MaxRounds        \* cleanups in a row

Refs == Branches \cup Tags
NoDate == 0
NoIn == 0            \* "in" is not given

\* A limit: at most "last" (unlimited if negative), younger than "in".
Limits == [last : Int, in : Nat, op : {"And", "Or"}]

ASSUME HistoryAssumption ==
    /\ IsFiniteSet(Commits) /\ Gone \notin Commits
    /\ IsFiniteSet(Stages)
    /\ IsFiniteSet(Branches) /\ IsFiniteSet(Tags) /\ MainBranches \subseteq Branches
    /\ TaggerDate \in [Tags -> Nat] /\ WeekAgo \in Nat
    /\ Histories \subseteq [Commits -> Seq(Commits)]
    /\ Calendars \subseteq [Commits -> Nat]
    /\ HeadChoices \subseteq [Refs -> Commits]
    /\ PolicyChoices \subseteq Seq([refs : SUBSET Refs, limit : Limits, images : Limits])

VARIABLES
    parents, when, head, policies,   \* the repository and werf.yaml
    phase,       \* "policies" | "scan" | "metadata" | "done"
    next,        \* the policy to apply next
    selected,    \* the selected references
    keep,        \* keep[r]: the limit on images of r, imagesCleanupKeepPolicy
    todo,        \* references that are still to be scanned
    scan,        \* the scan of one reference, commitHistoryScanner, or NoScan
    metadata,    \* metadata[s]: the commits that stage s is recorded on
    stop,        \* stopCommitList
    reached,     \* reachedStageIDs
    hit,         \* hit[s]: the commits on which s was hit
    round,       \* the number of this cleanup
    first        \* what the first cleanup was given and what it saved

input == <<parents, when, head, policies>>
historyVars ==
    <<input, phase, next, selected, keep, todo, scan, metadata, stop, reached, hit, round, first>>

NoScan == <<>>

DefaultImages == [last |-> 1, in |-> NoIn, op |-> "And"]

HistoryInit ==
    /\ parents \in Histories
    /\ when \in Calendars
    /\ head \in HeadChoices
    /\ policies \in PolicyChoices
    /\ phase = "policies"
    /\ next = 1
    /\ selected = {}
    /\ keep = [r \in Refs |-> DefaultImages]
    /\ todo = {} /\ scan = NoScan
    /\ metadata \in [Stages -> {C \in SUBSET (Commits \cup {Gone}) : Cardinality(C) <= MaxCommits}]
    /\ stop = {}
    /\ reached = {}
    /\ hit = [s \in Stages |-> {}]
    /\ round = 1
    /\ first = [given |-> metadata, saved |-> {}]

-----------------------------------------------------------------------------
(* Preparing references to scan.                                           *)

\* A branch is as old as its head; so is a lightweight tag.
CreatedAt(r) ==
    IF r \in Tags /\ TaggerDate[r] # NoDate THEN TaggerDate[r] ELSE when[head[r]]

Limit(last, in, op) == [last |-> last, in |-> in, op |-> op]
NoLimit == Limit(-1, NoIn, "And")
DefaultPolicies ==
    <<[refs |-> Tags, limit |-> Limit(10, NoIn, "And"), images |-> DefaultImages],
      [refs |-> Branches, limit |-> Limit(10, WeekAgo, "And"), images |-> Limit(2, WeekAgo, "And")],
      [refs |-> MainBranches, limit |-> NoLimit, images |-> Limit(10, NoIn, "And")]>>

\* keepPolicies of werf.yaml, or the default ones if there are none.
KeepPolicies == IF policies = <<>> THEN DefaultPolicies ELSE policies

\* Sorting is not stable: of references of one age any may come first.
FilterReferencesByLast(refs, last) ==
    IF last < 0 \/ Cardinality(refs) < last THEN {refs}
    ELSE {L \in kSubset(last, refs) :
            \A r \in L, q \in refs \ L : CreatedAt(r) >= CreatedAt(q)}

FilterReferencesByIn(refs, in) ==
    {r \in refs : in = NoIn \/ CreatedAt(r) > in}

ApplyReferencesLimit(refs, limit) ==
    LET recent == FilterReferencesByIn(refs, limit.in) IN
    {IF limit.op = "Or" THEN recent \cup L ELSE recent \cap L :
        L \in FilterReferencesByLast(refs, limit.last)}

\* The references are shared by the policies, so that a later policy replaces
\* the limit on images that an earlier one has given to a reference.
ApplyPolicy ==
    /\ phase = "policies"
    /\ next <= Len(KeepPolicies)
    /\ LET p == KeepPolicies[next] IN
       \E refs \in ApplyReferencesLimit(p.refs, p.limit) :
          /\ selected' = selected \cup refs
          /\ keep' = [r \in Refs |-> IF r \in refs THEN p.images ELSE keep[r]]
    /\ next' = next + 1
    /\ UNCHANGED <<input, phase, todo, scan, metadata, stop, reached, hit, round, first>>

\* Nothing is scanned if the image has no record on a commit that exists.
StartScan ==
    /\ phase = "policies"
    /\ next > Len(KeepPolicies)
    /\ phase' = "scan"
    /\ todo' = IF \A s \in Stages : metadata[s] \subseteq {Gone} THEN {} ELSE selected
    /\ UNCHANGED <<input, next, selected, keep, scan, metadata, stop, reached, hit, round, first>>

-----------------------------------------------------------------------------
(* Scanning the history of one reference.                                  *)

\* stageIDCommitList: stages with a record, and the commits that still exist.
StageIDCommitList ==
    [s \in {t \in Stages : metadata[t] # {}} |-> metadata[s] \ {Gone}]

\* The commits that are sought, refExpectedStageIDCommitList.
Expected(limit) ==
    LET young(s) == {c \in StageIDCommitList[s] : when[c] > limit.in}
        all == DOMAIN StageIDCommitList
    IN  CASE limit.last = 0 -> [s \in {} |-> {}]
          [] limit.last # 0 /\ limit.in # NoIn /\ limit.op = "And" ->
               [s \in {t \in all : young(t) # {}} |-> young(s)]
          [] OTHER -> StageIDCommitList

\* The stages found on the commits of the sequence found.
ReachedStages(found, sought) ==
    {s \in DOMAIN sought : sought[s] \cap Range(found) # {}}

\* Scanning goes from the last reference to the first: tags before branches, and
\* the oldest of each first.
ScanOrder(r) ==
    /\ r \in Tags \/ todo \cap Tags = {}
    /\ \A q \in todo : (q \in Tags <=> r \in Tags) => CreatedAt(r) <= CreatedAt(q)

\* The scan of a reference begins at its head; a reference for which there is
\* nothing to seek is skipped.
ScanReference(r) ==
    /\ phase = "scan" /\ scan = NoScan
    /\ r \in todo
    /\ ScanOrder(r)
    /\ IF DOMAIN Expected(keep[r]) = {}
       THEN todo' = todo \ {r} /\ UNCHANGED scan
       ELSE /\ scan' = [ref |-> r, found |-> <<>>, scanned |-> {},
                        level |-> <<head[r]>>, parents |-> <<>>]
            /\ UNCHANGED todo
    /\ UNCHANGED <<input, phase, next, selected, keep, metadata, stop, reached, hit, round, first>>

Scanning == phase = "scan" /\ scan # NoScan
Sought == Expected(keep[scan.ref])

\* The commit c is noted if a stage is recorded on it.
HandleCommit(c) ==
    IF \E s \in DOMAIN Sought : c \in Sought[s] THEN Append(scan.found, c) ELSE scan.found

\* One commit of a level.  The depth is 1 for a tag and unlimited for a branch.
\* When all that is sought was reached the level is left, but the parents its
\* earlier commits gave are still visited.
ScanCommit ==
    /\ Scanning /\ scan.level # <<>>
    /\ LET c == Head(scan.level)
           rest == Tail(scan.level)
           found == HandleCommit(c)
       IN  scan' =
             CASE c \in scan.scanned \cup stop -> [scan EXCEPT !.level = rest]
               [] c \notin scan.scanned \cup stop /\ scan.ref \in Tags ->
                    [scan EXCEPT !.level = rest, !.found = found]
               [] c \notin scan.scanned \cup stop /\ scan.ref \notin Tags
                    /\ ReachedStages(found, Sought) = DOMAIN Sought ->
                    [scan EXCEPT !.level = <<>>, !.found = found]
               [] OTHER ->
                    [scan EXCEPT !.level = rest, !.found = found, !.scanned = @ \cup {c},
                                 !.parents = @ \o parents[c]]
    /\ UNCHANGED <<input, phase, next, selected, keep, todo, metadata, stop, reached, hit, round, first>>

\* The next level is that of the parents.
ScanParents ==
    /\ Scanning /\ scan.level = <<>> /\ scan.parents # <<>>
    /\ scan' = [scan EXCEPT !.level = scan.parents, !.parents = <<>>]
    /\ UNCHANGED <<input, phase, next, selected, keep, todo, metadata, stop, reached, hit, round, first>>

\* The youngest commit a stage was found on; of two of one date the first found.
LatestCommit(s, found, sought) ==
    found[CHOOSE i \in DOMAIN found :
            /\ found[i] \in sought[s]
            /\ \A j \in DOMAIN found : found[j] \in sought[s] =>
                 \/ when[found[j]] < when[found[i]]
                 \/ when[found[j]] = when[found[i]] /\ i <= j]

\* The commits whose stages are kept; stages of one commit count as one.
HandleExtra(latest, limit) ==
    LET byIn == {c \in latest : when[c] > limit.in}
        byLast == {L \in SUBSET latest :
                     /\ Cardinality(L) = IF Cardinality(latest) < limit.last
                                         THEN Cardinality(latest) ELSE limit.last
                     /\ \A c \in L, d \in latest \ L : when[c] >= when[d]}
    IN  {CASE limit.in = NoIn -> L
           [] limit.in # NoIn /\ limit.op = "And" -> L \cap byIn
           [] OTHER -> L \cup byIn : L \in byLast}

\* Mutant: a scan that found anything leaves a stop commit.
StopCommitsAlways(found, sought, limit) ==
    IF found # <<>> THEN {Last(found)} ELSE {}

\* A stop commit is left only if all stages of the image were sought and found,
\* and fewer of them than the limit.
StopCommits(found, sought, limit) ==
    LET stages == ReachedStages(found, sought) IN
    IF /\ DOMAIN sought # {}
       /\ limit.last < 0 \/ Cardinality(stages) < limit.last
       /\ sought = StageIDCommitList
       /\ stages = DOMAIN sought
    THEN {Last(found)} ELSE {}

\* The stages and commits that the scan of the reference leaves.  What was found
\* is cut down to the limit only if there is more of it.
ScanReferenceHistory ==
    /\ Scanning /\ scan.level = <<>> /\ scan.parents = <<>>
    /\ LET limit == keep[scan.ref]
           found == scan.found
           stages == ReachedStages(found, Sought)
           latest(s) == LatestCommit(s, found, Sought)
           extra == limit.last > 0 /\ Cardinality(stages) > limit.last
       IN  /\ \E C \in IF extra THEN HandleExtra({latest(s) : s \in stages}, limit)
                       ELSE {{latest(s) : s \in stages}} :
                 LET saved == {s \in stages : latest(s) \in C} IN
                 /\ reached' = reached \cup saved
                 /\ hit' = [s \in Stages |-> IF s \in saved THEN hit[s] \cup {latest(s)} ELSE hit[s]]
           /\ stop' = stop \cup StopCommits(found, Sought, limit)
    /\ todo' = todo \ {scan.ref}
    /\ scan' = NoScan
    /\ UNCHANGED <<input, phase, next, selected, keep, metadata, round, first>>

EndScan ==
    /\ phase = "scan" /\ scan = NoScan
    /\ todo = {}
    /\ phase' = "metadata"
    /\ first' = IF round = 1 THEN [first EXCEPT !.saved = reached] ELSE first
    /\ UNCHANGED <<input, next, selected, keep, todo, scan, metadata, stop, reached, hit, round>>

-----------------------------------------------------------------------------
(* Cleaning image metadata.                                                *)

\* Mutant: the hits go with the other records of a stage.
RecordsToDeleteAll == metadata

\* All records of a stage that was not reached go, and of a reached one all but
\* the hits; so do the records of commits that are gone.  A record whose deletion
\* fails stays, with a warning.
RecordsToDelete ==
    [s \in Stages |-> IF s \in reached THEN metadata[s] \ hit[s] ELSE metadata[s]]

CleanupImageMetadata ==
    /\ phase = "metadata"
    /\ \E failed \in SUBSET {x \in Stages \X (Commits \cup {Gone}) : x[2] \in RecordsToDelete[x[1]]} :
          metadata' = [s \in Stages |-> (metadata[s] \ RecordsToDelete[s])
                                          \cup {c \in RecordsToDelete[s] : <<s, c>> \in failed}]
    /\ phase' = "done"
    /\ UNCHANGED <<input, next, selected, keep, todo, scan, stop, reached, hit, round, first>>

\* The same command is run again; nothing was built or committed in between.
Again ==
    /\ phase = "done"
    /\ round < MaxRounds
    /\ round' = round + 1
    /\ phase' = "policies"
    /\ next' = 1
    /\ selected' = {}
    /\ keep' = [r \in Refs |-> DefaultImages]
    /\ stop' = {}
    /\ reached' = {}
    /\ hit' = [s \in Stages |-> {}]
    /\ UNCHANGED <<input, todo, scan, metadata, first>>

Finished == phase = "done" /\ round = MaxRounds /\ UNCHANGED historyVars

HistoryNext ==
    \/ ApplyPolicy
    \/ StartScan
    \/ \E r \in Refs : ScanReference(r)
    \/ ScanCommit
    \/ ScanParents
    \/ ScanReferenceHistory
    \/ EndScan
    \/ CleanupImageMetadata
    \/ Again
    \/ Finished

HistorySpec == HistoryInit /\ [][HistoryNext]_historyVars
-----------------------------------------------------------------------------
(* The policies as werf.yaml states them.                                  *)

\* The commits of a reference: of a tag its head only, of a branch the least set
\* that has its head and the parents of its commits.
History(r) == {C \in SUBSET Commits : head[r] \in C /\ \A c \in C : Range(parents[c]) \subseteq C}
Ancestors(r) ==
    IF r \in Tags THEN {head[r]} ELSE {c \in Commits : \A C \in History(r) : c \in C}

\* The policies that select the reference whatever the order of equal dates.
SelectedBy(r, p) ==
    LET before == {q \in p.refs \ {r} : CreatedAt(q) >= CreatedAt(r)}
        byIn == p.limit.in = NoIn \/ CreatedAt(r) > p.limit.in
        byLast == p.limit.last < 0 \/ Cardinality(before) < p.limit.last
    IN  r \in p.refs /\ IF p.limit.op = "Or" THEN byIn \/ byLast ELSE byIn /\ byLast

\* The last policy a reference falls under counts.
PoliciesOf(r) == {k \in DOMAIN KeepPolicies : SelectedBy(r, KeepPolicies[k])}
ImagesLimit(r) ==
    KeepPolicies[CHOOSE k \in PoliciesOf(r) : \A j \in PoliciesOf(r) : j <= k].images

\* No two references have one age, so that the policies leave no choice.
DistinctAges == \A r, q \in Refs : r # q => CreatedAt(r) # CreatedAt(q)

\* The commits of stage s that count for the reference under the limit.
Counted(s, r, limit, records) ==
    {c \in records[s] \cap Ancestors(r) :
        limit.op = "Or" \/ limit.in = NoIn \/ when[c] > limit.in}

NewestDate(C) == CHOOSE d \in {when[c] : c \in C} : \A c \in C : when[c] <= d

\* The stages that the policies promise to keep for the sake of reference r.
Promised(r, records) ==
    LET limit == ImagesLimit(r)
        counted(s) == Counted(s, r, limit, records)
        present == {s \in Stages : counted(s) # {}}
        newest(s) == NewestDate(counted(s))
        among(s) == Cardinality({t \in present \ {s} : newest(t) >= newest(s)}) < limit.last
        recent(s) == limit.in # NoIn /\ newest(s) > limit.in
    IN  IF limit.last = 0 THEN {}
        ELSE {s \in present : limit.last < 0 \/ among(s) \/ (limit.op = "Or" /\ recent(s))}

\* The newest commit of a stage is also the first that a scan by levels meets: in
\* a line of commits whose dates grow, or if every stage has one record.
Line ==
    \A c \in Commits :
        Len(parents[c]) <= 1 /\ \A p \in Range(parents[c]) : when[p] < when[c]
Unambiguous(records) == Line \/ \A s \in Stages : Cardinality(records[s]) <= 1

\* No two commits have one date, so that a limit on images leaves no choice.
DistinctDates == \A c, d \in Commits : c # d => when[c] # when[d]

-----------------------------------------------------------------------------
(* Properties.                                                             *)

Scans == [ref : Refs, found : Seq(Commits), scanned : SUBSET Commits,
          level : Seq(Commits), parents : Seq(Commits)]

\* Types of the variables; records are kept on known commits only.
HistoryTypeOK ==
    /\ phase \in {"policies", "scan", "metadata", "done"}
    /\ next \in 1..(Len(KeepPolicies) + 1)
    /\ selected \subseteq Refs /\ todo \subseteq selected
    /\ scan # NoScan => scan \in Scans /\ scan.ref \in todo
    /\ keep \in [Refs -> Limits]
    /\ metadata \in [Stages -> SUBSET (Commits \cup {Gone})]
    /\ hit \in [Stages -> SUBSET Commits]
    /\ stop \subseteq Commits
    /\ reached \subseteq Stages

\* Once the references are scanned, every stage is kept that the policies promise
\* to keep for a reference: neither the early end of a scan, nor a stop commit
\* left by the scan of another reference, nor the policy of another reference
\* loses it (scanReferenceHistory).  And nothing is kept without a reference that
\* asks for it: a saved stage has a record, young enough if the policy says so,
\* in the history of a selected reference whose limit is not zero.
PromisedAreKept ==
    /\ (phase = "metadata" /\ DistinctAges /\ Unambiguous(metadata)) =>
          \A r \in Refs : PoliciesOf(r) # {} => Promised(r, metadata) \subseteq reached
    /\ \A s \in reached : \E r \in selected :
          keep[r].last # 0 /\ Counted(s, r, keep[r], first.given) # {}

\* Running the cleanup again, with nothing new, saves exactly the stages that the
\* first one saved, though most of the metadata is gone (or, where the deletion
\* failed, is not).  Sorting is not stable, so commits of one date may be chosen
\* between anew.
CleanupIsIdempotent ==
    (round > 1 /\ phase = "metadata" /\ DistinctAges /\ DistinctDates /\ Unambiguous(first.given))
        => reached = first.saved
=============================================================================
