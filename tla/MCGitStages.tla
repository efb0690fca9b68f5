---------------------------- MODULE MCGitStages ----------------------------
(* A project with a branch d that forks from c1 and is merged into c2 as   *)
(* the virtual merge m, beside a library with the commits l1 and l2.       *)
EXTENDS GitStages, TLC

CONSTANTS c1, c2, c3, d, m, l1, l2, dep, src, bin

MCParents ==
  c1 :> <<>> @@ c2 :> <<c1>> @@ c3 :> <<c2>> @@ d :> <<c1>> @@ m :> <<c2, d>>
  @@ l1 :> <<>> @@ l2 :> <<l1>>

MCAncestors ==
  c1 :> {c1} @@ c2 :> {c1, c2} @@ c3 :> {c1, c2, c3} @@ d :> {c1, d} @@ m :> {c1, c2, d, m}
  @@ l1 :> {l1} @@ l2 :> {l1, l2}

Run(c, l, v, k, b) == [head |-> <<c, l>>, vm |-> v, clone |-> k, backend |-> b]

\* From complete clones, from a clone of the branch and from one without history.
MCInvocations ==
  {Run(c1, l1, FALSE, Commits, "docker"), Run(c2, l2, FALSE, Commits, "buildah"),
   Run(c3, l1, FALSE, Commits, "docker"), Run(c3, l1, FALSE, {c3, l1}, "docker"),
   Run(d, l1, FALSE, {c1, d, l1}, "buildah"), Run(m, l1, TRUE, Commits, "docker")}

File(x, y, z) == dep :> x @@ src :> y @@ bin :> z
Text(x, y) == File(x, y, Absent)

\* The dependency changes late and sources with every commit; the branch
\* deletes an empty file, main changes a binary file and goes back to the rest.
MCTrees ==
  {c1 :> Text(1, 1) @@ c2 :> Text(1, 2) @@ c3 :> Text(2, 1) @@ d :> Text(2, 1) @@ m :> Text(2, 2)
     @@ l1 :> Text(1, Absent) @@ l2 :> Text(1, 1),
   c1 :> Text(1, EmptyFile) @@ c2 :> File(2, 2, 1) @@ c3 :> File(1, EmptyFile, 2)
     @@ d :> Text(1, Absent) @@ m :> File(2, 2, 1) @@ l1 :> Text(1, 1) @@ l2 :> Text(2, Absent)}

Symmetry == Permutations(Builds)

MCStageDeps == "install" :> {dep}

MCChain == <<"gitArchive", "install", "gitCache", "gitLatestPatch", "imageSpec">>
=============================================================================
