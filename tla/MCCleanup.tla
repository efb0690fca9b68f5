----------------------------- MODULE MCCleanup ------------------------------
(***************************************************************************)
(* Four stages: app is built on base and both import from src; idx is an   *)
(* index of app.  The stage new is built on base too and depends on app.   *)
(***************************************************************************)
EXTENDS Cleanup, TLC

MCStages == {"base", "src", "app", "idx", "new"}
MCParent == [s \in MCStages |-> IF s \in {"app", "new"} THEN "base" ELSE "none"]
MCImports == [s \in MCStages |-> IF s \in {"app", "base"} THEN {"sum"} ELSE {}]
MCDependencies == [s \in MCStages |-> IF s = "new" THEN {"app"} ELSE {}]
MCPlatforms == [s \in MCStages |-> IF s = "idx" THEN {"app"} ELSE {}]
MCImportMetadata == "i1" :> [source |-> "src", checksum |-> "sum"]

Old == MCStages \ {"new"}
Holds(stages, tag, record, links, copies) ==
    [repo |-> stages, points |-> "latest" :> tag, tagRecord |-> "latest" :> record,
     linked |-> links, final |-> copies]

\* A tag that names its stage, one that was moved, one whose stage is gone, none.
\* Of the records of an image none, one or all are of a stage that is gone; the
\* image "gone" is no more in werf.yaml.
Tagged == Holds(Old, "app", "app", {<<"app", "web", "old">>, <<"app", "web", "head">>}, {"app"})
Repositories == {
    Tagged,
    Holds(Old, "base", "src", {<<"src", "web", "old">>, <<"app", "web", "old">>}, {"app", "base"}),
    Holds(Old \ {"idx"}, "app", "idx", {<<"idx", "web", "old">>, <<"app", "web", "old">>},
          {"app", "idx"}),
    Holds(Old \ {"src"}, "none", "none", {<<"src", "web", "old">>, <<"idx", "gone", "old">>}, {"idx"})}

Clusters == {{}, {InRepo("app"), InFinal("app")}, {ByTag("latest")}, {InRepo("idx"), InFinal("base")}}

Choice(f, m, policies, build, n) ==
    [final |-> f, byManifest |-> m, kube |-> policies, git |-> policies,
     build |-> build # "none", image |-> IF build = "none" THEN "web" ELSE build, rounds |-> n]

World(o, r, cl, rec, keep) ==
    [options |-> o, cluster |-> cl, recent |-> rec, keepList |-> keep] @@ r

\* A cleanup beside a build; cleanups that are cut short and run again; both.
MCWorlds ==
    {World(Choice(f, ~f, TRUE, "web", 1), r, cl, {}, {}) :
        f \in BOOLEAN, r \in Repositories, cl \in Clusters}
    \cup
    {World(Choice(f, TRUE, k, "none", 2), r, cl, kept, {"app"} \cap kept) :
        f \in BOOLEAN, k \in BOOLEAN, r \in Repositories, cl \in Clusters,
        kept \in {{}, {"idx"}, {"app"}}}
    \cup
    {World(Choice(FALSE, TRUE, TRUE, "gone", 2), Tagged, {ByTag("latest")}, {}, {})}
=============================================================================
