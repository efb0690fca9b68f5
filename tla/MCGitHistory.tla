---------------------------- MODULE MCGitHistory ----------------------------
(***************************************************************************)
(* Four commits in a line, in a fork and in a merge; dates that follow the *)
(* history and dates that do not; two branches and a tag; two stages.      *)
(***************************************************************************)
EXTENDS GitHistory

MCCommits == 1..4

MCHistories == {
    (1 :> <<>> @@ 2 :> <<1>> @@ 3 :> <<2>> @@ 4 :> <<3>>),
    (1 :> <<>> @@ 2 :> <<1>> @@ 3 :> <<1>> @@ 4 :> <<3>>),
    (1 :> <<>> @@ 2 :> <<1>> @@ 3 :> <<1>> @@ 4 :> <<2, 3>>)}

MCCalendars == {
    (1 :> 1 @@ 2 :> 2 @@ 3 :> 3 @@ 4 :> 4),
    (1 :> 1 @@ 2 :> 3 @@ 3 :> 2 @@ 4 :> 4),
    (1 :> 3 @@ 2 :> 3 @@ 3 :> 2 @@ 4 :> 1)}

MCHeads == {
    ("b1" :> 4 @@ "b2" :> 2 @@ "t1" :> 3),
    ("b1" :> 3 @@ "b2" :> 4 @@ "t1" :> 1)}

Policy(refs, limit, images) == [refs |-> refs, limit |-> limit, images |-> images]

MCPolicies == {
    <<Policy({"b1", "b2"}, NoLimit, DefaultImages), Policy({"b1"}, NoLimit, Limit(2, NoIn, "And"))>>,
    <<Policy({"t1"}, Limit(1, NoIn, "And"), DefaultImages),
      Policy({"b1", "b2"}, Limit(1, 1, "And"), Limit(1, 2, "Or"))>>,
    <<Policy({"b1", "b2"}, Limit(1, 2, "Or"), Limit(2, 2, "And")), Policy({"t1"}, NoLimit, DefaultImages)>>,
    <<Policy({"b1", "b2"}, NoLimit, Limit(-1, NoIn, "And")), Policy({"b2"}, NoLimit, Limit(0, NoIn, "And")),
      Policy({"t1"}, NoLimit, DefaultImages)>>,
    <<>>}

MCTaggerDate == "t1" :> NoDate
=============================================================================
