---------------------------- MODULE MCImagePlan ----------------------------
(* Configurations of up to three images; r is an image of a registry.     *)
EXTENDS ImagePlan, TLC

CONSTANTS a, b, c, r, amd, arm

Plain ==
  [defined |-> {a, b, c}, staged |-> {}, artifact |-> {}, from |-> [i \in Images |-> IF i = r THEN a ELSE r],
   deps |-> [i \in Images |-> {}], final |-> {a, b, c}, onlyFinal |-> FALSE,
   include |-> {}, exclude |-> {}, platform |-> [i \in Images |-> {}], common |-> {}, forced |-> {},
   parallel |-> TRUE, stages |-> <<>>]

With(f, g) == [i \in Images |-> IF i \in DOMAIN g THEN g[i] ELSE f[i]]

\* Graphs of three images; c may be missing, so that what is built from it is
\* built from a registry and what depends on it is refused.
Graphs ==
  {[Plain EXCEPT !.from = With(@, f), !.deps = With(@, d), !.artifact = art, !.defined = def,
                 !.final = {a}, !.onlyFinal = TRUE, !.parallel = art = {}]
     : f \in {f \in [{a, b, c} -> {a, b, c, r}] : \A i \in {a, b, c} : f[i] # i},
       d \in {d \in [{a, b, c} -> SUBSET {a, b, c}] : Cardinality(d[a]) + Cardinality(d[b]) + Cardinality(d[c]) <= 3},
       art \in {{}, {a}}, def \in {{a, b, c}, {a, b}}}

Stage(n, base, copies) == [named |-> n, base |-> base, copies |-> copies]
First == {Stage(n, 0, x) : n \in BOOLEAN, x \in {<<>>, <<0>>}}
Second == {Stage(n, f, x) : n \in BOOLEAN, f \in {0, 1}, x \in {<<>>, <<1>>, <<0, 1>>}}
Third == {Stage(TRUE, f, x) : f \in {0, 1, 2}, x \in {<<>>, <<1>>, <<2>>, <<1, 2>>, <<1, 0>>}}
Chain4 == {<<Stage(TRUE, 0, <<>>), Stage(TRUE, 0, x), Stage(FALSE, 0, y), Stage(TRUE, 0, z)>>
             : x \in {<<>>, <<1>>}, y \in {<<>>, <<1>>, <<2>>, <<1, 2>>},
               z \in {<<1>>, <<2>>, <<3>>, <<1, 2>>, <<1, 3>>, <<3, 2>>, <<3, 1, 2>>}}
Proper(s) == \A k \in DOMAIN s : s[k].base # 0 => s[s[k].base].named

\* A Dockerfile of three or four stages, alone, needed by and needing others.
Dockerfiles ==
  {[Plain EXCEPT !.staged = {a}, !.deps = With(@, d), !.stages = s, !.parallel = p]
     : d \in {b :> {a}, a :> {b}}, p \in BOOLEAN,
       s \in {t \in (First \X Second \X Third) \cup Chain4 : Proper(t)}}

TwoPlatforms ==
  {[Plain EXCEPT !.defined = {a, b}, !.deps = With(@, a :> d), !.from = With(@, a :> f),
                 !.platform = With(@, q), !.common = m, !.forced = n, !.staged = {a, b} \ {i \in {a} : f = b},
                 !.stages = <<Stage(TRUE, 0, <<>>), Stage(TRUE, 1, <<>>)>>]
     : d \in {{}, {b}}, f \in {b, r}, q \in [{a, b} -> SUBSET Platforms],
       m \in SUBSET Platforms, n \in SUBSET Platforms}

Literal(i) == [literal |-> TRUE, names |-> {i}]
Glob(s) == [literal |-> FALSE, names |-> s]
Selections ==
  {[Plain EXCEPT !.deps = With(@, c :> {b}), !.include = i, !.exclude = e, !.onlyFinal = o, !.final = {a, c}]
     : i \in SUBSET {Literal(a), Literal(b), Glob({a, c}), Glob({r})},
       e \in SUBSET {Literal(a), Glob({b}), Glob({a, c})}, o \in BOOLEAN}

MCConfigs == Graphs \cup Dockerfiles \cup TwoPlatforms \cup Selections
=============================================================================
