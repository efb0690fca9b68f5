-------------------------- MODULE ImagePlanProofs --------------------------
(***************************************************************************)
(* Proofs about ImagePlan, for any configuration, number of images and     *)
(* platforms, and any Dockerfile that is planned as it is written: the     *)
(* plan has each image that is needed once, and every image is processed   *)
(* after the images it is made from.                                       *)
(***************************************************************************)
EXTENDS ImagePlan, FiniteSetTheorems, WellFoundedInduction, TLAPS

-----------------------------------------------------------------------------
(* Sequences of sequences.                                                 *)

LEMMA LeastNatural ==
  ASSUME NEW S \in SUBSET Nat, S # {}
  PROVE  \E n \in S : \A m \in S : n <= m
<1> DEFINE Less == {p \in Nat \X Nat : p[1] < p[2]}
<1>1. IsWellFoundedOn(Less, Nat)
  BY NatLessThanWellFounded, Zenon DEF OpToRel
<1>2. PICK n \in S : \A m \in S : ~(<<m, n>> \in Less)
  BY <1>1, WFMin, Zenon
<1>3. \A m \in S : ~(m < n)
  BY <1>2
<1> QED
  BY <1>3

LEMMA FunctionIsSeq ==
  ASSUME NEW T, NEW n \in Nat, NEW f \in [1..n -> T]
  PROVE  f \in Seq(T) /\ Len(f) = n
  OBVIOUS

LEMMA Concatenated ==
  ASSUME NEW T, NEW s \in Seq(T), NEW t \in Seq(T)
  PROVE  /\ s \o t \in Seq(T) /\ Len(s) \in Nat /\ Len(t) \in Nat
         /\ Len(s \o t) = Len(s) + Len(t)
         /\ \A k \in 1..(Len(s) + Len(t)) :
              (s \o t)[k] = IF k <= Len(s) THEN s[k] ELSE t[k - Len(s)]
  OBVIOUS

\* The sequence f is the first m sequences of ss, one after another: its place x
\* is place col[x] of sequence row[x].
Flattens(f, ss, m, row, col) ==
  /\ row \in [1..Len(f) -> 1..m] /\ col \in [1..Len(f) -> Nat]
  /\ \A x \in 1..Len(f) : col[x] \in 1..Len(ss[row[x]]) /\ f[x] = ss[row[x]][col[x]]
  /\ \A x, y \in 1..Len(f) : x < y => row[x] < row[y] \/ (row[x] = row[y] /\ col[x] < col[y])
  /\ \A n \in 1..m : \A k \in 1..Len(ss[n]) : \E x \in 1..Len(f) : row[x] = n /\ col[x] = k

\* The equation of FlattenSeq.
FlatAt(g, ss, i) == g[i] = IF i = 1 THEN ss[i] ELSE g[i - 1] \o ss[i]

LEMMA FlatUpTo ==
  ASSUME NEW E, NEW ss \in Seq(Seq(E)), NEW m \in 1..Len(ss)
  PROVE  \E g \in [1..m -> Seq(E)] : \A i \in 1..m : FlatAt(g, ss, i)
<1> DEFINE Has(n) == \E g \in [1..n -> Seq(E)] : \A i \in 1..n : FlatAt(g, ss, i)
           Bad == {n \in 1..Len(ss) : ~Has(n)}
<1>0. \A n \in 1..Len(ss) : ss[n] \in Seq(E)
  OBVIOUS
<1>1. Has(1)
  <2> DEFINE g == [i \in 1..1 |-> ss[1]]
  <2>1. g \in [1..1 -> Seq(E)] /\ \A i \in 1..1 : FlatAt(g, ss, i)
    BY <1>0 DEF FlatAt
  <2> QED
    BY <2>1
<1>2. ASSUME NEW n \in 1..Len(ss), n + 1 \in 1..Len(ss), Has(n) PROVE Has(n + 1)
  <2>1. PICK h \in [1..n -> Seq(E)] : \A i \in 1..n : FlatAt(h, ss, i)
    BY <1>2
  <2> DEFINE g == [i \in 1..(n + 1) |-> IF i = n + 1 THEN h[n] \o ss[i] ELSE h[i]]
  <2>2. h[n] \o ss[n + 1] \in Seq(E)
    BY <1>0, <1>2
  <2>3. g \in [1..(n + 1) -> Seq(E)]
    BY <2>2
  <2>4. ASSUME NEW i \in 1..(n + 1) PROVE FlatAt(g, ss, i)
    <3>1. CASE i = n + 1
      <4>1. n \in 1..(n + 1) /\ n # n + 1 /\ i - 1 = n /\ i # 1
        BY <3>1
      <4>2. g[n] = h[n] /\ g[i] = h[n] \o ss[i]
        BY <3>1, <4>1
      <4> QED
        BY <4>1, <4>2 DEF FlatAt
    <3>2. CASE i # n + 1
      <4>1. i \in 1..n /\ (i # 1 => i - 1 \in 1..n) /\ FlatAt(h, ss, i)
        BY <2>1, <3>2
      <4>2. g[i] = h[i] /\ (i # 1 => g[i - 1] = h[i - 1])
        BY <4>1
      <4> QED
        BY <4>1, <4>2 DEF FlatAt
    <3> QED
      BY <3>1, <3>2
  <2> QED
    BY <2>3, <2>4
<1> HIDE DEF Has
<1>3. ASSUME Bad # {} PROVE FALSE
  <2>0. Bad \in SUBSET Nat
    OBVIOUS
  <2>1. PICK n \in Bad : \A k \in Bad : n <= k
    BY <1>3, <2>0, LeastNatural
  <2>2. n # 1
    BY <1>1, <2>1
  <2>3. n - 1 \in 1..Len(ss) /\ n - 1 \notin Bad /\ n = (n - 1) + 1
    BY <2>1, <2>2
  <2>4. Has((n - 1) + 1)
    BY <1>2, <2>1, <2>3
  <2> QED
    BY <2>1, <2>3, <2>4
<1> QED
  BY <1>3 DEF Has

\* What FlattenSeq computes.
LEMMA FlattenIs ==
  ASSUME NEW E, NEW ss \in Seq(Seq(E)), ss # <<>>
  PROVE  \E g \in [1..Len(ss) -> Seq(E)] :
           /\ \A i \in 1..Len(ss) : FlatAt(g, ss, i)
           /\ FlattenSeq(ss) = g[Len(ss)]
<1>1. Len(ss) \in 1..Len(ss)
  OBVIOUS
<1> DEFINE Body(g) == [i \in 1..Len(ss) |-> IF i = 1 THEN ss[i] ELSE g[i - 1] \o ss[i]]
           f == CHOOSE g : g = Body(g)
<1>2. PICK g \in [1..Len(ss) -> Seq(E)] : \A i \in 1..Len(ss) : FlatAt(g, ss, i)
  BY <1>1, FlatUpTo
<1>3. g = Body(g)
  BY <1>2 DEF FlatAt
<1>4. f = Body(f)
  BY <1>3
<1>5. FlattenSeq(ss) = f[Len(ss)]
  BY <1>1 DEF FlattenSeq
<1>6. \A i \in 1..Len(ss) : FlatAt(f, ss, i)
  BY <1>4 DEF FlatAt
<1> HIDE DEF f
<1>7. \A i \in 1..Len(ss) : f[i] = g[i]
  <2> DEFINE Bad == {i \in 1..Len(ss) : f[i] # g[i]}
  <2>1. SUFFICES ASSUME Bad # {} PROVE FALSE
    OBVIOUS
  <2>0. Bad \in SUBSET Nat
    OBVIOUS
  <2>2. PICK n \in Bad : \A k \in Bad : n <= k
    BY <2>0, <2>1, LeastNatural
  <2>3. n # 1
    BY <1>2, <1>6, <2>2 DEF FlatAt
  <2>4. n - 1 \in 1..Len(ss) /\ n - 1 \notin Bad
    BY <2>2, <2>3
  <2> QED
    BY <1>2, <1>6, <2>2, <2>3, <2>4 DEF FlatAt
<1> QED
  BY <1>1, <1>2, <1>5, <1>7

LEMMA FlattensNext ==
  ASSUME NEW E, NEW ss \in Seq(Seq(E)), NEW m \in Nat, m + 1 \in 1..Len(ss),
         NEW f \in Seq(E), NEW row, NEW col, Flattens(f, ss, m, row, col)
  PROVE  \E r, c : Flattens(f \o ss[m + 1], ss, m + 1, r, c)
<1> DEFINE t == ss[m + 1]
           f2 == f \o t
           a == Len(f)
           b == Len(t)
           r == [x \in 1..(a + b) |-> IF x <= a THEN row[x] ELSE m + 1]
           c == [x \in 1..(a + b) |-> IF x <= a THEN col[x] ELSE x - a]
<1>1. /\ t \in Seq(E) /\ a \in Nat /\ b \in Nat /\ f2 \in Seq(E) /\ Len(f2) = a + b
      /\ \A x \in 1..(a + b) : f2[x] = IF x <= a THEN f[x] ELSE t[x - a]
  OBVIOUS
<1>2. ASSUME NEW x \in 1..(a + b), x <= a
      PROVE  /\ r[x] = row[x] /\ c[x] = col[x] /\ row[x] \in 1..m /\ col[x] \in Nat
             /\ c[x] \in 1..Len(ss[r[x]]) /\ f2[x] = ss[r[x]][c[x]]
  BY <1>1, <1>2 DEF Flattens
<1>3. ASSUME NEW x \in 1..(a + b), ~(x <= a)
      PROVE  /\ r[x] = m + 1 /\ c[x] = x - a /\ x - a \in 1..b
             /\ c[x] \in 1..Len(ss[r[x]]) /\ f2[x] = ss[r[x]][c[x]]
  BY <1>1, <1>3
<1>4. r \in [1..(a + b) -> 1..(m + 1)] /\ c \in [1..(a + b) -> Nat]
  <2>1. ASSUME NEW x \in 1..(a + b) PROVE r[x] \in 1..(m + 1) /\ c[x] \in Nat
    <3>1. CASE x <= a
      <4>1. r[x] \in 1..m /\ c[x] \in Nat
        BY <1>2, <3>1
      <4> QED
        BY <4>1
    <3>2. CASE ~(x <= a)
      <4>1. r[x] = m + 1 /\ c[x] \in 1..b
        BY <1>3, <3>2
      <4> QED
        BY <1>1, <4>1
    <3> QED
      BY <3>1, <3>2
  <2> QED
    BY <2>1
<1>5. ASSUME NEW x \in 1..(a + b), NEW y \in 1..(a + b), x < y
      PROVE  r[x] < r[y] \/ (r[x] = r[y] /\ c[x] < c[y])
  <2>1. CASE y <= a
    <3>1. x <= a /\ x \in 1..a /\ y \in 1..a
      BY <1>1, <1>5, <2>1
    <3>2. row[x] < row[y] \/ (row[x] = row[y] /\ col[x] < col[y])
      BY <1>5, <3>1 DEF Flattens
    <3> QED
      BY <1>2, <2>1, <3>1, <3>2
  <2>2. CASE ~(y <= a) /\ x <= a
    <3>1. r[x] \in 1..m /\ r[y] = m + 1
      BY <1>2, <1>3, <2>2
    <3> QED
      BY <3>1
  <2>3. CASE ~(x <= a)
    <3>1. ~(y <= a)
      BY <1>1, <1>5, <2>3
    <3> QED
      BY <1>1, <1>3, <1>5, <2>3, <3>1
  <2> QED
    BY <2>1, <2>2, <2>3
<1>6. ASSUME NEW n \in 1..(m + 1), NEW k \in 1..Len(ss[n])
      PROVE  \E x \in 1..(a + b) : r[x] = n /\ c[x] = k
  <2>1. CASE n = m + 1
    <3>1. a + k \in 1..(a + b) /\ ~(a + k <= a) /\ (a + k) - a = k
      BY <1>1, <2>1
    <3> QED
      BY <1>3, <2>1, <3>1
  <2>2. CASE n # m + 1
    <3>1. n \in 1..m
      BY <2>2
    <3>2. PICK x \in 1..a : row[x] = n /\ col[x] = k
      BY <3>1 DEF Flattens
    <3>3. x \in 1..(a + b) /\ x <= a
      BY <1>1
    <3> QED
      BY <1>2, <3>2, <3>3
  <2> QED
    BY <2>1, <2>2
<1> HIDE DEF r, c
<1>7. Flattens(f2, ss, m + 1, r, c)
  <2>1. \A x \in 1..(a + b) : c[x] \in 1..Len(ss[r[x]]) /\ f2[x] = ss[r[x]][c[x]]
    BY <1>2, <1>3
  <2>2. Len(f2) = a + b
    BY <1>1
  <2> HIDE DEF f2, a, b, t
  <2> QED
    BY <1>4, <1>5, <1>6, <2>1, <2>2 DEF Flattens
<1> QED
  BY <1>7

\* FlattenSeq loses nothing and keeps the order.
LEMMA FlattenPlaces ==
  ASSUME NEW E, NEW ss \in Seq(Seq(E))
  PROVE  /\ FlattenSeq(ss) \in Seq(E)
         /\ \E row, col : Flattens(FlattenSeq(ss), ss, Len(ss), row, col)
<1>1. CASE ss = <<>>
  <2>1. FlattenSeq(ss) = <<>> /\ Len(ss) = 0
    BY <1>1 DEF FlattenSeq
  <2> DEFINE r == [x \in 1..0 |-> 0]
  <2>2. r \in [1..0 -> 1..0] /\ r \in [1..0 -> Nat]
    OBVIOUS
  <2>3. Flattens(<<>>, ss, 0, r, r)
    BY <2>2 DEF Flattens
  <2> QED
    BY <2>1, <2>3
<1>2. CASE ss # <<>>
  <2>1. PICK g \in [1..Len(ss) -> Seq(E)] : /\ \A i \in 1..Len(ss) : FlatAt(g, ss, i)
                                            /\ FlattenSeq(ss) = g[Len(ss)]
    BY <1>2, FlattenIs
  <2>0. \A n \in 1..Len(ss) : g[n] \in Seq(E) /\ n \in Nat
    <3>1. \A n \in 1..Len(ss) : g[n] \in Seq(E)
      BY <2>1, Zenon
    <3>2. \A n \in 1..Len(ss) : n \in Nat
      OBVIOUS
    <3> QED
      BY <3>1, <3>2, Zenon
  <2> DEFINE Has(n) == \E row, col : Flattens(g[n], ss, n, row, col)
             Bad == {n \in 1..Len(ss) : ~Has(n)}
  <2>2. Len(ss) \in 1..Len(ss) /\ 1 \in 1..Len(ss)
    BY <1>2
  <2>3. Has(1)
    <3> DEFINE b == Len(ss[1])
               r == [x \in 1..b |-> 1]
               c == [x \in 1..b |-> x]
    <3>1. g[1] = ss[1] /\ ss[1] \in Seq(E) /\ b \in Nat
      <4>1. FlatAt(g, ss, 1) /\ ss[1] \in Seq(E)
        BY <2>1, <2>2
      <4> QED
        BY <4>1 DEF FlatAt
    <3>2. r \in [1..b -> 1..1] /\ c \in [1..b -> Nat]
      BY <3>1
    <3>3. Flattens(ss[1], ss, 1, r, c)
      <4>1. \A x \in 1..b : r[x] = 1 /\ c[x] = x
        OBVIOUS
      <4> HIDE DEF r, c
      <4>2. \A x \in 1..b : c[x] \in 1..Len(ss[r[x]]) /\ ss[1][x] = ss[r[x]][c[x]]
        BY <3>1, <4>1
      <4>3. \A n \in 1..1 : \A k \in 1..Len(ss[n]) : \E x \in 1..b : r[x] = n /\ c[x] = k
        BY <3>1, <4>1
      <4> QED
        BY <3>1, <3>2, <4>1, <4>2, <4>3 DEF Flattens
    <3> QED
      BY <3>1, <3>3
  <2>4. ASSUME NEW n \in 1..Len(ss), n + 1 \in 1..Len(ss), Has(n) PROVE Has(n + 1)
    <3>1. g[n + 1] = g[n] \o ss[n + 1] /\ g[n] \in Seq(E) /\ n \in Nat
      <4>1. FlatAt(g, ss, n + 1) /\ n + 1 # 1 /\ (n + 1) - 1 = n
        BY <2>1, <2>4
      <4>2. g[n + 1] = g[(n + 1) - 1] \o ss[n + 1]
        BY <4>1 DEF FlatAt
      <4>3. g[n] \in Seq(E) /\ n \in Nat
        BY <2>0
      <4> QED
        BY <4>1, <4>2, <4>3
    <3> QED
      BY <2>4, <3>1, FlattensNext
  <2> HIDE DEF Has
  <2>5. ASSUME Bad # {} PROVE FALSE
    <3>0. Bad \in SUBSET Nat
      OBVIOUS
    <3>1. PICK n \in Bad : \A k \in Bad : n <= k
      BY <2>5, <3>0, LeastNatural
    <3>2. n # 1
      BY <2>3, <3>1
    <3>3. n - 1 \in 1..Len(ss) /\ n - 1 \notin Bad /\ n = (n - 1) + 1
      BY <3>1, <3>2
    <3>4. Has((n - 1) + 1)
      BY <2>4, <3>1, <3>3
    <3> QED
      BY <3>1, <3>3, <3>4
  <2> QED
    BY <2>1, <2>2, <2>5 DEF Has
<1> QED
  BY <1>1, <1>2

-----------------------------------------------------------------------------
(* The builder: sets of images and their merge.                            *)

\* The sequence, or the sets, have each element of X once and nothing else.
OnceIn(s, X) ==
  /\ s \in Seq(X)
  /\ \A x \in X : \E n \in 1..Len(s) : s[n] = x
  /\ \A m, n \in 1..Len(s) : s[m] = s[n] => m = n

OnceInSets(ss, X) ==
  /\ ss \in Seq(Seq(X))
  /\ \A x \in X : \E n \in 1..Len(ss) : \E k \in 1..Len(ss[n]) : ss[n][k] = x
  /\ \A m, n \in 1..Len(ss) : \A k \in 1..Len(ss[m]), l \in 1..Len(ss[n]) :
       ss[m][k] = ss[n][l] => m = n /\ k = l

NonEmptySets(ss) == \A n \in 1..Len(ss) : Len(ss[n]) # 0

\* What an image is made from comes before it, in an earlier set.
NeedsImage(y, x) == Meant(x) \in Needs(y)

InOrder(s) == \A m, n \in 1..Len(s) : NeedsImage(s[n], s[m]) => m < n

SetsInOrder(ss) ==
  \A m, n \in 1..Len(ss) : \A k \in 1..Len(ss[m]), l \in 1..Len(ss[n]) :
    NeedsImage(ss[n][l], ss[m][k]) => m < n

LEMMA OnceCounts ==
  ASSUME NEW X, NEW s, OnceIn(s, X)
  PROVE  Len(s) \in Nat /\ Len(s) = Cardinality(X) /\ ToSet(s) = X
<1>1. s \in [1..Len(s) -> X] /\ Len(s) \in Nat
  BY DEF OnceIn
<1>2. s \in Bijection(1..Len(s), X)
  BY <1>1 DEF OnceIn, Bijection, Injection, Surjection, IsInjective
<1>3. ExistsBijection(1..Len(s), X)
  BY <1>2 DEF ExistsBijection
<1>4. Cardinality(X) = Len(s)
  BY <1>1, <1>3, FS_CountingElements
<1>5. ToSet(s) = X
  BY <1>1 DEF OnceIn, ToSet
<1> QED
  BY <1>1, <1>4, <1>5

LEMMA FlattenOnce ==
  ASSUME NEW X, NEW ss, OnceInSets(ss, X)
  PROVE  /\ OnceIn(FlattenSeq(ss), X)
         /\ SetsInOrder(ss) => InOrder(FlattenSeq(ss))
<1> DEFINE f == FlattenSeq(ss)
<1>1. f \in Seq(X) /\ \E row, col : Flattens(f, ss, Len(ss), row, col)
  BY FlattenPlaces DEF OnceInSets
<1> HIDE DEF f
<1>2. PICK row, col : Flattens(f, ss, Len(ss), row, col)
  BY <1>1
<1>0. Len(f) \in Nat /\ Len(ss) \in Nat
  BY <1>1 DEF OnceInSets
<1>3. \A x \in 1..Len(f) : /\ row[x] \in 1..Len(ss) /\ col[x] \in 1..Len(ss[row[x]])
                           /\ f[x] = ss[row[x]][col[x]]
  BY <1>2 DEF Flattens
<1>4. \A x, y \in 1..Len(f) : x < y => row[x] < row[y] \/ (row[x] = row[y] /\ col[x] < col[y])
  BY <1>2 DEF Flattens
<1>5. ASSUME NEW x \in X PROVE \E n \in 1..Len(f) : f[n] = x
  <2>1. PICK n \in 1..Len(ss) : \E k \in 1..Len(ss[n]) : ss[n][k] = x
    BY DEF OnceInSets
  <2>2. PICK k \in 1..Len(ss[n]) : ss[n][k] = x
    BY <2>1
  <2>3. \E y \in 1..Len(f) : row[y] = n /\ col[y] = k
    BY <1>2 DEF Flattens
  <2> QED
    BY <1>3, <2>2, <2>3
<1>6. ASSUME NEW x \in 1..Len(f), NEW y \in 1..Len(f), f[x] = f[y] PROVE x = y
  <2>0. \A m, n \in 1..Len(ss) : \A k \in 1..Len(ss[m]), l \in 1..Len(ss[n]) :
          ss[m][k] = ss[n][l] => m = n /\ k = l
    BY DEF OnceInSets
  <2>1. row[x] = row[y] /\ col[x] = col[y]
    <3>1. /\ row[x] \in 1..Len(ss) /\ col[x] \in 1..Len(ss[row[x]])
          /\ row[y] \in 1..Len(ss) /\ col[y] \in 1..Len(ss[row[y]])
          /\ ss[row[x]][col[x]] = ss[row[y]][col[y]]
      BY <1>3, <1>6
    <3> DEFINE m == row[x]
               n == row[y]
               k == col[x]
               l == col[y]
    <3> HIDE DEF m, n, k, l
    <3>2. m \in 1..Len(ss) /\ k \in 1..Len(ss[m]) /\ n \in 1..Len(ss) /\ l \in 1..Len(ss[n])
          /\ ss[m][k] = ss[n][l]
      BY <3>1 DEF m, n, k, l
    <3>3. m = n /\ k = l
      BY <2>0, <3>2
    <3> QED
      BY <3>3 DEF m, n, k, l
  <2>2. row[x] \in Int /\ col[x] \in Int
    BY <1>3
  <2> QED
    BY <1>0, <1>4, <2>1, <2>2
<1>7. OnceIn(f, X)
  BY <1>1, <1>5, <1>6 DEF OnceIn
<1>8. ASSUME SetsInOrder(ss), NEW x \in 1..Len(f), NEW y \in 1..Len(f), NeedsImage(f[y], f[x])
      PROVE  x < y
  <2>0. \A m, n \in 1..Len(ss) : \A k \in 1..Len(ss[m]), l \in 1..Len(ss[n]) :
          NeedsImage(ss[n][l], ss[m][k]) => m < n
    BY <1>8 DEF SetsInOrder
  <2>1. row[x] < row[y]
    <3>1. /\ row[x] \in 1..Len(ss) /\ col[x] \in 1..Len(ss[row[x]])
          /\ row[y] \in 1..Len(ss) /\ col[y] \in 1..Len(ss[row[y]])
          /\ NeedsImage(ss[row[y]][col[y]], ss[row[x]][col[x]])
      BY <1>3, <1>8
    <3> QED
      BY <2>0, <3>1, Zenon
  <2>2. row[x] \in Int /\ row[y] \in Int
    BY <1>3
  <2> QED
    BY <1>0, <1>4, <2>1, <2>2
<1> QED
  BY <1>7, <1>8 DEF f, InOrder

\* What MergeImagesSets makes of the sets old and new, from the set after cur.
OldLen(old, n) == IF n <= Len(old) THEN Len(old[n]) ELSE 0

Merged(old, new, cur, all) ==
  /\ Len(all) = IF cur + Len(new) > Len(old) THEN cur + Len(new) ELSE Len(old)
  /\ \A n \in 1..Len(all) : \A k \in 1..Len(all[n]) :
       \/ n <= Len(old) /\ k <= Len(old[n]) /\ all[n][k] = old[n][k]
       \/ /\ n - cur \in 1..Len(new) /\ k - OldLen(old, n) \in 1..Len(new[n - cur])
          /\ all[n][k] = new[n - cur][k - OldLen(old, n)]
  /\ \A n \in 1..Len(old) : \A k \in 1..Len(old[n]) :
       n \in 1..Len(all) /\ k \in 1..Len(all[n]) /\ all[n][k] = old[n][k]
  /\ \A n \in 1..Len(new) : \A k \in 1..Len(new[n]) :
       /\ cur + n \in 1..Len(all) /\ OldLen(old, cur + n) + k \in 1..Len(all[cur + n])
       /\ all[cur + n][OldLen(old, cur + n) + k] = new[n][k]

LEMMA MergedSets ==
  ASSUME NEW E, NEW b, b.imagesSets \in Seq(Seq(E)), b.curSetInd \in Nat,
         b.curSetInd <= Len(b.imagesSets), NEW new \in Seq(Seq(E))
  PROVE  /\ MergeImagesSets(b, new).imagesSets \in Seq(Seq(E))
         /\ Merged(b.imagesSets, new, b.curSetInd, MergeImagesSets(b, new).imagesSets)
<1> DEFINE old == b.imagesSets
           cur == b.curSetInd
           upTo == cur + Len(new)
           size == IF upTo > Len(old) THEN upTo ELSE Len(old)
           was(n) == IF n <= Len(old) THEN old[n] ELSE <<>>
           at(n) == IF n \in (cur + 1)..upTo THEN was(n) \o new[n - cur] ELSE was(n)
           all == [n \in 1..size |-> at(n)]
<1>1. MergeImagesSets(b, new).imagesSets = all
  BY DEF MergeImagesSets
<1>2. cur \in Nat /\ Len(old) \in Nat /\ Len(new) \in Nat /\ size \in Nat /\ cur <= Len(old)
  OBVIOUS
<1>3. ASSUME NEW n \in 1..size PROVE was(n) \in Seq(E) /\ Len(was(n)) = OldLen(old, n)
  BY <1>2 DEF OldLen
<1>4. ASSUME NEW n \in 1..size, n \in (cur + 1)..upTo
      PROVE  /\ n - cur \in 1..Len(new) /\ new[n - cur] \in Seq(E)
             /\ at(n) = was(n) \o new[n - cur] /\ at(n) \in Seq(E)
             /\ Len(at(n)) = OldLen(old, n) + Len(new[n - cur])
             /\ OldLen(old, n) \in Nat /\ Len(new[n - cur]) \in Nat
             /\ \A k \in 1..Len(at(n)) : at(n)[k] = IF k <= OldLen(old, n) THEN was(n)[k]
                                                    ELSE new[n - cur][k - OldLen(old, n)]
  <2>1. n - cur \in 1..Len(new) /\ new[n - cur] \in Seq(E)
    BY <1>2, <1>4
  <2>2. at(n) = was(n) \o new[n - cur]
    BY <1>4
  <2>3. was(n) \in Seq(E) /\ Len(was(n)) = OldLen(old, n)
    BY <1>3
  <2> HIDE DEF at, was
  <2>4. /\ at(n) \in Seq(E) /\ Len(was(n)) \in Nat /\ Len(new[n - cur]) \in Nat
        /\ Len(at(n)) = Len(was(n)) + Len(new[n - cur])
        /\ \A k \in 1..(Len(was(n)) + Len(new[n - cur])) :
             at(n)[k] = IF k <= Len(was(n)) THEN was(n)[k] ELSE new[n - cur][k - Len(was(n))]
    <3> DEFINE s == was(n)
               t == new[n - cur]
    <3>1. s \in Seq(E) /\ t \in Seq(E) /\ at(n) = s \o t
      BY <2>1, <2>2, <2>3
    <3> HIDE DEF s, t
    <3>2. /\ s \o t \in Seq(E) /\ Len(s) \in Nat /\ Len(t) \in Nat
          /\ Len(s \o t) = Len(s) + Len(t)
          /\ \A k \in 1..(Len(s) + Len(t)) :
               (s \o t)[k] = IF k <= Len(s) THEN s[k] ELSE t[k - Len(s)]
      BY <3>1, Concatenated
    <3> QED
      BY <3>1, <3>2 DEF s, t
  <2> QED
    BY <2>1, <2>2, <2>3, <2>4
<1>5. ASSUME NEW n \in 1..size, n \notin (cur + 1)..upTo
      PROVE  n <= Len(old) /\ at(n) = old[n] /\ at(n) \in Seq(E)
  BY <1>2, <1>5
<1>6. \A n \in 1..size : at(n) \in Seq(E)
  BY <1>4, <1>5
<1> HIDE DEF at
<1>7. all \in Seq(Seq(E)) /\ Len(all) = size /\ \A n \in 1..size : all[n] = at(n)
  <2>1. all \in [1..size -> Seq(E)]
    BY <1>6
  <2> HIDE DEF size
  <2>2. all \in Seq(Seq(E)) /\ Len(all) = size
    BY <1>2, <2>1, FunctionIsSeq
  <2> QED
    BY <2>2
<1> HIDE DEF all
<1>8. ASSUME NEW n \in 1..size, NEW k \in 1..Len(at(n))
      PROVE  \/ n <= Len(old) /\ k <= Len(old[n]) /\ at(n)[k] = old[n][k]
             \/ /\ n - cur \in 1..Len(new) /\ k - OldLen(old, n) \in 1..Len(new[n - cur])
                /\ at(n)[k] = new[n - cur][k - OldLen(old, n)]
  <2>1. CASE n \in (cur + 1)..upTo
    <3>0. /\ n - cur \in 1..Len(new)
          /\ Len(at(n)) = OldLen(old, n) + Len(new[n - cur])
          /\ OldLen(old, n) \in Nat /\ Len(new[n - cur]) \in Nat
          /\ at(n)[k] = IF k <= OldLen(old, n) THEN was(n)[k] ELSE new[n - cur][k - OldLen(old, n)]
      BY <1>4, <2>1
    <3>1. CASE k <= OldLen(old, n)
      <4>1. n <= Len(old)
        BY <1>2, <3>1 DEF OldLen
      <4> QED
        BY <3>0, <3>1, <4>1 DEF OldLen
    <3>2. CASE ~(k <= OldLen(old, n))
      <4>1. k - OldLen(old, n) \in 1..Len(new[n - cur])
        BY <3>0, <3>2
      <4> QED
        BY <3>0, <3>2, <4>1
    <3> QED
      BY <3>1, <3>2
  <2>2. CASE n \notin (cur + 1)..upTo
    BY <1>2, <1>5, <2>2
  <2> QED
    BY <2>1, <2>2
<1>9. ASSUME NEW n \in 1..Len(old), NEW k \in 1..Len(old[n])
      PROVE  n \in 1..size /\ k \in 1..Len(at(n)) /\ at(n)[k] = old[n][k]
  <2>1. n \in 1..size /\ OldLen(old, n) = Len(old[n]) /\ was(n) = old[n] /\ old[n] \in Seq(E)
    BY <1>2 DEF OldLen
  <2>2. CASE n \in (cur + 1)..upTo
    <3>0. /\ Len(at(n)) = OldLen(old, n) + Len(new[n - cur])
          /\ OldLen(old, n) \in Nat /\ Len(new[n - cur]) \in Nat
          /\ \A j \in 1..Len(at(n)) : at(n)[j] = IF j <= OldLen(old, n) THEN was(n)[j]
                                                 ELSE new[n - cur][j - OldLen(old, n)]
      BY <1>4, <2>1, <2>2
    <3>1. k <= OldLen(old, n) /\ k \in 1..Len(at(n))
      <4> DEFINE o == OldLen(old, n)
                 l == Len(new[n - cur])
                 a == Len(at(n))
      <4>1. k \in 1..o /\ a = o + l /\ o \in Nat /\ l \in Nat
        BY <2>1, <3>0
      <4> HIDE DEF o, l, a
      <4>2. k <= o /\ k \in 1..a
        BY <4>1
      <4> QED
        BY <4>2 DEF o, a
    <3>2. at(n)[k] = was(n)[k]
      BY <3>0, <3>1
    <3> QED
      BY <2>1, <3>1, <3>2
  <2>3. CASE n \notin (cur + 1)..upTo
    BY <1>5, <2>1, <2>3
  <2> QED
    BY <2>2, <2>3
<1>10. ASSUME NEW n \in 1..Len(new), NEW k \in 1..Len(new[n])
       PROVE  /\ cur + n \in 1..size /\ OldLen(old, cur + n) + k \in 1..Len(at(cur + n))
              /\ at(cur + n)[OldLen(old, cur + n) + k] = new[n][k]
  <2>1. cur + n \in 1..size /\ cur + n \in (cur + 1)..upTo /\ (cur + n) - cur = n
    <3> DEFINE c == cur
               l == Len(new)
               o == Len(old)
    <3>1. c \in Nat /\ l \in Nat /\ o \in Nat /\ n \in 1..l
      BY <1>2
    <3> HIDE DEF c, l, o
    <3>2. /\ c + n \in 1..(IF c + l > o THEN c + l ELSE o)
          /\ c + n \in (c + 1)..(c + l) /\ (c + n) - c = n
      BY <3>1
    <3> QED
      BY <3>2 DEF c, l, o
  <2> DEFINE o == OldLen(old, cur + n)
  <2>2. /\ Len(at(cur + n)) = o + Len(new[n]) /\ o \in Nat /\ Len(new[n]) \in Nat
        /\ \A j \in 1..Len(at(cur + n)) : at(cur + n)[j] = IF j <= o THEN was(cur + n)[j] ELSE new[n][j - o]
    BY <1>4, <2>1
  <2> HIDE DEF o
  <2>3. o + k \in 1..Len(at(cur + n)) /\ ~(o + k <= o) /\ (o + k) - o = k
    BY <2>2
  <2>4. at(cur + n)[o + k] = new[n][k]
    BY <2>2, <2>3
  <2> QED
    BY <2>1, <2>3, <2>4 DEF o
<1> HIDE DEF size
<1>11. Merged(old, new, cur, all)
  <2>1. Len(all) = IF cur + Len(new) > Len(old) THEN cur + Len(new) ELSE Len(old)
    BY <1>7 DEF size
  <2>2. \A n \in 1..Len(all) : \A k \in 1..Len(all[n]) :
          \/ n <= Len(old) /\ k <= Len(old[n]) /\ all[n][k] = old[n][k]
          \/ /\ n - cur \in 1..Len(new) /\ k - OldLen(old, n) \in 1..Len(new[n - cur])
             /\ all[n][k] = new[n - cur][k - OldLen(old, n)]
    BY <1>7, <1>8
  <2>3. \A n \in 1..Len(old) : \A k \in 1..Len(old[n]) :
          n \in 1..Len(all) /\ k \in 1..Len(all[n]) /\ all[n][k] = old[n][k]
    BY <1>7, <1>9
  <2>4. \A n \in 1..Len(new) : \A k \in 1..Len(new[n]) :
          /\ cur + n \in 1..Len(all) /\ OldLen(old, cur + n) + k \in 1..Len(all[cur + n])
          /\ all[cur + n][OldLen(old, cur + n) + k] = new[n][k]
    BY <1>7, <1>10
  <2> QED
    BY <2>1, <2>2, <2>3, <2>4 DEF Merged
<1> QED
  BY <1>1, <1>7, <1>11

\* The elements F are those of the first cur sets.
FirstSets(ss, cur, F) ==
  \A n \in 1..Len(ss) : \A k \in 1..Len(ss[n]) : n <= cur <=> ss[n][k] \in F

\* Nothing of X is made from something of Y, and what is the other way round is
\* made from F.
Apart(X, Y, F) == \A x \in X, y \in Y : ~NeedsImage(x, y) /\ (NeedsImage(y, x) => x \in F)

LEMMA ConcatOnce ==
  ASSUME NEW X, NEW Y, X \cap Y = {}, NEW s, OnceIn(s, X), NEW t, OnceIn(t, Y)
  PROVE  /\ OnceIn(s \o t, X \cup Y)
         /\ InOrder(s) /\ InOrder(t) /\ (\A x \in X, y \in Y : ~NeedsImage(x, y)) => InOrder(s \o t)
<1> DEFINE E == X \cup Y
           u == s \o t
           a == Len(s)
           b == Len(t)
<1>1. s \in Seq(E) /\ t \in Seq(E) /\ s \in [1..a -> X] /\ t \in [1..b -> Y]
  BY DEF OnceIn
<1>2. /\ u \in Seq(E) /\ a \in Nat /\ b \in Nat /\ Len(u) = a + b
      /\ \A k \in 1..(a + b) : u[k] = IF k <= a THEN s[k] ELSE t[k - a]
  BY <1>1, Concatenated
<1> HIDE DEF u
<1>3. ASSUME NEW k \in 1..(a + b)
      PROVE  \/ k \in 1..a /\ u[k] = s[k] /\ u[k] \in X
             \/ k > a /\ k - a \in 1..b /\ u[k] = t[k - a] /\ u[k] \in Y
  BY <1>1, <1>2
<1>4. ASSUME NEW x \in E PROVE \E k \in 1..(a + b) : u[k] = x
  <2>1. CASE x \in X
    <3>1. PICK k \in 1..a : s[k] = x
      BY <2>1 DEF OnceIn
    <3>2. k \in 1..(a + b) /\ k <= a
      BY <1>2
    <3> QED
      BY <1>2, <3>1, <3>2
  <2>2. CASE x \in Y
    <3>1. PICK k \in 1..b : t[k] = x
      BY <2>2 DEF OnceIn
    <3>2. a + k \in 1..(a + b) /\ ~(a + k <= a) /\ (a + k) - a = k
      BY <1>2
    <3>3. u[a + k] = t[k]
      BY <1>2, <3>2
    <3> QED
      BY <3>1, <3>2, <3>3
  <2> QED
    BY <2>1, <2>2
<1>5. ASSUME NEW k \in 1..(a + b), NEW l \in 1..(a + b), u[k] = u[l] PROVE k = l
  <2>1. CASE k \in 1..a /\ u[k] = s[k] /\ u[k] \in X
    <3>1. l \in 1..a /\ u[l] = s[l]
      BY <1>3, <1>5, <2>1
    <3> QED
      BY <1>5, <2>1, <3>1 DEF OnceIn
  <2>2. CASE k > a /\ k - a \in 1..b /\ u[k] = t[k - a] /\ u[k] \in Y
    <3>1. l - a \in 1..b /\ u[l] = t[l - a]
      BY <1>3, <1>5, <2>2
    <3>2. k - a = l - a
      BY <1>5, <2>2, <3>1 DEF OnceIn
    <3> QED
      BY <1>2, <3>2
  <2> QED
    BY <1>3, <2>1, <2>2
<1>6. OnceIn(u, E)
  BY <1>2, <1>4, <1>5 DEF OnceIn
<1>7. ASSUME InOrder(s), InOrder(t), \A x \in X, y \in Y : ~NeedsImage(x, y),
             NEW k \in 1..(a + b), NEW l \in 1..(a + b), NeedsImage(u[l], u[k])
      PROVE  k < l
  <2>1. CASE k \in 1..a /\ u[k] = s[k] /\ u[k] \in X
    <3>1. CASE l \in 1..a /\ u[l] = s[l] /\ u[l] \in X
      BY <1>7, <2>1, <3>1 DEF InOrder
    <3>2. CASE l > a
      BY <1>2, <2>1, <3>2
    <3> QED
      BY <1>3, <3>1, <3>2
  <2>2. CASE k > a /\ k - a \in 1..b /\ u[k] = t[k - a] /\ u[k] \in Y
    <3>1. l - a \in 1..b /\ u[l] = t[l - a]
      BY <1>3, <1>7, <2>2
    <3>2. k - a < l - a
      BY <1>7, <2>2, <3>1 DEF InOrder
    <3> QED
      BY <1>2, <3>2
  <2> QED
    BY <1>3, <2>1, <2>2
<1> QED
  BY <1>2, <1>6, <1>7 DEF u, InOrder

LEMMA MergedOnce ==
  ASSUME NEW X, NEW Y, X \cap Y = {}, NEW F \in SUBSET X, NEW old, OnceInSets(old, X),
         NEW new, OnceInSets(new, Y), NEW cur \in Nat, NEW all \in Seq(Seq(X \cup Y)),
         Merged(old, new, cur, all), FirstSets(old, cur, F)
  PROVE  /\ OnceInSets(all, X \cup Y)
         /\ FirstSets(all, cur, F)
         /\ SetsInOrder(old) /\ SetsInOrder(new) /\ Apart(X, Y, F) => SetsInOrder(all)
<1> DEFINE OldPlace(n, k) == /\ n \in 1..Len(old) /\ k \in 1..Len(old[n])
                             /\ all[n][k] = old[n][k] /\ all[n][k] \in X
           NewPlace(n, k) == /\ n - cur \in 1..Len(new) /\ n > cur
                             /\ k - OldLen(old, n) \in 1..Len(new[n - cur])
                             /\ all[n][k] = new[n - cur][k - OldLen(old, n)] /\ all[n][k] \in Y
<1>0. /\ old \in Seq(Seq(X)) /\ new \in Seq(Seq(Y)) /\ Len(all) \in Nat
      /\ Len(old) \in Nat /\ Len(new) \in Nat
      /\ \A n \in 1..Len(old) : old[n] \in Seq(X) /\ Len(old[n]) \in Nat
      /\ \A n \in 1..Len(new) : new[n] \in Seq(Y) /\ Len(new[n]) \in Nat
      /\ \A n \in 1..Len(all) : Len(all[n]) \in Nat
  BY DEF OnceInSets
<1>1. ASSUME NEW n \in 1..Len(all), NEW k \in 1..Len(all[n]) PROVE OldPlace(n, k) \/ NewPlace(n, k)
  <2>1. CASE n <= Len(old) /\ k <= Len(old[n]) /\ all[n][k] = old[n][k]
    <3>1. n \in 1..Len(old) /\ k \in 1..Len(old[n])
      BY <1>0, <2>1
    <3>2. old[n][k] \in X
      BY <1>0, <3>1
    <3> QED
      BY <2>1, <3>1, <3>2
  <2>2. CASE /\ n - cur \in 1..Len(new) /\ k - OldLen(old, n) \in 1..Len(new[n - cur])
             /\ all[n][k] = new[n - cur][k - OldLen(old, n)]
    <3> DEFINE m == n - cur
               l == k - OldLen(old, n)
    <3>1. m \in 1..Len(new) /\ l \in 1..Len(new[m]) /\ all[n][k] = new[m][l]
      BY <2>2
    <3> HIDE DEF m, l
    <3>2. new[m][l] \in Y
      BY <1>0, <3>1
    <3>3. n > cur
      BY <1>0, <2>2
    <3> QED
      BY <2>2, <3>1, <3>2, <3>3
  <2> QED
    BY <2>1, <2>2 DEF Merged
<1>2. ASSUME NEW x \in X \cup Y
      PROVE  \E n \in 1..Len(all) : \E k \in 1..Len(all[n]) : all[n][k] = x
  <2>1. CASE x \in X
    <3>1. PICK n \in 1..Len(old) : \E k \in 1..Len(old[n]) : old[n][k] = x
      BY <2>1 DEF OnceInSets
    <3>2. PICK k \in 1..Len(old[n]) : old[n][k] = x
      BY <3>1
    <3>3. n \in 1..Len(all) /\ k \in 1..Len(all[n]) /\ all[n][k] = old[n][k]
      BY DEF Merged
    <3> QED
      BY <3>2, <3>3
  <2>2. CASE x \in Y
    <3>1. PICK n \in 1..Len(new) : \E k \in 1..Len(new[n]) : new[n][k] = x
      BY <2>2 DEF OnceInSets
    <3>2. PICK k \in 1..Len(new[n]) : new[n][k] = x
      BY <3>1
    <3>3. /\ cur + n \in 1..Len(all) /\ OldLen(old, cur + n) + k \in 1..Len(all[cur + n])
          /\ all[cur + n][OldLen(old, cur + n) + k] = new[n][k]
      BY DEF Merged
    <3> QED
      BY <3>2, <3>3
  <2> QED
    BY <2>1, <2>2
<1>3. ASSUME NEW m \in 1..Len(all), NEW n \in 1..Len(all), NEW k \in 1..Len(all[m]),
             NEW l \in 1..Len(all[n]), all[m][k] = all[n][l]
      PROVE  m = n /\ k = l
  <2>1. CASE OldPlace(m, k)
    <3>1. OldPlace(n, l)
      BY <1>1, <1>3, <2>1
    <3>2. old[m][k] = old[n][l]
      BY <1>3, <2>1, <3>1
    <3>3. \A m1, n1 \in 1..Len(old) : \A k1 \in 1..Len(old[m1]), l1 \in 1..Len(old[n1]) :
            old[m1][k1] = old[n1][l1] => m1 = n1 /\ k1 = l1
      BY DEF OnceInSets
    <3>4. m \in 1..Len(old) /\ k \in 1..Len(old[m]) /\ n \in 1..Len(old) /\ l \in 1..Len(old[n])
      BY <2>1, <3>1
    <3>5. \A k1 \in 1..Len(old[m]), l1 \in 1..Len(old[n]) :
            old[m][k1] = old[n][l1] => m = n /\ k1 = l1
      BY <3>3, <3>4, Zenon
    <3> QED
      BY <3>2, <3>4, <3>5, Zenon
  <2>2. CASE NewPlace(m, k)
    <3>1. NewPlace(n, l)
      BY <1>1, <1>3, <2>2
    <3> DEFINE m1 == m - cur
               n1 == n - cur
               k1 == k - OldLen(old, m)
               l1 == l - OldLen(old, n)
    <3>2. /\ m1 \in 1..Len(new) /\ n1 \in 1..Len(new) /\ k1 \in 1..Len(new[m1]) /\ l1 \in 1..Len(new[n1])
          /\ new[m1][k1] = new[n1][l1]
      BY <1>3, <2>2, <3>1
    <3> HIDE DEF m1, n1, k1, l1
    <3>0. \A m2, n2 \in 1..Len(new) : \A k2 \in 1..Len(new[m2]), l2 \in 1..Len(new[n2]) :
            new[m2][k2] = new[n2][l2] => m2 = n2 /\ k2 = l2
      BY DEF OnceInSets
    <3>3. m1 = n1 /\ k1 = l1
      BY <3>0, <3>2, Zenon
    <3>4. m = n
      BY <1>0, <3>3 DEF m1, n1
    <3>5. OldLen(old, n) \in Int
      BY <1>0 DEF OldLen
    <3> QED
      BY <1>0, <3>3, <3>4, <3>5 DEF k1, l1
  <2> QED
    BY <1>1, <2>1, <2>2
<1>4. ASSUME NEW n \in 1..Len(all), NEW k \in 1..Len(all[n]) PROVE n <= cur <=> all[n][k] \in F
  <2>1. CASE OldPlace(n, k)
    BY <2>1 DEF FirstSets
  <2>2. CASE NewPlace(n, k)
    BY <1>0, <2>2
  <2> QED
    BY <1>1, <2>1, <2>2
<1>5. ASSUME SetsInOrder(old), SetsInOrder(new), Apart(X, Y, F),
             NEW m \in 1..Len(all), NEW n \in 1..Len(all), NEW k \in 1..Len(all[m]),
             NEW l \in 1..Len(all[n]), NeedsImage(all[n][l], all[m][k])
      PROVE  m < n
  <2>1. CASE OldPlace(m, k) /\ OldPlace(n, l)
    <3>1. NeedsImage(old[n][l], old[m][k])
      BY <1>5, <2>1
    <3> QED
      BY <1>5, <2>1, <3>1 DEF SetsInOrder
  <2>2. CASE NewPlace(m, k) /\ NewPlace(n, l)
    <3> DEFINE m1 == m - cur
               n1 == n - cur
               k1 == k - OldLen(old, m)
               l1 == l - OldLen(old, n)
    <3>2. /\ m1 \in 1..Len(new) /\ n1 \in 1..Len(new) /\ k1 \in 1..Len(new[m1]) /\ l1 \in 1..Len(new[n1])
          /\ NeedsImage(new[n1][l1], new[m1][k1])
      BY <1>5, <2>2
    <3> HIDE DEF m1, n1, k1, l1
    <3>3. m1 < n1
      BY <1>5, <3>2 DEF SetsInOrder
    <3> QED
      BY <1>0, <3>3 DEF m1, n1
  <2>3. CASE OldPlace(m, k) /\ NewPlace(n, l)
    <3>1. all[m][k] \in F
      BY <1>5, <2>3 DEF Apart
    <3>2. m <= cur
      BY <1>4, <3>1
    <3> QED
      BY <1>0, <2>3, <3>2
  <2>4. CASE NewPlace(m, k) /\ OldPlace(n, l)
    BY <1>5, <2>4 DEF Apart
  <2> QED
    BY <1>1, <2>1, <2>2, <2>3, <2>4
<1> HIDE DEF OldPlace, NewPlace
<1>6. OnceInSets(all, X \cup Y)
  BY <1>2, <1>3 DEF OnceInSets
<1>7. FirstSets(all, cur, F)
  BY <1>4 DEF FirstSets
<1>8. SetsInOrder(old) /\ SetsInOrder(new) /\ Apart(X, Y, F) => SetsInOrder(all)
  BY <1>5 DEF SetsInOrder
<1> QED
  BY <1>6, <1>7, <1>8

\* The builder holds the images X, those of the groups before, F, in its first
\* curSetInd sets.
Holds(b, X, F) ==
  /\ b.curSetInd \in Nat /\ b.nextSetInd \in Nat
  /\ OnceIn(b.images, X) /\ InOrder(b.images)
  /\ OnceInSets(b.imagesSets, X) /\ SetsInOrder(b.imagesSets) /\ NonEmptySets(b.imagesSets)
  /\ b.curSetInd <= Len(b.imagesSets)
  /\ b.nextSetInd = IF b.imagesSets = <<>> THEN 1 ELSE Len(b.imagesSets)
  /\ FirstSets(b.imagesSets, b.curSetInd, F)

LEMMA MergeHolds ==
  ASSUME NEW X, NEW Y, X \cap Y = {}, NEW F \in SUBSET X, NEW b, Holds(b, X, F),
         NEW new, OnceInSets(new, Y), SetsInOrder(new), NonEmptySets(new), new # <<>>,
         Apart(X, Y, F)
  PROVE  Holds(MergeImagesSets(b, new), X \cup Y, F)
<1> DEFINE E == X \cup Y
           m == MergeImagesSets(b, new)
           old == b.imagesSets
           cur == b.curSetInd
           all == m.imagesSets
<1>0. /\ old \in Seq(Seq(X)) /\ new \in Seq(Seq(Y)) /\ cur \in Nat /\ cur <= Len(old)
      /\ OnceInSets(old, X) /\ SetsInOrder(old)
  BY DEF Holds, OnceInSets
<1>1. old \in Seq(Seq(E)) /\ new \in Seq(Seq(E))
  <2>1. Seq(X) \subseteq Seq(E) /\ Seq(Y) \subseteq Seq(E)
    OBVIOUS
  <2> HIDE DEF E
  <2> QED
    BY <1>0, <2>1
<1>2. all \in Seq(Seq(E)) /\ Merged(old, new, cur, all)
  BY <1>0, <1>1, MergedSets
<1>3. /\ m.images = b.images \o FlattenSeq(new) /\ m.curSetInd = cur
      /\ m.nextSetInd = IF cur + Len(new) > b.nextSetInd THEN cur + Len(new) ELSE b.nextSetInd
  BY DEF MergeImagesSets
<1> HIDE DEF m
<1>4. OnceIn(m.images, E) /\ InOrder(m.images)
  <2>1. OnceIn(FlattenSeq(new), Y) /\ InOrder(FlattenSeq(new))
    BY FlattenOnce
  <2>2. OnceIn(b.images, X) /\ InOrder(b.images)
    BY DEF Holds
  <2>3. \A x \in X, y \in Y : ~NeedsImage(x, y)
    BY DEF Apart
  <2>4. /\ OnceIn(b.images \o FlattenSeq(new), X \cup Y)
        /\ InOrder(b.images \o FlattenSeq(new))
    BY <2>1, <2>2, <2>3, ConcatOnce, Zenon
  <2> QED
    BY <1>3, <2>4
<1>5. OnceInSets(all, E) /\ SetsInOrder(all) /\ FirstSets(all, cur, F)
  <2>1. FirstSets(old, cur, F)
    BY DEF Holds
  <2>2. /\ all \in Seq(Seq(X \cup Y)) /\ Merged(old, new, cur, all) /\ OnceInSets(old, X)
        /\ cur \in Nat /\ SetsInOrder(old)
    BY <1>0, <1>2
  <2> HIDE DEF old, cur, all
  <2> QED
    BY <2>1, <2>2, MergedOnce, Zenon
<1>6. /\ Len(old) \in Nat /\ Len(new) \in Nat /\ Len(new) # 0
      /\ Len(all) = IF cur + Len(new) > Len(old) THEN cur + Len(new) ELSE Len(old)
      /\ all # <<>> /\ cur <= Len(all)
  BY <1>0, <1>2 DEF Merged
<1>7. NonEmptySets(all)
  <2> SUFFICES ASSUME NEW n \in 1..Len(all) PROVE Len(all[n]) # 0
    BY DEF NonEmptySets
  <2>1. CASE n \in 1..Len(old)
    <3>1. Len(old[n]) # 0 /\ Len(old[n]) \in Nat
      BY <1>0, <2>1 DEF Holds, NonEmptySets
    <3>2. 1 \in 1..Len(old[n])
      BY <3>1
    <3>3. 1 \in 1..Len(all[n])
      BY <1>2, <2>1, <3>2 DEF Merged
    <3> QED
      BY <3>3
  <2>2. CASE n \notin 1..Len(old)
    <3> DEFINE l == n - cur
    <3>1. l \in 1..Len(new) /\ cur + l = n
      BY <1>0, <1>6, <2>2
    <3> HIDE DEF l
    <3>2. Len(new[l]) # 0 /\ Len(new[l]) \in Nat
      BY <1>0, <3>1 DEF NonEmptySets
    <3>3. 1 \in 1..Len(new[l])
      BY <3>2
    <3>4. OldLen(old, n) + 1 \in 1..Len(all[n])
      BY <1>2, <3>1, <3>3 DEF Merged
    <3>5. Len(all[n]) # 0
      <4>1. OldLen(old, n) = 0
        BY <1>6, <2>2 DEF OldLen
      <4> QED
        BY <3>4, <4>1
    <3> QED
      BY <3>5
  <2> QED
    BY <2>1, <2>2
<1>8. m.nextSetInd \in Nat /\ m.nextSetInd = IF all = <<>> THEN 1 ELSE Len(all)
  <2>1. b.nextSetInd = IF old = <<>> THEN 1 ELSE Len(old)
    BY DEF Holds
  <2>2. old = <<>> => Len(old) = 0
    OBVIOUS
  <2> QED
    BY <1>0, <1>3, <1>6, <2>1, <2>2
<1>9. cur \in Nat /\ m.curSetInd = cur
  BY <1>0, <1>3
<1> HIDE DEF E
<1>10. Holds(m, E, F)
  BY <1>4, <1>5, <1>6, <1>7, <1>8, <1>9 DEF Holds
<1> QED
  BY <1>10 DEF E, m

\* Next: all that there is comes before the next group.
LEMMA NextHolds ==
  ASSUME NEW X, NEW F, NEW x \in X, NEW b, Holds(b, X, F),
         b = [images |-> b.images, imagesSets |-> b.imagesSets, curSetInd |-> b.curSetInd,
              nextSetInd |-> b.nextSetInd]
  PROVE  Holds(BuilderNext(b), X, X)
<1> DEFINE c == BuilderNext(b)
           ss == b.imagesSets
<1>1. c.images = b.images /\ c.imagesSets = ss /\ c.curSetInd = b.nextSetInd
      /\ c.nextSetInd = b.nextSetInd
  BY DEF BuilderNext
<1> HIDE DEF c
<1>2. ss \in Seq(Seq(X)) /\ Len(ss) \in Nat
  BY DEF Holds, OnceInSets
<1>3. ss # <<>>
  <2>1. \E n \in 1..Len(ss) : TRUE
    BY DEF Holds, OnceInSets
  <2> QED
    BY <1>2, <2>1
<1>4. b.nextSetInd = Len(ss)
  BY <1>3 DEF Holds
<1>5. FirstSets(ss, Len(ss), X)
  BY <1>2 DEF FirstSets
<1>6. /\ b.nextSetInd \in Nat /\ OnceIn(b.images, X) /\ InOrder(b.images)
      /\ OnceInSets(ss, X) /\ SetsInOrder(ss) /\ NonEmptySets(ss)
  BY DEF Holds
<1> HIDE DEF ss
<1>7. Holds(c, X, X)
  BY <1>1, <1>2, <1>3, <1>4, <1>5, <1>6 DEF Holds
<1> QED
  BY <1>7 DEF c

-----------------------------------------------------------------------------
(* The images of a Dockerfile.                                             *)

Target == Len(cfg.stages)

\* The name of the image for stage k of i, and the image.
NameOf(i, k) == IF k \in {0, Target} THEN <<i, 0>> ELSE StageName(i, k)
Planned(i, k, p) == Image(NameOf(i, k), k, p)

StagesFor(i) == IF i \in cfg.staged THEN StagesNeeded ELSE {0}
ImagesOf(i, p) == {Planned(i, k, p) : k \in StagesFor(i)}

LEMMA ConfigFacts ==
  ASSUME cfg \in Configs
  PROVE  /\ cfg.defined \subseteq Images /\ cfg.staged \subseteq cfg.defined
         /\ cfg.from \in [Images -> Images] /\ cfg.deps \in [Images -> SUBSET Images]
         /\ \A i \in cfg.defined : cfg.from[i] # i
         /\ cfg.platform \in [Images -> SUBSET Platforms]
         /\ cfg.common \subseteq Platforms /\ cfg.forced \subseteq Platforms
         /\ cfg.stages \in Seq([named : BOOLEAN, base : Nat, copies : Seq(Nat)])
         /\ Target \in Nat
         /\ cfg.staged # {} => Target \in 1..Target
         /\ \A k \in 1..Target : /\ cfg.stages[k].base \in 0..(k - 1)
                                 /\ \A r \in ToSet(cfg.stages[k].copies) : r \in 0..(k - 1)
<1>1. /\ cfg.defined \subseteq Images /\ cfg.staged \subseteq cfg.defined
      /\ cfg.from \in [Images -> Images] /\ cfg.deps \in [Images -> SUBSET Images]
      /\ \A i \in cfg.defined : cfg.from[i] # i
      /\ cfg.platform \in [Images -> SUBSET Platforms]
      /\ cfg.common \subseteq Platforms /\ cfg.forced \subseteq Platforms
      /\ cfg.stages \in Seq([named : BOOLEAN, base : Nat, copies : Seq(Nat)])
      /\ cfg.staged # {} => cfg.stages # <<>>
      /\ \A k \in 1..Len(cfg.stages) : /\ cfg.stages[k].base \in 0..(k - 1)
                                       /\ \A r \in ToSet(cfg.stages[k].copies) : r \in 0..(k - 1)
  BY ConfigsAssumption
<1>2. Len(cfg.stages) \in Nat /\ (cfg.stages # <<>> => Len(cfg.stages) # 0)
  BY <1>1
<1>3. Target \in Nat /\ (cfg.staged # {} => Target \in 1..Target)
  BY <1>1, <1>2 DEF Target
<1> QED
  BY <1>1, <1>3 DEF Target

LEMMA EarlierStages ==
  ASSUME cfg \in Configs, NEW k \in 1..Target
  PROVE  StagesOf(k) \subseteq 1..(k - 1)
<1>1. cfg.stages[k].base \in 0..(k - 1) /\ \A r \in ToSet(cfg.stages[k].copies) : r \in 0..(k - 1)
  BY ConfigFacts
<1>2. ASSUME NEW l \in StagesOf(k) PROVE l \in 1..(k - 1)
  <2>1. l \in 0..(k - 1) /\ l # 0
    BY <1>1 DEF StagesOf, Registry
  <2> QED
    BY <2>1
<1> QED
  BY <1>2

LEMMA NeededStages ==
  ASSUME cfg \in Configs, cfg.staged # {}
  PROVE  /\ StagesNeeded \subseteq 1..Target /\ Target \in StagesNeeded
         /\ \A k \in StagesNeeded : StagesOf(k) \subseteq StagesNeeded
         /\ \A T \in SUBSET (1..Target) :
              Target \in T /\ (\A l \in T : StagesOf(l) \subseteq T) => StagesNeeded \subseteq T
<1>1. DOMAIN cfg.stages = 1..Target
  BY ConfigFacts DEF Target
<1>2. StagesNeeded \subseteq 1..Target /\ Target \in StagesNeeded
  BY <1>1, ConfigFacts DEF StagesNeeded, Target
<1>3. ASSUME NEW k \in StagesNeeded PROVE StagesOf(k) \subseteq StagesNeeded
  <2>1. k \in 1..Target /\ Target \in Nat
    BY <1>2, ConfigFacts
  <2>2. StagesOf(k) \subseteq 1..Target
    <3>1. StagesOf(k) \subseteq 1..(k - 1)
      BY <2>1, EarlierStages
    <3> QED
      BY <2>1, <3>1
  <2>3. ASSUME NEW l \in StagesOf(k), NEW T \in SUBSET DOMAIN cfg.stages, Len(cfg.stages) \in T,
               \A j \in T : StagesOf(j) \subseteq T
        PROVE  l \in T
    BY <2>3 DEF StagesNeeded
  <2> QED
    BY <1>1, <2>2, <2>3 DEF StagesNeeded
<1>4. ASSUME NEW T \in SUBSET (1..Target), Target \in T, \A l \in T : StagesOf(l) \subseteq T
      PROVE  StagesNeeded \subseteq T
  BY <1>1, <1>4 DEF StagesNeeded, Target
<1> QED
  BY <1>2, <1>3, <1>4

\* Under AsWritten names tell the stages of an image apart, and nothing of what a
\* stage copies from is lost.
LEMMA NamesTell ==
  ASSUME cfg \in Configs, AsWritten, cfg.staged # {}, NEW i, NEW j,
         NEW k \in 1..Target, NEW l \in 1..Target, NameOf(i, k) = NameOf(j, l)
  PROVE  i = j /\ k = l
<1> DEFINE Unnamed == {n \in 1..(Target - 1) : ~cfg.stages[n].named}
<1>0. Target \in Nat /\ k \in Int /\ l \in Int
  BY ConfigFacts
<1>1. Cardinality(Unnamed) <= 1
  BY DEF AsWritten, Target
<1>2. ASSUME NEW m \in Unnamed, NEW n \in Unnamed PROVE m = n
  <2>1. IsFiniteSet(1..(Target - 1))
    BY <1>0, FS_Interval
  <2>2. IsFiniteSet(Unnamed)
    BY <2>1, FS_Subset
  <2>3. SUFFICES ASSUME m # n PROVE FALSE
    OBVIOUS
  <2>4. {m, n} \subseteq Unnamed
    OBVIOUS
  <2>5. Cardinality({m, n}) <= Cardinality(Unnamed) /\ Cardinality(Unnamed) \in Nat
    BY <2>2, <2>4, FS_Subset, FS_CardinalityType
  <2>6. Cardinality({m, n}) = 2
    <3>1. Cardinality({m}) = 1 /\ IsFiniteSet({m})
      BY FS_Singleton
    <3>2. Cardinality({m} \cup {n}) = Cardinality({m}) + 1
      BY <2>3, <3>1, FS_AddElement
    <3>3. {m} \cup {n} = {m, n}
      OBVIOUS
    <3> QED
      BY <3>1, <3>2, <3>3
  <2> QED
    BY <1>1, <2>5, <2>6
<1>3. \A n \in 1..Target : NameOf(i, n) = <<i, IF n = Target THEN 0 ELSE IF cfg.stages[n].named THEN n ELSE -1>>
  BY <1>0 DEF NameOf, StageName
<1>4. \A n \in 1..Target : NameOf(j, n) = <<j, IF n = Target THEN 0 ELSE IF cfg.stages[n].named THEN n ELSE -1>>
  BY <1>0 DEF NameOf, StageName
<1>5. i = j
  BY <1>3, <1>4
<1>6. CASE k = Target \/ l = Target
  BY <1>0, <1>3, <1>4, <1>6
<1>7. CASE k # Target /\ l # Target
  <2>1. k \in 1..(Target - 1) /\ l \in 1..(Target - 1)
    BY <1>0, <1>7
  <2>2. CASE cfg.stages[k].named \/ cfg.stages[l].named
    BY <1>0, <1>3, <1>4, <1>7, <2>2
  <2>3. CASE ~cfg.stages[k].named /\ ~cfg.stages[l].named
    <3>1. k \in Unnamed /\ l \in Unnamed
      BY <2>1, <2>3, Zenon
    <3> QED
      BY <1>2, <1>5, <3>1, Zenon
  <2> QED
    BY <2>2, <2>3
<1> QED
  BY <1>5, <1>6, <1>7

LEMMA ResolvedAll ==
  ASSUME cfg \in Configs, AsWritten, cfg.staged # {}, NEW k \in 1..Target
  PROVE  Resolved(k) = cfg.stages[k].copies /\ Registry \notin ToSet(cfg.stages[k].copies)
<1>1. DOMAIN cfg.stages = 1..Target /\ Target \in Nat
  BY ConfigFacts DEF Target
<1>2. \A l \in 1..Target : Registry \notin ToSet(cfg.stages[l].copies)
  BY <1>1 DEF AsWritten
<1>3. \A l \in 1..(k - 1) : l \in 1..Target
  BY <1>1
<1> QED
  BY <1>2, <1>3 DEF Resolved

-----------------------------------------------------------------------------
(* AppendImageToCurrentSet.                                                *)

\* Set n of ss has x.
In(ss, n, x) == n \in 1..Len(ss) /\ \E k \in 1..Len(ss[n]) : ss[n][k] = x

\* No set has an element twice, and no two sets have one in common.
RowOnce(s) == \A k, l \in 1..Len(s) : s[k] = s[l] => k = l
RowsOnce(ss) == \A n \in 1..Len(ss) : RowOnce(ss[n])
RowsDisjoint(ss) == \A m, n, x : In(ss, m, x) /\ In(ss, n, x) => m = n

LEMMA InOnce ==
  ASSUME NEW X, NEW ss \in Seq(Seq(X)), RowsOnce(ss), RowsDisjoint(ss),
         \A x \in X : \E n : In(ss, n, x)
  PROVE  OnceInSets(ss, X)
<1>1. ASSUME NEW m \in 1..Len(ss), NEW n \in 1..Len(ss), NEW k \in 1..Len(ss[m]),
             NEW l \in 1..Len(ss[n]), ss[m][k] = ss[n][l]
      PROVE  m = n /\ k = l
  <2>1. In(ss, m, ss[m][k]) /\ In(ss, n, ss[m][k])
    BY <1>1 DEF In
  <2>2. m = n
    BY <2>1 DEF RowsDisjoint
  <2> QED
    BY <1>1, <2>2 DEF RowsOnce, RowOnce
<1>2. \A x \in X : \E n \in 1..Len(ss) : \E k \in 1..Len(ss[n]) : ss[n][k] = x
  BY DEF In
<1> QED
  BY <1>1, <1>2 DEF OnceInSets

\* A sequence without the elements of a name.
Kept(s, name) == [n \in DOMAIN s |-> IF s[n].name = name THEN <<>> ELSE <<s[n]>>]

LeftOf(E, s, name, w) ==
  /\ w \in Seq(E)
  /\ \A x : (\E n \in 1..Len(w) : w[n] = x)
              <=> x.name # name /\ \E m \in 1..Len(s) : s[m] = x
  /\ RowOnce(s) => RowOnce(w)

LEMMA WithoutName ==
  ASSUME NEW E, NEW s \in Seq(E), NEW name, NEW w, w = FlattenSeq(Kept(s, name))
  PROVE  LeftOf(E, s, name, w)
<1> DEFINE ss == Kept(s, name)
<1>0. DOMAIN s = 1..Len(s) /\ Len(s) \in Nat
  OBVIOUS
<1>1. ss \in Seq(Seq(E)) /\ Len(ss) = Len(s)
  <2>1. \A n \in 1..Len(s) : (IF s[n].name = name THEN <<>> ELSE <<s[n]>>) \in Seq(E)
    OBVIOUS
  <2>2. ss \in [1..Len(s) -> Seq(E)]
    BY <1>0, <2>1 DEF Kept
  <2> QED
    BY <1>0, <2>2, FunctionIsSeq
<1>2. ASSUME NEW n \in 1..Len(s)
      PROVE  /\ s[n].name = name => Len(ss[n]) = 0
             /\ s[n].name # name => Len(ss[n]) = 1 /\ ss[n][1] = s[n]
  BY <1>0 DEF Kept
<1> HIDE DEF ss
<1>3. w \in Seq(E) /\ \E row, col : Flattens(w, ss, Len(ss), row, col)
  <2>1. w = FlattenSeq(ss)
    BY DEF ss
  <2> QED
    BY <1>1, <2>1, FlattenPlaces
<1>4. PICK row, col : Flattens(w, ss, Len(s), row, col)
  BY <1>1, <1>3
<1>5. ASSUME NEW x \in 1..Len(w)
      PROVE  row[x] \in 1..Len(s) /\ col[x] = 1 /\ s[row[x]].name # name /\ w[x] = s[row[x]]
  <2>1. row[x] \in 1..Len(s) /\ col[x] \in 1..Len(ss[row[x]]) /\ w[x] = ss[row[x]][col[x]]
    BY <1>4 DEF Flattens
  <2>2. s[row[x]].name # name
    BY <1>2, <2>1
  <2>3. Len(ss[row[x]]) = 1 /\ ss[row[x]][1] = s[row[x]]
    BY <1>2, <2>1, <2>2
  <2>4. col[x] = 1
    BY <2>1, <2>3
  <2> QED
    BY <2>1, <2>2, <2>3, <2>4
<1>6. ASSUME NEW m \in 1..Len(s), s[m].name # name PROVE \E n \in 1..Len(w) : w[n] = s[m]
  <2>1. 1 \in 1..Len(ss[m])
    BY <1>2, <1>6
  <2>2. PICK x \in 1..Len(w) : row[x] = m /\ col[x] = 1
    BY <1>4, <2>1 DEF Flattens
  <2> QED
    BY <1>5, <2>2
<1>7. ASSUME RowOnce(s), NEW x \in 1..Len(w), NEW y \in 1..Len(w), w[x] = w[y] PROVE x = y
  <2>1. row[x] = row[y] /\ col[x] = col[y] /\ row[x] \in Int /\ col[x] = 1
    BY <1>5, <1>7 DEF RowOnce
  <2>2. \A x1, y1 \in 1..Len(w) :
          x1 < y1 => row[x1] < row[y1] \/ (row[x1] = row[y1] /\ col[x1] < col[y1])
    BY <1>4 DEF Flattens
  <2>3. ~(row[x] < row[y]) /\ ~(col[x] < col[y]) /\ ~(row[y] < row[x]) /\ ~(col[y] < col[x])
    BY <2>1
  <2>4. ~(x < y) /\ ~(y < x)
    BY <2>2, <2>3
  <2>5. Len(w) \in Nat
    BY <1>3
  <2> QED
    BY <2>4, <2>5
<1>8. \A x : (\E n \in 1..Len(w) : w[n] = x) <=> x.name # name /\ \E m \in 1..Len(s) : s[m] = x
  BY <1>5, <1>6
<1> QED
  BY <1>3, <1>7, <1>8 DEF RowOnce, LeftOf

\* A set is put before the sets of r (s = 1) or not (s = 0), and new is in the
\* first one only.
MovedFirst(E, r, s, new, a) ==
  /\ a \in Seq(Seq(E)) /\ Len(a) = Len(r) + s /\ RowsOnce(a)
  /\ \A n, x : In(a, n, x) <=> \/ n = 1 /\ x = new
                               \/ n \in 1..(Len(r) + s) /\ x # new /\ In(r, n - s, x)

LEMMA AppendMoves ==
  ASSUME NEW E, \A x, y \in E : x.name = y.name => x = y,
         NEW r \in Seq(Seq(E)), RowsOnce(r), RowsDisjoint(r), NEW new \in E,
         NEW level \in Nat, NEW s \in {0, 1}, level + 1 = Len(r) + s
  PROVE  MovedFirst(E, r, s, new, AppendImageToCurrentSet(r, level, new))
<1> DEFINE all == IF level = Len(r) THEN <<<<>>>> \o r ELSE r
           a == AppendImageToCurrentSet(r, level, new)
           Without(t) == FlattenSeq(Kept(t, new.name))
           Here == \E n \in DOMAIN all[1] : all[1][n].name = new.name
           Changed == [n \in DOMAIN all |-> IF n = 1 THEN Append(all[1], new) ELSE Without(all[n])]
<1>0. Len(r) \in Nat /\ level = Len(r) <=> s = 1
  OBVIOUS
<1>1. a = IF Here THEN all ELSE Changed
  BY DEF AppendImageToCurrentSet, Kept
<1>2. /\ all \in Seq(Seq(E)) /\ Len(all) = Len(r) + s /\ Len(all) \in Nat \ {0}
      /\ \A n \in 1..Len(all) : IF s = 1 /\ n = 1 THEN all[n] = <<>> ELSE n - s \in 1..Len(r) /\ all[n] = r[n - s]
  <2>1. CASE s = 1
    <3>1. <<<<>>>> \in Seq(Seq(E)) /\ Len(<<<<>>>>) = 1 /\ <<<<>>>>[1] = <<>>
      OBVIOUS
    <3>2. /\ <<<<>>>> \o r \in Seq(Seq(E)) /\ Len(<<<<>>>> \o r) = 1 + Len(r)
          /\ \A n \in 1..(1 + Len(r)) : (<<<<>>>> \o r)[n] = IF n <= 1 THEN <<<<>>>>[n] ELSE r[n - 1]
      <4> DEFINE e == <<<<>>>>
                 T == Seq(E)
      <4>1. e \in Seq(T) /\ r \in Seq(T) /\ Len(e) = 1
        BY <3>1
      <4> HIDE DEF e, T
      <4>2. /\ e \o r \in Seq(T) /\ Len(e \o r) = Len(e) + Len(r)
            /\ \A k \in 1..(Len(e) + Len(r)) : (e \o r)[k] = IF k <= Len(e) THEN e[k] ELSE r[k - Len(e)]
        BY <4>1, Concatenated
      <4> QED
        BY <4>1, <4>2 DEF e, T
    <3>3. level = Len(r)
      BY <1>0, <2>1
    <3> QED
      BY <1>0, <2>1, <3>1, <3>2, <3>3
  <2>2. CASE s = 0
    BY <1>0, <2>2
  <2> QED
    BY <2>1, <2>2
<1> HIDE DEF all
<1>3. \A n, x : In(all, n, x) <=> n \in 1..(Len(r) + s) /\ In(r, n - s, x)
  <2> SUFFICES ASSUME NEW n, NEW x PROVE In(all, n, x) <=> n \in 1..(Len(r) + s) /\ In(r, n - s, x)
    OBVIOUS
  <2>1. CASE n \in 1..Len(all) /\ s = 1 /\ n = 1
    <3>1. ~In(all, n, x)
      BY <1>2, <2>1 DEF In
    <3>2. ~In(r, n - s, x)
      BY <2>1 DEF In
    <3> QED
      BY <3>1, <3>2
  <2>2. CASE n \in 1..Len(all) /\ ~(s = 1 /\ n = 1)
    BY <1>2, <2>2 DEF In
  <2>3. CASE n \notin 1..Len(all)
    BY <1>2, <2>3 DEF In
  <2> QED
    BY <2>1, <2>2, <2>3
<1>4. RowsOnce(all)
  <2> SUFFICES ASSUME NEW n \in 1..Len(all) PROVE RowOnce(all[n])
    BY DEF RowsOnce
  <2>1. CASE s = 1 /\ n = 1
    BY <1>2, <2>1 DEF RowOnce
  <2>2. CASE ~(s = 1 /\ n = 1)
    BY <1>2, <2>2 DEF RowsOnce
  <2> QED
    BY <2>1, <2>2
<1>5. \A n \in 1..Len(all) : all[n] \in Seq(E)
  BY <1>2
<1>6. DOMAIN all = 1..Len(all) /\ 1 \in 1..Len(all) /\ DOMAIN all[1] = 1..Len(all[1])
  BY <1>2, <1>5
<1>7. Here <=> In(all, 1, new)
  <2>1. \A n \in 1..Len(all[1]) : all[1][n] \in E
    BY <1>5, <1>6
  <2> QED
    BY <1>6, <2>1 DEF In
<1> HIDE DEF Here
<1>8. CASE Here
  <2>1. a = all
    BY <1>1, <1>8
  <2>2. In(r, 1 - s, new)
    BY <1>3, <1>7, <1>8
  <2>3. s = 0
    BY <2>2 DEF In
  <2>4. \A n : In(r, n, new) => n = 1
    BY <2>2, <2>3 DEF RowsDisjoint
  <2>5. \A n, x : In(a, n, x) <=> \/ n = 1 /\ x = new
                                  \/ n \in 1..(Len(r) + s) /\ x # new /\ In(r, n - s, x)
    BY <1>3, <2>1, <2>2, <2>3, <2>4
  <2> HIDE DEF a
  <2> QED
    BY <1>2, <1>4, <2>1, <2>5 DEF a, MovedFirst
<1>9. CASE ~Here
  <2>1. a = Changed
    BY <1>1, <1>9
  <2>2. /\ Append(all[1], new) \in Seq(E)
        /\ \A x : (\E k \in 1..Len(Append(all[1], new)) : Append(all[1], new)[k] = x)
                    <=> x = new \/ In(all, 1, x)
        /\ RowOnce(Append(all[1], new))
    <3> DEFINE t == all[1]
               u == Append(t, new)
    <3>1. t \in Seq(E) /\ Len(t) \in Nat /\ RowOnce(t) /\ \A k \in 1..Len(t) : t[k] # new
      BY <1>4, <1>5, <1>6, <1>7, <1>9 DEF RowsOnce, In
    <3>2. \A x : In(all, 1, x) <=> \E k \in 1..Len(t) : t[k] = x
      BY <1>6 DEF In
    <3> HIDE DEF t
    <3>3. /\ u \in Seq(E) /\ Len(u) = Len(t) + 1 /\ u[Len(t) + 1] = new
          /\ \A k \in 1..Len(t) : u[k] = t[k]
      BY <3>1
    <3> HIDE DEF u
    <3>4. ASSUME NEW x PROVE (\E k \in 1..Len(u) : u[k] = x) <=> x = new \/ \E k \in 1..Len(t) : t[k] = x
      <4>1. \A k \in 1..Len(u) : k \in 1..Len(t) \/ k = Len(t) + 1
        BY <3>1, <3>3
      <4>2. Len(t) + 1 \in 1..Len(u) /\ \A k \in 1..Len(t) : k \in 1..Len(u)
        BY <3>1, <3>3
      <4> QED
        BY <3>3, <4>1, <4>2
    <3>5. RowOnce(u)
      <4> SUFFICES ASSUME NEW k \in 1..Len(u), NEW l \in 1..Len(u), u[k] = u[l] PROVE k = l
        BY DEF RowOnce
      <4>1. (k \in 1..Len(t) \/ k = Len(t) + 1) /\ (l \in 1..Len(t) \/ l = Len(t) + 1)
        BY <3>1, <3>3
      <4>2. CASE k \in 1..Len(t) /\ l \in 1..Len(t)
        BY <3>1, <3>3, <4>2 DEF RowOnce
      <4>3. CASE k = Len(t) + 1 /\ l \in 1..Len(t)
        BY <3>1, <3>3, <4>3
      <4>4. CASE k \in 1..Len(t) /\ l = Len(t) + 1
        BY <3>1, <3>3, <4>4
      <4> QED
        BY <4>1, <4>2, <4>3, <4>4
    <3> QED
      BY <3>2, <3>3, <3>4, <3>5 DEF t, u
  <2>3. ASSUME NEW n \in 1..Len(all), n # 1
        PROVE  /\ Without(all[n]) \in Seq(E)
               /\ \A x : (\E k \in 1..Len(Without(all[n])) : Without(all[n])[k] = x)
                           <=> x # new /\ In(all, n, x)
               /\ RowOnce(Without(all[n]))
    <3> DEFINE t == all[n]
               w == FlattenSeq(Kept(t, new.name))
    <3>1. t \in Seq(E) /\ RowOnce(t)
      BY <1>4, <1>5 DEF RowsOnce
    <3>2. \A x : In(all, n, x) <=> \E k \in 1..Len(t) : t[k] = x
      BY DEF In
    <3> HIDE DEF t
    <3>3. /\ w \in Seq(E) /\ RowOnce(w)
          /\ \A x : (\E k \in 1..Len(w) : w[k] = x) <=> x.name # new.name /\ \E m \in 1..Len(t) : t[m] = x
      <4> DEFINE name == new.name
      <4>1. w = FlattenSeq(Kept(t, name))
        OBVIOUS
      <4> HIDE DEF w, name
      <4>2. LeftOf(E, t, name, w)
        BY <3>1, <4>1, WithoutName, Zenon
      <4> QED
        BY <3>1, <4>2 DEF name, LeftOf
    <3>4. \A x : (\E m \in 1..Len(t) : t[m] = x) => (x.name # new.name <=> x # new)
      BY <3>1
    <3> HIDE DEF w
    <3>5. \A x : (\E k \in 1..Len(w) : w[k] = x) <=> x # new /\ In(all, n, x)
      BY <3>2, <3>3, <3>4
    <3> QED
      BY <3>3, <3>5 DEF t, w
  <2> DEFINE At(n) == IF n = 1 THEN Append(all[1], new) ELSE Without(all[n])
  <2>4. /\ a \in Seq(Seq(E)) /\ Len(a) = Len(all) /\ \A n \in 1..Len(all) : a[n] = At(n)
    <3>1. \A n \in 1..Len(all) : At(n) \in Seq(E)
      BY <2>2, <2>3
    <3>2. a = [n \in 1..Len(all) |-> At(n)]
      BY <1>6, <2>1
    <3> HIDE DEF a, At
    <3>3. a \in [1..Len(all) -> Seq(E)]
      BY <3>1, <3>2
    <3>4. Len(all) \in Nat
      BY <1>2
    <3>5. a \in Seq(Seq(E)) /\ Len(a) = Len(all)
      BY <3>3, <3>4, FunctionIsSeq
    <3> QED
      BY <3>2, <3>5
  <2> HIDE DEF a, Without, Changed
  <2>5. RowsOnce(a)
    <3> SUFFICES ASSUME NEW n \in 1..Len(all) PROVE RowOnce(a[n])
      BY <2>4 DEF RowsOnce
    <3> QED
      BY <2>2, <2>3, <2>4
  <2>6. ASSUME NEW n, NEW x
        PROVE  In(a, n, x) <=> \/ n = 1 /\ x = new
                               \/ n \in 1..Len(all) /\ x # new /\ In(all, n, x)
    <3>1. CASE n = 1
      <4>1. In(a, n, x) <=> x = new \/ In(all, 1, x)
        <5> DEFINE u == Append(all[1], new)
        <5>1. a[1] = u /\ 1 \in 1..Len(a)
          BY <1>6, <2>4
        <5>2. \A y : (\E k \in 1..Len(u) : u[k] = y) <=> y = new \/ In(all, 1, y)
          BY <2>2
        <5> HIDE DEF u
        <5>3. In(a, 1, x) <=> \E k \in 1..Len(u) : u[k] = x
          BY <5>1 DEF In
        <5> QED
          BY <3>1, <5>2, <5>3
      <4> QED
        BY <1>6, <3>1, <4>1
    <3>2. CASE n # 1 /\ n \in 1..Len(all)
      <4>1. In(a, n, x) <=> x # new /\ In(all, n, x)
        <5> DEFINE u == Without(all[n])
        <5>1. a[n] = u /\ n \in 1..Len(a)
          BY <2>4, <3>2
        <5>2. \A y : (\E k \in 1..Len(u) : u[k] = y) <=> y # new /\ In(all, n, y)
          BY <2>3, <3>2
        <5> HIDE DEF u
        <5>3. In(a, n, x) <=> \E k \in 1..Len(u) : u[k] = x
          BY <5>1 DEF In
        <5> QED
          BY <5>2, <5>3
      <4> QED
        BY <3>2, <4>1
    <3>3. CASE n \notin 1..Len(all)
      BY <1>6, <2>4, <3>3 DEF In
    <3> QED
      BY <3>1, <3>2, <3>3
  <2>7. \A n, x : In(a, n, x) <=> \/ n = 1 /\ x = new
                                  \/ n \in 1..(Len(r) + s) /\ x # new /\ In(r, n - s, x)
    BY <1>2, <1>3, <2>6
  <2> QED
    BY <1>2, <2>4, <2>5, <2>7 DEF a, MovedFirst
<1> QED
  BY <1>8, <1>9

-----------------------------------------------------------------------------
(* mapDockerfileToImagesSets: the walk over the stages.                    *)

Queued(i, k, l, p) == [name |-> NameOf(i, k), stage |-> k, level |-> l, platform |-> p]
Items(i, p) == {Queued(i, z[1], z[2], p) : z \in StagesNeeded \X Nat}

\* MapStage takes the first item from q and puts the stages it is made from at the
\* end.
Expanded(i, p, k, l, q, r) ==
  /\ r \in Seq(Items(i, p)) /\ Len(r) >= Len(q) - 1
  /\ \A j \in 1..(Len(q) - 1) : r[j] = q[j + 1]
  /\ \A j \in Len(q)..Len(r) : \E d \in StagesOf(k) : r[j] = Queued(i, d, l, p)
  /\ \A d \in StagesOf(k) : \E j \in Len(q)..Len(r) : r[j] = Queued(i, d, l, p)

LEMMA StageIsNamed ==
  ASSUME cfg \in Configs, NEW i, NEW k \in 1..Target, NEW d \in StagesOf(k)
  PROVE  StageName(i, d) = NameOf(i, d)
<1>1. d \in 1..(k - 1) /\ Target \in Nat
  BY EarlierStages, ConfigFacts
<1>2. d \notin {0, Target}
  BY <1>1
<1> QED
  BY <1>2 DEF NameOf

\* The items after the first one, then those of b, then those of c.
Extended(T, q, b, c, v) ==
  /\ v \in Seq(T) /\ Len(v) >= Len(q) - 1
  /\ \A j \in 1..(Len(q) - 1) : v[j] = q[j + 1]
  /\ \A j \in Len(q)..Len(v) : \/ \E n \in 1..Len(b) : v[j] = b[n]
                               \/ \E n \in 1..Len(c) : v[j] = c[n]
  /\ \A n \in 1..Len(b) : \E j \in Len(q)..Len(v) : v[j] = b[n]
  /\ \A n \in 1..Len(c) : \E j \in Len(q)..Len(v) : v[j] = c[n]

LEMMA TailExtended ==
  ASSUME NEW T, NEW q \in Seq(T), q # <<>>, NEW b \in Seq(T), NEW c \in Seq(T),
         NEW v, v = Tail(q) \o b \o c
  PROVE  Extended(T, q, b, c, v)
<1> DEFINE t == Tail(q)
           u == t \o b
           x == Len(t)
           y == Len(b)
           z == Len(c)
<1>1. /\ t \in Seq(T) /\ Len(t) = Len(q) - 1 /\ Len(q) \in Nat \ {0}
      /\ \A j \in 1..(Len(q) - 1) : t[j] = q[j + 1]
  OBVIOUS
<1>2. v = u \o c
  OBVIOUS
<1> HIDE DEF t
<1>3. /\ u \in Seq(T) /\ Len(u) = x + y /\ x \in Nat /\ y \in Nat
      /\ \A j \in 1..(x + y) : u[j] = IF j <= x THEN t[j] ELSE b[j - x]
  BY <1>1, Concatenated
<1> HIDE DEF u
<1>4. /\ v \in Seq(T) /\ Len(v) = Len(u) + z /\ z \in Nat
      /\ \A j \in 1..(Len(u) + z) : v[j] = IF j <= Len(u) THEN u[j] ELSE c[j - Len(u)]
  <2>1. u \in Seq(T) /\ c \in Seq(T)
    BY <1>3
  <2>2. /\ u \o c \in Seq(T) /\ Len(u \o c) = Len(u) + Len(c) /\ Len(c) \in Nat
        /\ \A j \in 1..(Len(u) + Len(c)) : (u \o c)[j] = IF j <= Len(u) THEN u[j] ELSE c[j - Len(u)]
    BY <2>1, Concatenated
  <2> QED
    BY <1>2, <2>2
<1>5. /\ x \in Nat /\ y \in Nat /\ z \in Nat /\ Len(u) = x + y /\ Len(v) = x + y + z
      /\ Len(q) = x + 1 /\ Len(q) - 1 = x
  <2>1. Len(q) = x + 1 /\ Len(q) - 1 = x
    BY <1>1
  <2> QED
    BY <1>3, <1>4, <2>1
<1> HIDE DEF x, y, z
<1>6. ASSUME NEW j \in 1..x PROVE v[j] = q[j + 1]
  <2>1. j \in 1..(x + y) /\ j \in 1..(Len(u) + z) /\ j <= Len(u) /\ j <= x /\ j \in 1..(Len(q) - 1)
    BY <1>5
  <2> QED
    BY <1>1, <1>3, <1>4, <2>1
<1>7. ASSUME NEW n \in 1..y PROVE x + n \in Len(q)..Len(v) /\ v[x + n] = b[n]
  <2>1. /\ x + n \in 1..(x + y) /\ x + n \in 1..(Len(u) + z) /\ x + n <= Len(u) /\ ~(x + n <= x)
        /\ (x + n) - x = n /\ x + n \in Len(q)..Len(v)
    BY <1>5
  <2> QED
    BY <1>3, <1>4, <2>1
<1>8. ASSUME NEW n \in 1..z PROVE x + y + n \in Len(q)..Len(v) /\ v[x + y + n] = c[n]
  <2>1. /\ x + y + n \in 1..(Len(u) + z) /\ ~(x + y + n <= Len(u)) /\ (x + y + n) - Len(u) = n
        /\ x + y + n \in Len(q)..Len(v)
    BY <1>5
  <2> QED
    BY <1>4, <2>1
<1>9. ASSUME NEW j \in Len(q)..Len(v)
      PROVE  (\E n \in 1..y : v[j] = b[n]) \/ (\E n \in 1..z : v[j] = c[n])
  <2>1. (j - x \in 1..y /\ j = x + (j - x)) \/ (j - (x + y) \in 1..z /\ j = x + y + (j - (x + y)))
    BY <1>5
  <2>2. CASE j - x \in 1..y /\ j = x + (j - x)
    BY <1>7, <2>2
  <2>3. CASE j - (x + y) \in 1..z /\ j = x + y + (j - (x + y))
    BY <1>8, <2>3
  <2> QED
    BY <2>1, <2>2, <2>3
<1>10. Len(v) >= Len(q) - 1
  BY <1>5
<1>11. \A j \in 1..(Len(q) - 1) : v[j] = q[j + 1]
  BY <1>5, <1>6
<1>12. \A n \in 1..y : \E j \in Len(q)..Len(v) : v[j] = b[n]
  BY <1>7
<1>13. \A n \in 1..z : \E j \in Len(q)..Len(v) : v[j] = c[n]
  BY <1>8
<1> QED
  BY <1>4, <1>9, <1>10, <1>11, <1>12, <1>13 DEF y, z, Extended

\* The item of a stage found in another one.
Found(i, k, l, p) == [name |-> StageName(i, k), stage |-> k, level |-> l, platform |-> p]

LEMMA QueueExpands ==
  ASSUME cfg \in Configs, AsWritten, cfg.staged # {}, NEW i, NEW p, NEW k \in StagesNeeded,
         NEW l \in Nat, NEW q \in Seq(Items(i, p)), q # <<>>, NEW base, base = IF cfg.stages[k].base = Registry THEN <<>> ELSE <<Found(i, cfg.stages[k].base, l, p)>>,
         NEW copies, copies = [n \in DOMAIN Resolved(k) |-> Found(i, Resolved(k)[n], l, p)]
  PROVE  Expanded(i, p, k, l, q, Tail(q) \o base \o copies)
<1> DEFINE T == Items(i, p)
           Item(d) == Found(i, d, l, p)
           refs == cfg.stages[k].copies
           b == cfg.stages[k].base
<1>1. k \in 1..Target /\ StagesOf(k) \subseteq StagesNeeded /\ StagesNeeded \subseteq 1..Target
  BY NeededStages
<1>2. Resolved(k) = refs /\ Registry \notin ToSet(refs)
  BY <1>1, ResolvedAll
<1>3. refs \in Seq(Nat) /\ DOMAIN refs = 1..Len(refs) /\ Len(refs) \in Nat
  <2>1. cfg.stages[k] \in [named : BOOLEAN, base : Nat, copies : Seq(Nat)]
    <3> DEFINE R == [named : BOOLEAN, base : Nat, copies : Seq(Nat)]
    <3>1. cfg.stages \in Seq(R) /\ k \in 1..Len(cfg.stages)
      BY <1>1, ConfigFacts DEF Target
    <3> HIDE DEF R
    <3>2. cfg.stages[k] \in R
      BY <3>1
    <3> QED
      BY <3>2 DEF R
  <2> QED
    BY <2>1
<1>4. \A n \in 1..Len(refs) : refs[n] \in StagesOf(k)
  BY <1>2, <1>3 DEF StagesOf, ToSet
<1>5. ASSUME NEW d \in StagesOf(k) PROVE Item(d) = Queued(i, d, l, p) /\ Item(d) \in T
  <2>1. Item(d) = Queued(i, d, l, p)
    BY <1>1, StageIsNamed DEF Queued, Found
  <2> QED
    <3>1. d \in StagesNeeded
      BY <1>1
    <3>2. Queued(i, d, l, p) \in T
      <4>1. <<d, l>> \in StagesNeeded \X Nat /\ <<d, l>>[1] = d /\ <<d, l>>[2] = l
        BY <3>1
      <4> QED
        BY <4>1 DEF Items
    <3> QED
      BY <2>1, <3>2
<1>6. copies \in Seq(T) /\ Len(copies) = Len(refs) /\ \A n \in 1..Len(refs) : copies[n] = Item(refs[n])
  <2>1. copies = [n \in 1..Len(refs) |-> Item(refs[n])]
    BY <1>2, <1>3
  <2>2. \A n \in 1..Len(refs) : Item(refs[n]) \in T
    BY <1>4, <1>5
  <2> HIDE DEF T
  <2>3. copies \in [1..Len(refs) -> T]
    BY <2>1, <2>2
  <2> QED
    <3> DEFINE n0 == Len(refs)
    <3>1. copies \in [1..n0 -> T] /\ n0 \in Nat
      BY <1>3, <2>3
    <3> HIDE DEF n0
    <3>2. copies \in Seq(T) /\ Len(copies) = n0
      BY <3>1, FunctionIsSeq
    <3> QED
      BY <2>1, <3>2 DEF n0
<1>7. /\ base \in Seq(T) /\ Len(base) \in {0, 1}
      /\ Len(base) = 1 => base[1] = Item(b) /\ b \in StagesOf(k)
      /\ b # Registry => Len(base) = 1
  <2>1. CASE b = Registry
    BY <2>1
  <2>2. CASE b # Registry
    <3>1. b \in StagesOf(k)
      BY <2>2 DEF StagesOf
    <3>2. base = <<Item(b)>> /\ Item(b) \in T
      BY <1>5, <2>2, <3>1
    <3> QED
      BY <3>1, <3>2
  <2> QED
    BY <2>1, <2>2
<1>8. ASSUME NEW d \in StagesOf(k)
      PROVE  (Len(base) = 1 /\ d = b) \/ \E n \in 1..Len(refs) : refs[n] = d
  BY <1>3, <1>7 DEF StagesOf, ToSet
<1> DEFINE v == Tail(q) \o base \o copies
<1>9. /\ v \in Seq(T) /\ Len(v) >= Len(q) - 1
      /\ \A j \in 1..(Len(q) - 1) : v[j] = q[j + 1]
      /\ \A j \in Len(q)..Len(v) : \/ \E n \in 1..Len(base) : v[j] = base[n]
                                  \/ \E n \in 1..Len(copies) : v[j] = copies[n]
      /\ \A n \in 1..Len(base) : \E j \in Len(q)..Len(v) : v[j] = base[n]
      /\ \A n \in 1..Len(copies) : \E j \in Len(q)..Len(v) : v[j] = copies[n]
  <2>1. q \in Seq(T) /\ q # <<>> /\ base \in Seq(T) /\ copies \in Seq(T)
    BY <1>6, <1>7
  <2>2. v = Tail(q) \o base \o copies
    OBVIOUS
  <2> HIDE DEF T, v
  <2>3. Extended(T, q, base, copies, v)
    BY <2>1, <2>2, TailExtended, Zenon
  <2> QED
    BY <2>3 DEF Extended
<1> HIDE DEF T, v
<1>10. ASSUME NEW j \in Len(q)..Len(v) PROVE \E d \in StagesOf(k) : v[j] = Queued(i, d, l, p)
  <2>1. CASE \E n \in 1..Len(base) : v[j] = base[n]
    <3>1. v[j] = Item(b) /\ b \in StagesOf(k)
      BY <1>7, <2>1
    <3> QED
      BY <1>5, <3>1
  <2>2. CASE \E n \in 1..Len(copies) : v[j] = copies[n]
    <3>1. PICK n \in 1..Len(refs) : v[j] = Item(refs[n])
      BY <1>6, <2>2
    <3> QED
      BY <1>4, <1>5, <3>1
  <2> QED
    BY <1>9, <2>1, <2>2
<1>11. ASSUME NEW d \in StagesOf(k) PROVE \E j \in Len(q)..Len(v) : v[j] = Queued(i, d, l, p)
  <2>1. Item(d) = Queued(i, d, l, p)
    BY <1>5
  <2>2. CASE Len(base) = 1 /\ d = b
    <3>1. 1 \in 1..Len(base) /\ base[1] = Item(d)
      BY <1>7, <2>2
    <3> QED
      BY <1>9, <2>1, <3>1
  <2>3. CASE \E n \in 1..Len(refs) : refs[n] = d
    <3>1. PICK n \in 1..Len(refs) : refs[n] = d
      BY <2>3
    <3>2. n \in 1..Len(copies) /\ copies[n] = Item(d)
      BY <1>6, <3>1
    <3>3. PICK j \in Len(q)..Len(v) : v[j] = copies[n]
      BY <1>9, <3>2
    <3> QED
      BY <2>1, <3>2, <3>3
  <2> QED
    BY <1>8, <2>2, <2>3
<1>12. v \in Seq(Items(i, p))
  BY <1>9 DEF T
<1>13. Expanded(i, p, k, l, q, v)
  BY <1>9, <1>10, <1>11, <1>12 DEF Expanded
<1> QED
  BY <1>13 DEF v

\* Set n of r has the image of stage k.
Has(i, p, r, n, k) == In(r, n, Planned(i, k, p))

\* MapStage puts the image of stage k0 in the first set, after s sets more.
Shifted(i, p, r, s, k0, a) ==
  /\ Len(a) = Len(r) + s
  /\ Has(i, p, a, 1, k0)
  /\ \A n, k : k \in StagesNeeded /\ k # k0 /\ Has(i, p, r, n, k) =>
       n \in 1..Len(r) /\ Has(i, p, a, n + s, k)
  /\ \A n, k : k \in StagesNeeded /\ Has(i, p, a, n, k) =>
       /\ n \in 1..Len(a)
       /\ (k = k0 /\ n = 1) \/ (k # k0 /\ n - s \in 1..Len(r) /\ Has(i, p, r, n - s, k))

LEMMA PlannedTold ==
  ASSUME cfg \in Configs, AsWritten, NEW i \in cfg.staged, NEW p
  PROVE  /\ \A x, y \in ImagesOf(i, p) : x.name = y.name => x = y
         /\ \A k, l : Planned(i, k, p) = Planned(i, l, p) => k = l
         /\ ImagesOf(i, p) = {Planned(i, k, p) : k \in StagesNeeded}
<1>1. ImagesOf(i, p) = {Planned(i, k, p) : k \in StagesNeeded}
  BY DEF ImagesOf, StagesFor
<1>2. \A k : Planned(i, k, p).name = NameOf(i, k) /\ Planned(i, k, p).stage = k
  BY DEF Planned, Image
<1>3. ASSUME NEW x \in ImagesOf(i, p), NEW y \in ImagesOf(i, p), x.name = y.name PROVE x = y
  <2>1. PICK k \in StagesNeeded, l \in StagesNeeded : x = Planned(i, k, p) /\ y = Planned(i, l, p)
    BY <1>1
  <2>2. NameOf(i, k) = NameOf(i, l)
    BY <1>2, <1>3, <2>1
  <2>3. k \in 1..Target /\ l \in 1..Target /\ cfg.staged # {}
    BY NeededStages
  <2>4. k = l
    BY <2>2, <2>3, NamesTell
  <2> QED
    BY <2>1, <2>4
<1>4. \A k, l : Planned(i, k, p) = Planned(i, l, p) => k = l
  BY <1>2
<1> QED
  BY <1>1, <1>3, <1>4

LEMMA StageMoves ==
  ASSUME cfg \in Configs, AsWritten, NEW i \in cfg.staged, NEW p, NEW k0 \in StagesNeeded,
         NEW E, NEW r \in Seq(Seq(E)), NEW s \in {0, 1}, NEW a,
         MovedFirst(E, r, s, Planned(i, k0, p), a)
  PROVE  /\ Shifted(i, p, r, s, k0, a)
         /\ RowsDisjoint(r) => RowsDisjoint(a)
<1> DEFINE new == Planned(i, k0, p)
<1>1. \A n, x : In(a, n, x) <=> \/ n = 1 /\ x = new
                                \/ n \in 1..(Len(r) + s) /\ x # new /\ In(r, n - s, x)
  BY DEF MovedFirst
<1>2. Len(a) = Len(r) + s /\ Len(r) \in Nat
  BY DEF MovedFirst
<1>3. \A n, x : In(r, n, x) => n \in 1..Len(r)
  BY DEF In
<1>4. \A n, x : In(a, n, x) => n \in 1..Len(a)
  BY DEF In
<1>5. \A k : Planned(i, k, p) = new => k = k0
  BY PlannedTold
<1> HIDE DEF new
<1>6. ASSUME NEW n, NEW k \in StagesNeeded, k # k0, Has(i, p, r, n, k)
      PROVE  n \in 1..Len(r) /\ Has(i, p, a, n + s, k)
  <2>1. n \in 1..Len(r) /\ In(r, n, Planned(i, k, p)) /\ Planned(i, k, p) # new
    BY <1>3, <1>5, <1>6 DEF Has
  <2>2. n + s \in 1..(Len(r) + s) /\ (n + s) - s = n
    BY <1>2, <2>1
  <2> QED
    BY <1>1, <2>1, <2>2 DEF Has
<1>7. ASSUME NEW n, NEW k \in StagesNeeded, Has(i, p, a, n, k)
      PROVE  /\ n \in 1..Len(a)
             /\ (k = k0 /\ n = 1) \/ (k # k0 /\ n - s \in 1..Len(r) /\ Has(i, p, r, n - s, k))
  <2>1. n \in 1..Len(a) /\ In(a, n, Planned(i, k, p))
    BY <1>4, <1>7 DEF Has
  <2>2. CASE n = 1 /\ Planned(i, k, p) = new
    BY <1>5, <2>1, <2>2
  <2>3. CASE Planned(i, k, p) # new /\ In(r, n - s, Planned(i, k, p))
    BY <1>3, <2>1, <2>3 DEF Has, new
  <2> QED
    BY <1>1, <2>1, <2>2, <2>3
<1>8. Has(i, p, a, 1, k0)
  BY <1>1 DEF Has, new
<1>9. Shifted(i, p, r, s, k0, a)
  BY <1>2, <1>6, <1>7, <1>8 DEF Shifted
<1>10. ASSUME RowsDisjoint(r), NEW m, NEW n, NEW x, In(a, m, x), In(a, n, x) PROVE m = n
  <2>0. m \in Int /\ n \in Int
    BY <1>4, <1>10
  <2>1. CASE x = new
    BY <1>1, <1>10, <2>1
  <2>2. CASE x # new
    <3>1. In(r, m - s, x) /\ In(r, n - s, x)
      BY <1>1, <1>10, <2>2
    <3>2. m - s = n - s
      BY <1>10, <3>1 DEF RowsDisjoint
    <3> QED
      BY <2>0, <3>2
  <2> QED
    BY <2>1, <2>2
<1> QED
  BY <1>9, <1>10 DEF RowsDisjoint

\* While the stages of i are walked for p, q being the queue and r the sets: the
\* levels of the items are those of the last set and of the one after it, in order.
WalkLevels(q, r) ==
  /\ \A j \in 1..Len(q) : q[j].level \in {Len(r) - 1, Len(r)}
  /\ \A j, m \in 1..Len(q) : j <= m => q[j].level <= q[m].level

\* The target has been met; what a stage of a set is made from is in an earlier
\* set, or queued with a level that will put it in one.
WalkNeeds(i, p, q, r) ==
  /\ (\E n : Has(i, p, r, n, Target)) \/ \E j \in 1..Len(q) : q[j].stage = Target
  /\ \A n, k, d : k \in StagesNeeded /\ Has(i, p, r, n, k) /\ d \in StagesOf(k) =>
       \/ \E m \in 1..(n - 1) : Has(i, p, r, m, d)
       \/ \E j \in 1..Len(q) : q[j].stage = d /\ q[j].level + n > Len(r)

\* No set is skipped: a stage that is not in the last set, or is queued, is there
\* for one in the next set or in an earlier one.
WalkUsers(i, p, q, r) ==
  /\ Len(r) # 0 => \E k \in StagesNeeded : Has(i, p, r, 1, k)
  /\ \A n, d : d \in StagesNeeded /\ n \in 1..(Len(r) - 1) /\ Has(i, p, r, n, d) =>
       \E k \in StagesNeeded : \E m \in 1..(n + 1) : d \in StagesOf(k) /\ Has(i, p, r, m, k)
  /\ \A j \in 1..Len(q) : q[j].level >= 1 =>
       \E k \in StagesNeeded : \E m \in 1..Len(r) :
         q[j].stage \in StagesOf(k) /\ Has(i, p, r, m, k) /\ q[j].level + m <= Len(r) + 1

Walk(i, p, q, r) ==
  /\ q \in Seq(Items(i, p)) /\ r \in Seq(Seq(ImagesOf(i, p)))
  /\ RowsOnce(r) /\ RowsDisjoint(r)
  /\ WalkLevels(q, r) /\ WalkNeeds(i, p, q, r) /\ WalkUsers(i, p, q, r)

LEMMA WalkBegins ==
  ASSUME cfg \in Configs, cfg.staged # {}, NEW i, NEW p
  PROVE  Walk(i, p, <<Queued(i, Target, 0, p)>>, <<>>)
<1> DEFINE x == Queued(i, Target, 0, p)
           q == <<x>>
<1>1. Target \in StagesNeeded
  BY NeededStages
<1>2. x \in Items(i, p) /\ x.level = 0 /\ x.stage = Target
  <2>1. <<Target, 0>> \in StagesNeeded \X Nat /\ <<Target, 0>>[1] = Target /\ <<Target, 0>>[2] = 0
    BY <1>1
  <2>2. x \in Items(i, p)
    BY <2>1 DEF Items
  <2> QED
    BY <2>2 DEF Queued
<1> HIDE DEF x
<1>3. q \in Seq(Items(i, p)) /\ Len(q) = 1 /\ q[1] = x
  BY <1>2
<1> HIDE DEF q
<1>4. \A n, z : ~In(<<>>, n, z)
  BY DEF In
<1>5. \A n, k : ~Has(i, p, <<>>, n, k)
  BY <1>4 DEF Has
<1>6. \A j : j \in 1..Len(q) => q[j] = x
  BY <1>3
<1>7. 1 \in 1..Len(q)
  BY <1>3
<1>8. WalkLevels(q, <<>>)
  BY <1>2, <1>6 DEF WalkLevels
<1>9. WalkNeeds(i, p, q, <<>>)
  BY <1>2, <1>5, <1>6, <1>7 DEF WalkNeeds
<1>10. WalkUsers(i, p, q, <<>>)
  BY <1>2, <1>5, <1>6 DEF WalkUsers
<1>11. RowsOnce(<<>>) /\ RowsDisjoint(<<>>) /\ <<>> \in Seq(Seq(ImagesOf(i, p)))
  BY <1>4 DEF RowsOnce, RowsDisjoint
<1> QED
  BY <1>3, <1>8, <1>9, <1>10, <1>11 DEF Walk, q, x

LEMMA ItemFacts ==
  ASSUME NEW i, NEW p, NEW x \in Items(i, p)
  PROVE  x.stage \in StagesNeeded /\ x.level \in Nat /\ x = Queued(i, x.stage, x.level, p)
<1>1. PICK z \in StagesNeeded \X Nat : x = Queued(i, z[1], z[2], p)
  BY DEF Items
<1>2. x.stage = z[1] /\ x.level = z[2]
  BY <1>1 DEF Queued
<1> QED
  BY <1>1, <1>2

LEMMA WalkGoesOn ==
  ASSUME cfg \in Configs, AsWritten, NEW i \in cfg.staged, NEW p, NEW q, NEW r, Walk(i, p, q, r),
         q # <<>>, NEW k0, NEW l, Head(q) = Queued(i, k0, l, p), NEW q1, NEW r1,
         Expanded(i, p, k0, l + 1, q, q1),
         r1 = AppendImageToCurrentSet(r, l, Planned(i, k0, p))
  PROVE  Walk(i, p, q1, r1) /\ r1 # <<>>
<1> DEFINE E == ImagesOf(i, p)
           s == IF l = Len(r) THEN 1 ELSE 0
<1>1. /\ q \in Seq(Items(i, p)) /\ r \in Seq(Seq(E)) /\ RowsOnce(r) /\ RowsDisjoint(r)
      /\ Len(q) \in Nat \ {0} /\ Len(r) \in Nat
  BY DEF Walk
<1>2. q[1] = Queued(i, k0, l, p) /\ 1 \in 1..Len(q) /\ q[1].stage = k0 /\ q[1].level = l
  <2>1. q[1] = Head(q) /\ 1 \in 1..Len(q)
    BY <1>1
  <2> QED
    BY <2>1 DEF Queued
<1>3. k0 \in StagesNeeded /\ l \in Nat
  <2>1. q[1] \in Items(i, p)
    BY <1>1, <1>2
  <2> QED
    BY <1>2, <2>1, ItemFacts
<1>4. l \in {Len(r) - 1, Len(r)}
  BY <1>2 DEF Walk, WalkLevels
<1>5. s \in {0, 1} /\ l + 1 = Len(r) + s
  BY <1>1, <1>3, <1>4
<1> HIDE DEF s
<1>6. MovedFirst(E, r, s, Planned(i, k0, p), r1)
  <2>1. \A x, y \in E : x.name = y.name => x = y
    BY PlannedTold
  <2>2. Planned(i, k0, p) \in E
    BY <1>3, PlannedTold
  <2> HIDE DEF E
  <2> QED
    BY <1>1, <1>3, <1>5, <2>1, <2>2, AppendMoves
<1>7. Shifted(i, p, r, s, k0, r1) /\ RowsDisjoint(r1)
  BY <1>1, <1>3, <1>5, <1>6, StageMoves
<1>8. r1 \in Seq(Seq(E)) /\ RowsOnce(r1) /\ Len(r1) = l + 1
  BY <1>5, <1>6 DEF MovedFirst
<1> HIDE DEF E
<1>9. /\ \A n, k : k \in StagesNeeded /\ k # k0 /\ Has(i, p, r, n, k) =>
           n \in 1..Len(r) /\ Has(i, p, r1, n + s, k)
      /\ \A n, k : k \in StagesNeeded /\ Has(i, p, r1, n, k) =>
           /\ n \in 1..Len(r1)
           /\ (k = k0 /\ n = 1) \/ (k # k0 /\ n - s \in 1..Len(r) /\ Has(i, p, r, n - s, k))
      /\ Has(i, p, r1, 1, k0)
  BY <1>7 DEF Shifted
<1>10. \A k \in StagesNeeded : StagesOf(k) \subseteq StagesNeeded /\ k \notin StagesOf(k)
  <2>1. cfg.staged # {}
    OBVIOUS
  <2>2. ASSUME NEW k \in StagesNeeded PROVE StagesOf(k) \subseteq StagesNeeded /\ k \notin StagesOf(k)
    <3>1. k \in 1..Target /\ StagesOf(k) \subseteq StagesNeeded
      BY <2>1, NeededStages
    <3>2. StagesOf(k) \subseteq 1..(k - 1)
      BY <3>1, EarlierStages
    <3> QED
      BY <3>1, <3>2
  <2> QED
    BY <2>2
<1>11. q1 \in Seq(Items(i, p)) /\ Len(q1) \in Nat /\ Len(q1) >= Len(q) - 1
  BY DEF Expanded
\* An item is one of before, or one for a stage that k0 is made from.
<1>12. ASSUME NEW j \in 1..Len(q1)
       PROVE  \/ j + 1 \in 1..Len(q) /\ q1[j] = q[j + 1]
              \/ j >= Len(q) /\ q1[j].stage \in StagesOf(k0) /\ q1[j].level = l + 1
  <2>1. CASE j \in 1..(Len(q) - 1)
    <3>1. j + 1 \in 1..Len(q)
      BY <1>1, <2>1
    <3> QED
      BY <2>1, <3>1 DEF Expanded
  <2>2. CASE j \notin 1..(Len(q) - 1)
    <3>1. j \in Len(q)..Len(q1) /\ j >= Len(q)
      BY <1>1, <1>11, <2>2
    <3>2. PICK d \in StagesOf(k0) : q1[j] = Queued(i, d, l + 1, p)
      BY <3>1 DEF Expanded
    <3> QED
      BY <3>1, <3>2 DEF Queued
  <2> QED
    BY <2>1, <2>2
<1>13. ASSUME NEW d \in StagesOf(k0)
       PROVE  \E j \in 1..Len(q1) : q1[j].stage = d /\ q1[j].level = l + 1
  <2>1. PICK j \in Len(q)..Len(q1) : q1[j] = Queued(i, d, l + 1, p)
    BY DEF Expanded
  <2>2. j \in 1..Len(q1)
    BY <1>1, <1>11
  <2> QED
    BY <2>1, <2>2 DEF Queued
<1>14. ASSUME NEW j \in 1..Len(q), j # 1 PROVE j - 1 \in 1..Len(q1) /\ q1[j - 1] = q[j]
  <2>1. j - 1 \in 1..(Len(q) - 1) /\ j - 1 \in 1..Len(q1) /\ (j - 1) + 1 = j
    BY <1>1, <1>11, <1>14
  <2> QED
    BY <2>1 DEF Expanded
<1>15. \A j \in 1..Len(q) : q[j].level \in Nat /\ q[j].stage \in StagesNeeded
  BY <1>1, ItemFacts
<1>16. WalkLevels(q1, r1)
  <2>1. \A j \in 1..Len(q) : q[j].level \in {Len(r) - 1, Len(r)}
    BY DEF Walk, WalkLevels
  <2>2. \A j, m \in 1..Len(q) : j <= m => q[j].level <= q[m].level
    BY DEF Walk, WalkLevels
  <2>3. \A j \in 1..Len(q) : l <= q[j].level /\ q[j].level \in {l, l + 1}
    <3>1. ASSUME NEW j \in 1..Len(q) PROVE l <= q[j].level /\ q[j].level \in {l, l + 1}
      <4>1. 1 <= j
        OBVIOUS
      <4>2. l <= q[j].level
        BY <1>2, <2>2, <4>1
      <4> QED
        BY <1>1, <1>3, <1>4, <1>15, <2>1, <4>2
    <3> QED
      BY <3>1
  <2>4. ASSUME NEW j \in 1..Len(q1) PROVE q1[j].level \in {l, l + 1}
    BY <1>12, <2>3
  <2>5. ASSUME NEW j \in 1..Len(q1), NEW m \in 1..Len(q1), j <= m PROVE q1[j].level <= q1[m].level
    <3>1. CASE j + 1 \in 1..Len(q) /\ q1[j] = q[j + 1] /\ m + 1 \in 1..Len(q) /\ q1[m] = q[m + 1]
      <4>1. j + 1 <= m + 1
        BY <2>5
      <4> QED
        BY <2>2, <3>1, <4>1
    <3>2. CASE q1[m].level = l + 1
      <4>1. q1[j].level \in {l, l + 1}
        BY <2>4
      <4> QED
        BY <1>3, <3>2, <4>1
    <3>3. CASE j >= Len(q) /\ m + 1 \in 1..Len(q)
      BY <1>1, <2>5, <3>3
    <3> QED
      BY <1>12, <3>1, <3>2, <3>3
  <2>6. Len(r1) - 1 = l
    BY <1>3, <1>8
  <2> QED
    BY <1>8, <2>4, <2>5, <2>6 DEF WalkLevels
<1>17. ASSUME NEW n, NEW k, k \in StagesNeeded, Has(i, p, r1, n, k), NEW d \in StagesOf(k)
       PROVE  \/ \E m \in 1..(n - 1) : Has(i, p, r1, m, d)
              \/ \E j \in 1..Len(q1) : q1[j].stage = d /\ q1[j].level + n > Len(r1)
  <2>0. d \in StagesNeeded /\ n \in 1..Len(r1)
    BY <1>9, <1>10, <1>17
  <2>1. CASE k = k0 /\ n = 1
    <3>1. PICK j \in 1..Len(q1) : q1[j].stage = d /\ q1[j].level = l + 1
      BY <1>13, <1>17, <2>1
    <3>2. q1[j].level + n > Len(r1)
      BY <1>3, <1>8, <2>1, <3>1
    <3> QED
      BY <3>1, <3>2
  <2>2. CASE k # k0 /\ n - s \in 1..Len(r) /\ Has(i, p, r, n - s, k)
    <3> DEFINE n0 == n - s
    <3>1. n0 \in 1..Len(r) /\ Has(i, p, r, n0, k) /\ n = n0 + s
      BY <1>5, <2>0, <2>2
    <3> HIDE DEF n0
    <3>2. CASE \E m \in 1..(n0 - 1) : Has(i, p, r, m, d)
      <4>1. PICK m \in 1..(n0 - 1) : Has(i, p, r, m, d)
        BY <3>2
      <4>2. CASE d = k0
        <5>1. 1 \in 1..(n - 1)
          BY <1>5, <3>1
        <5> QED
          BY <1>9, <4>2, <5>1
      <4>3. CASE d # k0
        <5>1. m + s \in 1..(n - 1)
          BY <1>1, <1>5, <3>1
        <5>2. Has(i, p, r1, m + s, d)
          BY <1>9, <2>0, <4>1, <4>3
        <5> QED
          BY <5>1, <5>2
      <4> QED
        BY <4>2, <4>3
    <3>3. CASE \E j \in 1..Len(q) : q[j].stage = d /\ q[j].level + n0 > Len(r)
      <4>1. PICK j \in 1..Len(q) : q[j].stage = d /\ q[j].level + n0 > Len(r)
        BY <3>3
      <4>2. CASE j = 1
        <5>1. d = k0 /\ l + n0 > Len(r)
          BY <1>2, <4>1, <4>2
        <5>2. 1 \in 1..(n - 1)
          BY <1>1, <1>3, <1>5, <3>1, <5>1
        <5> QED
          BY <1>9, <5>1, <5>2
      <4>3. CASE j # 1
        <5>1. j - 1 \in 1..Len(q1) /\ q1[j - 1].stage = d /\ q1[j - 1].level = q[j].level
          BY <1>14, <4>1, <4>3
        <5>2. q[j].level + n > Len(r1)
          <6> DEFINE v == q[j].level
                     a == Len(r)
                     b == Len(r1)
          <6>1. v \in Nat /\ v + n0 > a /\ a \in Nat /\ b = l + 1 /\ l + 1 = a + s /\ n = n0 + s /\ n0 \in 1..a
            BY <1>1, <1>5, <1>8, <1>15, <3>1, <4>1
          <6> HIDE DEF v, a, b
          <6>2. v + n > b
            BY <1>5, <6>1
          <6> QED
            BY <6>2 DEF v, b
        <5> QED
          BY <5>1, <5>2
      <4> QED
        BY <4>2, <4>3
    <3> QED
      BY <1>17, <3>1, <3>2, <3>3 DEF Walk, WalkNeeds
  <2> QED
    BY <1>9, <1>17, <2>1, <2>2
<1>18. (\E n : Has(i, p, r1, n, Target)) \/ \E j \in 1..Len(q1) : q1[j].stage = Target
  <2>1. CASE k0 = Target
    BY <1>9, <2>1
  <2>2. CASE k0 # Target /\ \E n : Has(i, p, r, n, Target)
    <3>1. Target \in StagesNeeded
      BY NeededStages
    <3> QED
      BY <1>9, <2>2, <3>1
  <2>3. CASE k0 # Target /\ \E j \in 1..Len(q) : q[j].stage = Target
    <3>1. PICK j \in 1..Len(q) : q[j].stage = Target
      BY <2>3
    <3>2. j # 1
      BY <1>2, <2>3, <3>1
    <3> QED
      BY <1>14, <3>1, <3>2
  <2> QED
    BY <2>1, <2>2, <2>3 DEF Walk, WalkNeeds
<1>19. WalkNeeds(i, p, q1, r1)
  BY <1>17, <1>18 DEF WalkNeeds
\* What a stage was there for is still there, no further.
<1>20. ASSUME NEW k \in StagesNeeded, NEW m \in 1..Len(r), Has(i, p, r, m, k)
       PROVE  \E n \in 1..(m + s) : Has(i, p, r1, n, k) /\ n \in 1..Len(r1)
  <2>1. CASE k = k0
    <3>1. 1 \in 1..(m + s)
      BY <1>5
    <3> QED
      BY <1>3, <1>9, <2>1, <3>1
  <2>2. CASE k # k0
    <3>1. Has(i, p, r1, m + s, k)
      BY <1>9, <1>20, <2>2
    <3>2. m + s \in 1..(m + s)
      BY <1>5
    <3> QED
      BY <1>9, <3>1, <3>2
  <2> QED
    BY <2>1, <2>2
<1>21. ASSUME NEW n, NEW d, d \in StagesNeeded, n \in 1..(Len(r1) - 1), Has(i, p, r1, n, d)
       PROVE  \E k \in StagesNeeded : \E m \in 1..(n + 1) : d \in StagesOf(k) /\ Has(i, p, r1, m, k)
  <2>1. CASE d = k0 /\ n = 1
    <3>1. l >= 1
      BY <1>3, <1>8, <1>21
    <3>2. PICK k \in StagesNeeded : \E m \in 1..Len(r) :
            k0 \in StagesOf(k) /\ Has(i, p, r, m, k) /\ l + m <= Len(r) + 1
      BY <1>2, <3>1 DEF Walk, WalkUsers
    <3>3. PICK m \in 1..Len(r) : k0 \in StagesOf(k) /\ Has(i, p, r, m, k) /\ l + m <= Len(r) + 1
      BY <3>2
    <3>4. PICK m1 \in 1..(m + s) : Has(i, p, r1, m1, k)
      BY <1>20, <3>3
    <3>5. m1 \in 1..(n + 1)
      BY <1>1, <1>3, <1>5, <2>1, <3>3
    <3> QED
      BY <2>1, <3>3, <3>4, <3>5
  <2>2. CASE d # k0 /\ n - s \in 1..Len(r) /\ Has(i, p, r, n - s, d)
    <3> DEFINE n0 == n - s
    <3>1. n0 \in 1..(Len(r) - 1) /\ Has(i, p, r, n0, d) /\ n = n0 + s
      BY <1>1, <1>3, <1>5, <1>8, <1>21, <2>2
    <3> HIDE DEF n0
    <3>2. PICK k \in StagesNeeded : \E m \in 1..(n0 + 1) : d \in StagesOf(k) /\ Has(i, p, r, m, k)
      BY <1>21, <3>1 DEF Walk, WalkUsers
    <3>3. PICK m \in 1..(n0 + 1) : d \in StagesOf(k) /\ Has(i, p, r, m, k)
      BY <3>2
    <3>4. m \in 1..Len(r)
      BY <1>1, <3>1
    <3>5. PICK m1 \in 1..(m + s) : Has(i, p, r1, m1, k)
      BY <1>20, <3>3, <3>4
    <3>6. m1 \in 1..(n + 1)
      BY <1>5, <3>1, <3>4
    <3> QED
      BY <3>3, <3>5, <3>6
  <2> QED
    BY <1>9, <1>21, <2>1, <2>2
<1>22. ASSUME NEW j \in 1..Len(q1), q1[j].level >= 1
       PROVE  \E k \in StagesNeeded : \E m \in 1..Len(r1) :
                q1[j].stage \in StagesOf(k) /\ Has(i, p, r1, m, k) /\ q1[j].level + m <= Len(r1) + 1
  <2>1. CASE j + 1 \in 1..Len(q) /\ q1[j] = q[j + 1]
    <3> DEFINE h == q[j + 1]
    <3>1. q1[j] = h /\ h.level >= 1 /\ h.level \in Nat
      BY <1>15, <1>22, <2>1
    <3>2. \E k \in StagesNeeded : \E m \in 1..Len(r) :
            h.stage \in StagesOf(k) /\ Has(i, p, r, m, k) /\ h.level + m <= Len(r) + 1
      BY <2>1, <3>1 DEF Walk, WalkUsers
    <3> HIDE DEF h
    <3>3. PICK k \in StagesNeeded : \E m \in 1..Len(r) :
            h.stage \in StagesOf(k) /\ Has(i, p, r, m, k) /\ h.level + m <= Len(r) + 1
      BY <3>2
    <3>4. PICK m \in 1..Len(r) :
            h.stage \in StagesOf(k) /\ Has(i, p, r, m, k) /\ h.level + m <= Len(r) + 1
      BY <3>3
    <3>5. PICK m1 \in 1..(m + s) : Has(i, p, r1, m1, k) /\ m1 \in 1..Len(r1)
      BY <1>20, <3>4
    <3>6. h.level + m1 <= Len(r1) + 1
      <4> DEFINE v == h.level
                 a == Len(r)
                 b == Len(r1)
      <4>1. v \in Nat /\ v + m <= a + 1 /\ a \in Nat /\ b = l + 1 /\ l + 1 = a + s
        BY <1>1, <1>5, <1>8, <3>1, <3>4
      <4>2. m1 \in 1..(m + s) /\ m \in 1..a
        BY <3>4, <3>5
      <4> HIDE DEF v, a, b
      <4>3. v + m1 <= b + 1
        BY <1>5, <4>1, <4>2
      <4> QED
        BY <4>3 DEF v, b
    <3> QED
      BY <3>1, <3>4, <3>5, <3>6
  <2>2. CASE q1[j].stage \in StagesOf(k0) /\ q1[j].level = l + 1
    <3>1. 1 \in 1..Len(r1) /\ q1[j].level + 1 <= Len(r1) + 1
      BY <1>3, <1>8, <2>2
    <3> QED
      BY <1>3, <1>9, <2>2, <3>1
  <2> QED
    BY <1>12, <2>1, <2>2
<1>23. WalkUsers(i, p, q1, r1)
  BY <1>3, <1>9, <1>21, <1>22 DEF WalkUsers
<1>24. r1 # <<>>
  BY <1>3, <1>8
<1> QED
  BY <1>7, <1>8, <1>11, <1>16, <1>19, <1>23, <1>24 DEF Walk, E

\* The image of a stage of the Dockerfile is made from those of the stages it names.
LEMMA StageNeeds ==
  ASSUME cfg \in Configs, NEW i \in cfg.staged, NEW p, NEW k \in StagesNeeded, NEW d \in StagesNeeded,
         i \notin Relatives[i]
  PROVE  NeedsImage(Planned(i, k, p), Planned(i, d, p)) <=> d \in StagesOf(k)
<1>1. k \in 1..Target /\ d \in 1..Target /\ k # 0 /\ Target \in Nat
  <2>1. k \in 1..Target /\ d \in 1..Target /\ Target \in Nat
    BY NeededStages, ConfigFacts
  <2> QED
    BY <2>1
<1>2. \A l : Planned(i, l, p).name[1] = i /\ Planned(i, l, p).stage = l /\ Planned(i, l, p).platform = p
  BY DEF Planned, Image, NameOf, StageName
<1>3. Needs(Planned(i, k, p)) = {<<i, l, p>> : l \in StagesOf(k)}
                                  \cup {<<j, TargetOf(j), p>> : j \in Relatives[i]}
  BY <1>1, <1>2 DEF Needs
<1>4. Meant(Planned(i, d, p)) = <<i, d, p>>
  BY <1>2 DEF Meant
<1> QED
  BY <1>3, <1>4 DEF NeedsImage

\* When the queue is empty the sets hold each stage that is needed once, what it is
\* made from in earlier sets, and none of them is empty.
LEMMA WalkEnds ==
  ASSUME cfg \in Configs, AsWritten, NEW i \in cfg.staged, NEW p, NEW r, Walk(i, p, <<>>, r),
         i \notin Relatives[i]
  PROVE  OnceInSets(r, ImagesOf(i, p)) /\ SetsInOrder(r) /\ NonEmptySets(r)
<1> DEFINE E == ImagesOf(i, p)
<1>0. E = {Planned(i, k, p) : k \in StagesNeeded}
  BY PlannedTold
<1>1. r \in Seq(Seq(E)) /\ RowsOnce(r) /\ RowsDisjoint(r) /\ Len(r) \in Nat
  BY DEF Walk
<1>2. ASSUME NEW n, NEW k, k \in StagesNeeded, Has(i, p, r, n, k), NEW d \in StagesOf(k)
      PROVE  \E m \in 1..(n - 1) : Has(i, p, r, m, d)
  <2>1. ~\E j \in 1..Len(<<>>) : TRUE
    OBVIOUS
  <2> QED
    BY <1>2, <2>1 DEF Walk, WalkNeeds
<1>3. \A k, m, n : Has(i, p, r, m, k) /\ Has(i, p, r, n, k) => m = n
  BY <1>1 DEF RowsDisjoint, Has
<1>4. cfg.staged # {} /\ StagesNeeded \subseteq 1..Target
  BY NeededStages
<1>5. ASSUME NEW k \in StagesNeeded PROVE \E n : Has(i, p, r, n, k)
  <2> DEFINE T == {l \in StagesNeeded : \E n : Has(i, p, r, n, l)}
  <2>1. T \in SUBSET (1..Target)
    BY <1>4
  <2>2. Target \in T
    <3>1. ~\E j \in 1..Len(<<>>) : TRUE
      OBVIOUS
    <3>2. Target \in StagesNeeded
      BY <1>4, NeededStages
    <3> QED
      BY <3>1, <3>2 DEF Walk, WalkNeeds
  <2>3. ASSUME NEW l \in T, NEW d \in StagesOf(l) PROVE d \in T
    <3>1. d \in StagesNeeded
      BY <1>4, NeededStages
    <3> QED
      BY <1>2, <3>1
  <2> HIDE DEF T
  <2>4. StagesNeeded \subseteq T
    BY <1>4, <2>1, <2>2, <2>3, NeededStages
  <2> QED
    BY <2>4 DEF T
<1>6. OnceInSets(r, E)
  <2>1. ASSUME NEW x \in E PROVE \E n : In(r, n, x)
    <3>1. PICK k \in StagesNeeded : x = Planned(i, k, p)
      BY <1>0
    <3>2. PICK n : Has(i, p, r, n, k)
      BY <1>5
    <3> QED
      BY <3>1, <3>2 DEF Has
  <2> HIDE DEF E
  <2> QED
    BY <1>1, <2>1, InOnce
<1>7. ASSUME NEW n \in 1..Len(r), NEW k \in 1..Len(r[n])
      PROVE  \E d \in StagesNeeded : r[n][k] = Planned(i, d, p) /\ Has(i, p, r, n, d)
  <2>1. r[n][k] \in E
    <3> HIDE DEF E
    <3>1. r[n] \in Seq(E)
      BY <1>1
    <3> QED
      BY <3>1
  <2>2. PICK d \in StagesNeeded : r[n][k] = Planned(i, d, p)
    BY <1>0, <2>1
  <2>3. Has(i, p, r, n, d)
    BY <2>2 DEF Has, In
  <2> QED
    BY <2>2, <2>3
<1>8. SetsInOrder(r)
  <2> SUFFICES ASSUME NEW m \in 1..Len(r), NEW n \in 1..Len(r), NEW k \in 1..Len(r[m]),
                      NEW l \in 1..Len(r[n]), NeedsImage(r[n][l], r[m][k])
               PROVE  m < n
    BY DEF SetsInOrder
  <2>1. PICK d \in StagesNeeded : r[m][k] = Planned(i, d, p) /\ Has(i, p, r, m, d)
    BY <1>7
  <2>2. PICK e \in StagesNeeded : r[n][l] = Planned(i, e, p) /\ Has(i, p, r, n, e)
    BY <1>7
  <2>3. d \in StagesOf(e)
    BY <2>1, <2>2, StageNeeds
  <2>4. PICK m1 \in 1..(n - 1) : Has(i, p, r, m1, d)
    BY <1>2, <2>2, <2>3
  <2>5. m1 = m
    BY <1>3, <2>1, <2>4
  <2> QED
    BY <1>1, <2>4, <2>5
<1>9. NonEmptySets(r)
  <2>1. SUFFICES ASSUME NEW n0 \in 1..Len(r), Len(r[n0]) = 0 PROVE FALSE
    BY DEF NonEmptySets
  <2> DEFINE P(n) == n \in 1..Len(r) /\ Len(r[n]) = 0
             B == {n \in Nat : P(n)}
  <2>2. n0 \in B /\ B \subseteq Nat
    BY <2>1
  <2>3. PICK n \in B : \A m \in B : n <= m
    <3> HIDE DEF B
    <3> QED
      BY <2>2, LeastNatural
  <2>4. n \in 1..Len(r) /\ Len(r[n]) = 0
    OBVIOUS
  <2>5. \A k : ~Has(i, p, r, n, k)
    BY <2>4 DEF Has, In
  <2>6. n # 1
    <3>1. Len(r) # 0
      BY <1>1, <2>4
    <3>2. \E k \in StagesNeeded : Has(i, p, r, 1, k)
      BY <3>1 DEF Walk, WalkUsers
    <3> QED
      BY <2>5, <3>2
  <2> DEFINE m == n - 1
  <2>7. m \in 1..Len(r) /\ m \in 1..(Len(r) - 1) /\ m \in Nat /\ ~(n <= m) /\ m + 1 = n
    BY <1>1, <2>4, <2>6
  <2>8. Len(r[m]) # 0
    BY <2>3, <2>7
  <2> HIDE DEF m, B, P
  <2>9. 1 \in 1..Len(r[m])
    <3>1. r[m] \in Seq(E)
      BY <1>1, <2>7
    <3> HIDE DEF E
    <3>2. Len(r[m]) \in Nat
      BY <3>1
    <3> QED
      BY <2>8, <3>2
  <2>10. PICK d \in StagesNeeded : Has(i, p, r, m, d)
    BY <1>7, <2>7, <2>9
  <2>11. PICK k \in StagesNeeded : \E z \in 1..(m + 1) : d \in StagesOf(k) /\ Has(i, p, r, z, k)
    BY <2>7, <2>10 DEF Walk, WalkUsers
  <2>12. PICK z \in 1..(m + 1) : d \in StagesOf(k) /\ Has(i, p, r, z, k)
    BY <2>11
  <2>13. PICK y \in 1..(z - 1) : Has(i, p, r, y, d)
    BY <1>2, <2>12
  <2>14. y = m
    BY <1>3, <2>10, <2>13
  <2>15. z = n
    BY <2>7, <2>12, <2>13, <2>14
  <2> QED
    BY <2>5, <2>12, <2>15
<1> QED
  BY <1>6, <1>8, <1>9

-----------------------------------------------------------------------------
(* The invariant.  Its parts are about the values of the variables; the   *)
(* configuration they are read with does not change.                      *)

Wanted(a) == Reached(a, Relatives)
LeftIn(g) == UNION ToSet(g)
Done(a, g) == Wanted(a) \ LeftIn(g)
First(g) == IF g = <<>> THEN {} ELSE g[1]

\* The images for the pairs of a configured image and a platform.
PairsOf(S) == {z \in Images \X Platforms : z[1] \in S /\ z[2] \in TargetPlatforms(z[1])}
ImagesFor(Z) == UNION {ImagesOf(z[1], z[2]) : z \in Z}

\* The groups are disjoint, and an image needs none of its group or of a later one.
Grouped(g) ==
  /\ g \in Seq(SUBSET cfg.defined)
  /\ \A n \in 1..Len(g) : g[n] # {}
  /\ \A m, n \in 1..Len(g) : g[m] \cap g[n] # {} => m = n
  /\ \A m, n \in 1..Len(g) : m <= n => \A i \in g[m], j \in g[n] : j \notin Relatives[i]

\* During the rounds: what is grouped is what is wanted and not to handle, with
\* all that it needs.
Rounds(a, h, g) ==
  /\ Grouped(g)
  /\ h = [i \in DOMAIN h |-> Relatives[i]]
  /\ DOMAIN h = Done(a, g) /\ LeftIn(g) \subseteq Wanted(a)
  /\ \A i \in LeftIn(g) : Relatives[i] \subseteq LeftIn(g)

\* The pairs that have been mapped, W being the platforms of the image in hand
\* whose stages are walked.
Settled(a, g, t, m, W) ==
  {z \in PairsOf(Done(a, g) \cup (First(g) \ t)) : ~(z[1] = m.image /\ z[2] \in m.platforms \cup W)}

Walking(m, q, r, W) ==
  \/ q = <<>> /\ r = <<>> /\ W = {}
  \/ /\ q # <<>> \/ r # <<>>
     /\ m.image \in cfg.staged
     /\ \E p \in TargetPlatforms(m.image) \ m.platforms : W = {p} /\ Walk(m.image, p, q, r)

\* While the images of a group are mapped.
Mapping(a, g, t, m, q, r, b, W) ==
  /\ Grouped(g) /\ g # <<>> /\ LeftIn(g) \subseteq Wanted(a)
  /\ \A i \in Done(a, g), j \in LeftIn(g) : j \notin Relatives[i]
  /\ t \subseteq g[1]
  /\ m = [image |-> m.image, platforms |-> m.platforms]
  /\ m.platforms \cup W # {} => m.image \in g[1] \ t /\ m.platforms \subseteq TargetPlatforms(m.image)
  /\ Walking(m, q, r, W)
  /\ b = [images |-> b.images, imagesSets |-> b.imagesSets, curSetInd |-> b.curSetInd,
          nextSetInd |-> b.nextSetInd]
  /\ Holds(b, ImagesFor(Settled(a, g, t, m, W)), ImagesFor(PairsOf(Done(a, g))))

\* The plan that is built.
Ready(a, b) == \E F : Holds(b, ImagesFor(PairsOf(Wanted(a))), F)

LEMMA SameConfig ==
  ASSUME cfg' = cfg
  PROVE  /\ Target' = Target /\ AsWritten' = AsWritten /\ Relatives' = Relatives
         /\ StagesNeeded' = StagesNeeded
         /\ \A k : StagesOf(k)' = StagesOf(k)
         /\ \A i : TargetPlatforms(i)' = TargetPlatforms(i)
         /\ \A i, p : ImagesOf(i, p)' = ImagesOf(i, p)
         /\ \A i, k, p : Planned(i, k, p)' = Planned(i, k, p)
         /\ \A i, k : NameOf(i, k)' = NameOf(i, k)
         /\ \A i, p : Items(i, p)' = Items(i, p)
<1>1. Target' = Target
  BY DEF Target
<1>2. AsWritten' = AsWritten
  BY DEF AsWritten
<1>3. Relatives' = Relatives
  BY DEF Relatives
<1>4. ASSUME NEW k PROVE StagesOf(k)' = StagesOf(k)
  BY DEF StagesOf
<1>5. StagesNeeded' = StagesNeeded
  BY <1>4 DEF StagesNeeded
<1>6. ASSUME NEW i PROVE TargetPlatforms(i)' = TargetPlatforms(i)
  BY DEF TargetPlatforms
<1>7. ASSUME NEW i, NEW k PROVE NameOf(i, k)' = NameOf(i, k)
  BY <1>1 DEF NameOf, StageName
<1>8. ASSUME NEW i, NEW k, NEW p PROVE Planned(i, k, p)' = Planned(i, k, p)
  BY <1>7 DEF Planned, Image
<1>9. ASSUME NEW i, NEW p PROVE ImagesOf(i, p)' = ImagesOf(i, p)
  BY <1>5, <1>8 DEF ImagesOf, StagesFor
<1>10. ASSUME NEW i, NEW p PROVE Items(i, p)' = Items(i, p)
  BY <1>5, <1>7 DEF Items, Queued
<1> QED
  BY <1>1, <1>2, <1>3, <1>4, <1>5, <1>6, <1>7, <1>8, <1>9, <1>10

LEMMA SameWalk ==
  ASSUME cfg' = cfg, NEW i, NEW p, NEW q, NEW r
  PROVE  Walk(i, p, q, r)' = Walk(i, p, q, r)
<1>1. ASSUME NEW s, NEW n, NEW k PROVE Has(i, p, s, n, k)' = Has(i, p, s, n, k)
  BY SameConfig DEF Has
<1>2. WalkNeeds(i, p, q, r)' = WalkNeeds(i, p, q, r)
  BY <1>1, SameConfig DEF WalkNeeds
<1>3. WalkUsers(i, p, q, r)' = WalkUsers(i, p, q, r)
  BY <1>1, SameConfig DEF WalkUsers
<1> QED
  BY <1>2, <1>3, SameConfig DEF Walk

LEMMA SameHolds ==
  ASSUME cfg' = cfg, NEW b, NEW X, NEW F
  PROVE  Holds(b, X, F)' = Holds(b, X, F)
<1>1. ASSUME NEW x PROVE Needs(x)' = Needs(x)
  BY SameConfig DEF Needs, TargetOf
<1>2. ASSUME NEW y, NEW x PROVE NeedsImage(y, x)' = NeedsImage(y, x)
  BY <1>1 DEF NeedsImage, Meant
<1>3. ASSUME NEW s PROVE InOrder(s)' = InOrder(s)
  BY <1>2 DEF InOrder
<1>4. ASSUME NEW s PROVE SetsInOrder(s)' = SetsInOrder(s)
  BY <1>2 DEF SetsInOrder
<1> QED
  BY <1>3, <1>4 DEF Holds

LEMMA SamePairs ==
  ASSUME cfg' = cfg, NEW a
  PROVE  /\ Wanted(a)' = Wanted(a)
         /\ \A S : PairsOf(S)' = PairsOf(S)
         /\ \A Z : ImagesFor(Z)' = ImagesFor(Z)
         /\ \A g : Done(a, g)' = Done(a, g)
<1>1. Wanted(a)' = Wanted(a)
  BY SameConfig DEF Wanted, Reached
<1>2. ASSUME NEW S PROVE PairsOf(S)' = PairsOf(S)
  BY SameConfig DEF PairsOf
<1>3. ASSUME NEW Z PROVE ImagesFor(Z)' = ImagesFor(Z)
  BY SameConfig DEF ImagesFor
<1>4. ASSUME NEW g PROVE Done(a, g)' = Done(a, g)
  BY <1>1 DEF Done, LeftIn
<1> QED
  BY <1>1, <1>2, <1>3, <1>4

LEMMA SameRounds ==
  ASSUME cfg' = cfg, NEW a, NEW h, NEW g
  PROVE  Grouped(g)' = Grouped(g) /\ Rounds(a, h, g)' = Rounds(a, h, g)
<1>1. Grouped(g)' = Grouped(g)
  BY SameConfig DEF Grouped
<1> QED
  BY <1>1, SameConfig, SamePairs DEF Rounds, LeftIn

LEMMA SameMapping ==
  ASSUME cfg' = cfg, NEW a, NEW g, NEW t, NEW m, NEW q, NEW r, NEW b, NEW W
  PROVE  Mapping(a, g, t, m, q, r, b, W)' = Mapping(a, g, t, m, q, r, b, W)
<1>1. Settled(a, g, t, m, W)' = Settled(a, g, t, m, W)
  BY SamePairs DEF Settled, First
<1>2. Walking(m, q, r, W)' = Walking(m, q, r, W)
  BY SameConfig, SameWalk DEF Walking
<1> DEFINE X == ImagesFor(Settled(a, g, t, m, W))
           F == ImagesFor(PairsOf(Done(a, g)))
<1>3. Holds(b, X, F)' = Holds(b, X, F)
  BY <1>1, SamePairs, SameHolds
<1>4. Grouped(g)' = Grouped(g)
  BY SameRounds
<1>5. (LeftIn(g) \subseteq Wanted(a))' = (LeftIn(g) \subseteq Wanted(a))
  BY SamePairs DEF LeftIn
<1>6. (\A i \in Done(a, g), j \in LeftIn(g) : j \notin Relatives[i])'
        = \A i \in Done(a, g), j \in LeftIn(g) : j \notin Relatives[i]
  BY SameConfig, SamePairs DEF LeftIn
<1>7. TargetPlatforms(m.image)' = TargetPlatforms(m.image)
  BY SameConfig
<1> HIDE DEF X, F
<1> QED
  BY <1>2, <1>3, <1>4, <1>5, <1>6, <1>7 DEF Mapping, X, F

LEMMA SameReady ==
  ASSUME cfg' = cfg, NEW a, NEW b
  PROVE  Ready(a, b)' = Ready(a, b)
  BY SamePairs, SameHolds DEF Ready

-----------------------------------------------------------------------------
(* GroupImagesByIndependentSets.                                           *)

LEMMA LeftMembers ==
  ASSUME NEW S, NEW g \in Seq(S), NEW x
  PROVE  x \in LeftIn(g) <=> \E n \in 1..Len(g) : x \in g[n]
<1>1. DOMAIN g = 1..Len(g)
  OBVIOUS
<1> QED
  BY <1>1 DEF LeftIn, ToSet

LEMMA WantedDefined == ASSUME NEW a PROVE Wanted(a) \subseteq cfg.defined
  BY DEF Wanted, Reached

LEMMA RoundsBegin ==
  ASSUME NEW a, NEW h, h = [i \in Wanted(a) |-> Relatives[i]]
  PROVE  Rounds(a, h, <<>>)
<1>1. LeftIn(<<>>) = {}
  BY DEF LeftIn, ToSet
<1>2. Grouped(<<>>)
  <2>1. <<>> \in Seq(SUBSET cfg.defined) /\ Len(<<>>) = 0
    OBVIOUS
  <2> QED
    BY <2>1 DEF Grouped
<1> QED
  BY <1>1, <1>2 DEF Rounds, Done

LEMMA RoundsGoOn ==
  ASSUME NEW a, NEW h, NEW g, Rounds(a, h, g), NEW current,
         current = {i \in DOMAIN h : h[i] \subseteq LeftIn(g)}
  PROVE  Rounds(a, [i \in DOMAIN h \ current |-> h[i]], IF current = {} THEN g ELSE Append(g, current))
<1> DEFINE h1 == [i \in DOMAIN h \ current |-> h[i]]
           g1 == Append(g, current)
<1>1. /\ Grouped(g) /\ h = [i \in DOMAIN h |-> Relatives[i]]
      /\ DOMAIN h = Done(a, g) /\ LeftIn(g) \subseteq Wanted(a)
      /\ \A i \in LeftIn(g) : Relatives[i] \subseteq LeftIn(g)
  BY DEF Rounds
<1>2. \A i \in DOMAIN h : h[i] = Relatives[i] /\ i \in Wanted(a) /\ i \notin LeftIn(g)
  BY <1>1 DEF Done
<1>3. DOMAIN h1 = DOMAIN h \ current /\ h1 = [i \in DOMAIN h1 |-> Relatives[i]]
  BY <1>2
<1>4. CASE current = {}
  <2>1. DOMAIN h1 = DOMAIN h
    BY <1>3, <1>4
  <2> QED
    BY <1>1, <1>3, <1>4, <2>1 DEF Rounds
<1>5. CASE current # {}
  <2>0. /\ g \in Seq(SUBSET cfg.defined) /\ Len(g) \in Nat
        /\ \A n \in 1..Len(g) : g[n] # {}
        /\ \A m, n \in 1..Len(g) : g[m] \cap g[n] # {} => m = n
        /\ \A m, n \in 1..Len(g) : m <= n => \A i \in g[m], j \in g[n] : j \notin Relatives[i]
    BY <1>1 DEF Grouped
  <2>1. current \subseteq cfg.defined
    BY <1>2, WantedDefined
  <2>2. /\ g1 \in Seq(SUBSET cfg.defined) /\ Len(g1) = Len(g) + 1 /\ g1[Len(g) + 1] = current
        /\ \A n \in 1..Len(g) : g1[n] = g[n]
    BY <2>0, <2>1
  <2> HIDE DEF g1
  <2>3. \A n \in 1..Len(g1) : (n \in 1..Len(g) /\ g1[n] = g[n]) \/ (n = Len(g) + 1 /\ g1[n] = current)
    BY <2>0, <2>2
  <2>4. \A x : x \in LeftIn(g) <=> \E n \in 1..Len(g) : x \in g[n]
    BY <2>0, LeftMembers
  <2>5. LeftIn(g1) = LeftIn(g) \cup current
    <3>1. \A x : x \in LeftIn(g1) <=> \E n \in 1..Len(g1) : x \in g1[n]
      BY <2>2, LeftMembers
    <3>2. \A n \in 1..Len(g) : n \in 1..Len(g1)
      BY <2>0, <2>2
    <3>3. Len(g) + 1 \in 1..Len(g1)
      BY <2>0, <2>2
    <3> QED
      BY <2>2, <2>3, <2>4, <3>1, <3>2, <3>3
  <2>6. \A i \in current : Relatives[i] \subseteq LeftIn(g) /\ i \notin LeftIn(g) /\ i \in Wanted(a)
    BY <1>2
  <2>7. ASSUME NEW m \in 1..Len(g1), NEW n \in 1..Len(g1), g1[m] \cap g1[n] # {} PROVE m = n
    BY <2>0, <2>3, <2>4, <2>6, <2>7
  <2>8. ASSUME NEW m \in 1..Len(g1), NEW n \in 1..Len(g1), m <= n, NEW i \in g1[m], NEW j \in g1[n]
        PROVE  j \notin Relatives[i]
    <3>1. CASE n \in 1..Len(g) /\ g1[n] = g[n]
      <4>1. m \in 1..Len(g) /\ g1[m] = g[m]
        BY <2>0, <2>3, <2>8, <3>1
      <4> QED
        BY <2>0, <2>8, <3>1, <4>1
    <3>2. CASE g1[n] = current
      <4>1. Relatives[i] \subseteq LeftIn(g)
        BY <1>1, <2>3, <2>4, <2>6, <2>8
      <4> QED
        BY <2>6, <2>8, <3>2, <4>1
    <3> QED
      BY <2>3, <3>1, <3>2
  <2>9. \A n \in 1..Len(g1) : g1[n] # {}
    BY <1>5, <2>0, <2>3
  <2>10. Grouped(g1)
    BY <2>2, <2>7, <2>8, <2>9 DEF Grouped
  <2>11. \A i \in LeftIn(g1) : Relatives[i] \subseteq LeftIn(g1)
    BY <1>1, <2>5, <2>6
  <2>12. LeftIn(g1) \subseteq Wanted(a)
    BY <1>1, <2>5, <2>6
  <2>13. DOMAIN h1 = Done(a, g1)
    BY <1>1, <1>3, <2>5 DEF Done
  <2> HIDE DEF h1
  <2>14. Rounds(a, h1, g1)
    BY <1>3, <2>10, <2>11, <2>12, <2>13 DEF Rounds
  <2> QED
    BY <1>5, <2>14 DEF h1, g1
<1> QED
  BY <1>4, <1>5

NoImages == [images |-> <<>>, imagesSets |-> <<>>, curSetInd |-> 0, nextSetInd |-> 1]

LEMMA NothingHeld == Holds(NoImages, {}, {})
<1>1. /\ NoImages.images = <<>> /\ NoImages.imagesSets = <<>> /\ NoImages.curSetInd = 0
      /\ NoImages.nextSetInd = 1 /\ Len(<<>>) = 0
  BY DEF NoImages
<1>2. OnceIn(<<>>, {}) /\ InOrder(<<>>)
  BY DEF OnceIn, InOrder
<1>3. OnceInSets(<<>>, {}) /\ SetsInOrder(<<>>) /\ NonEmptySets(<<>>) /\ FirstSets(<<>>, 0, {})
  BY DEF OnceInSets, SetsInOrder, NonEmptySets, FirstSets
<1> QED
  BY <1>1, <1>2, <1>3 DEF Holds

LEMMA RoundsEnd ==
  ASSUME NEW a, NEW g, Rounds(a, <<>>, g)
  PROVE  /\ g = <<>> => Ready(a, NoImages)
         /\ g # <<>> => Mapping(a, g, Head(g), NoMapping, <<>>, <<>>, NoImages, {})
<1>1. /\ Grouped(g) /\ DOMAIN <<>> = Done(a, g) /\ LeftIn(g) \subseteq Wanted(a)
      /\ g \in Seq(SUBSET cfg.defined)
  BY DEF Rounds, Grouped
<1>2. Done(a, g) = {}
  BY <1>1
<1>3. PairsOf({}) = {} /\ ImagesFor({}) = {}
  BY DEF PairsOf, ImagesFor
<1>4. CASE g = <<>>
  <2>1. LeftIn(g) = {}
    BY <1>4 DEF LeftIn, ToSet
  <2>2. Wanted(a) = {}
    BY <1>2, <2>1 DEF Done
  <2> QED
    BY <1>3, <1>4, <2>2, NothingHeld DEF Ready
<1>5. CASE g # <<>>
  <2>1. Head(g) = g[1] /\ First(g) = g[1]
    BY <1>1, <1>5 DEF First
  <2>2. Settled(a, g, Head(g), NoMapping, {}) = {}
    <3>1. Done(a, g) \cup (First(g) \ Head(g)) = {}
      BY <1>2, <2>1
    <3> QED
      BY <1>3, <3>1 DEF Settled
  <2>3. NoMapping.platforms = {} /\ NoMapping = [image |-> NoMapping.image, platforms |-> NoMapping.platforms]
    BY DEF NoMapping
  <2>4. Holds(NoImages, ImagesFor(Settled(a, g, Head(g), NoMapping, {})), ImagesFor(PairsOf(Done(a, g))))
    BY <1>2, <1>3, <2>2, NothingHeld
  <2>5. NoImages = [images |-> NoImages.images, imagesSets |-> NoImages.imagesSets,
                    curSetInd |-> NoImages.curSetInd, nextSetInd |-> NoImages.nextSetInd]
    BY DEF NoImages
  <2>6. Walking(NoMapping, <<>>, <<>>, {})
    BY DEF Walking
  <2> QED
    BY <1>1, <1>2, <1>5, <2>1, <2>3, <2>4, <2>5, <2>6 DEF Mapping
<1> QED
  BY <1>4, <1>5

-----------------------------------------------------------------------------
(* The images of a group are mapped.                                       *)

LEMMA ImageFacts ==
  ASSUME NEW i, NEW p, NEW x \in ImagesOf(i, p)
  PROVE  /\ x.name[1] = i /\ x.platform = p /\ x.stage \in StagesFor(i)
         /\ x = Planned(i, x.stage, p) /\ Meant(x) = <<i, x.stage, p>>
<1>1. PICK k \in StagesFor(i) : x = Planned(i, k, p)
  BY DEF ImagesOf
<1>2. x.stage = k /\ x.platform = p /\ x.name = NameOf(i, k)
  BY <1>1 DEF Planned, Image
<1>3. NameOf(i, k)[1] = i
  BY DEF NameOf, StageName
<1> QED
  BY <1>1, <1>2, <1>3 DEF Meant

\* What an image is made from is for the same platform, and of the same configured
\* image or of a relative.
LEMMA NeedsWhat ==
  ASSUME NEW i, NEW p, NEW y \in ImagesOf(i, p), NEW j, NEW q, NEW x \in ImagesOf(j, q),
         NeedsImage(y, x)
  PROVE  p = q /\ (i = j \/ j \in Relatives[i])
<1>1. y.name[1] = i /\ y.platform = p /\ Meant(x) = <<j, x.stage, q>>
  BY ImageFacts
<1>2. Meant(x) \in {<<i, k, p>> : k \in IF y.stage = 0 THEN {} ELSE StagesOf(y.stage)}
                     \cup {<<l, TargetOf(l), p>> : l \in Relatives[i]}
  BY <1>1 DEF NeedsImage, Needs
<1>3. CASE \E k : Meant(x) = <<i, k, p>>
  BY <1>1, <1>3
<1>4. CASE \E l \in Relatives[i] : Meant(x) = <<l, TargetOf(l), p>>
  BY <1>1, <1>4
<1> QED
  BY <1>2, <1>3, <1>4

LEMMA PairAdded ==
  ASSUME NEW Z \in SUBSET (Images \X Platforms), NEW D \in SUBSET Z, NEW b,
         Holds(b, ImagesFor(Z), ImagesFor(D)),
         NEW i \in Images, NEW p \in Platforms, <<i, p>> \notin Z,
         \A z \in Z : i \notin Relatives[z[1]] /\ (z[1] \in Relatives[i] => z \in D),
         NEW new, OnceInSets(new, ImagesOf(i, p)), SetsInOrder(new), NonEmptySets(new), new # <<>>
  PROVE  Holds(MergeImagesSets(b, new), ImagesFor(Z \cup {<<i, p>>}), ImagesFor(D))
<1> DEFINE X == ImagesFor(Z)
           Y == ImagesOf(i, p)
           F == ImagesFor(D)
<1>1. ASSUME NEW x \in X PROVE \E z \in Z : x \in ImagesOf(z[1], z[2]) /\ z = <<z[1], z[2]>>
  BY DEF ImagesFor
<1>2. X \cap Y = {}
  <2> SUFFICES ASSUME NEW x \in X, x \in Y PROVE FALSE
    OBVIOUS
  <2>1. PICK z \in Z : x \in ImagesOf(z[1], z[2]) /\ z = <<z[1], z[2]>>
    BY <1>1
  <2>2. x.name[1] = z[1] /\ x.platform = z[2]
    BY <2>1, ImageFacts
  <2>3. x.name[1] = i /\ x.platform = p
    BY ImageFacts
  <2> QED
    BY <2>1, <2>2, <2>3
<1>3. F \in SUBSET X
  BY DEF ImagesFor
<1>4. Apart(X, Y, F)
  <2> SUFFICES ASSUME NEW x \in X, NEW y \in Y
               PROVE  ~NeedsImage(x, y) /\ (NeedsImage(y, x) => x \in F)
    BY DEF Apart
  <2>1. PICK z \in Z : x \in ImagesOf(z[1], z[2]) /\ z = <<z[1], z[2]>>
    BY <1>1
  <2>2. NeedsImage(x, y) => z[2] = p /\ (z[1] = i \/ i \in Relatives[z[1]])
    BY <2>1, NeedsWhat
  <2>3. NeedsImage(y, x) => z[2] = p /\ (z[1] = i \/ z[1] \in Relatives[i])
    BY <2>1, NeedsWhat
  <2>4. ~(z[2] = p /\ z[1] = i)
    BY <2>1
  <2>5. z \in D => x \in F
    BY <2>1 DEF ImagesFor
  <2> QED
    BY <2>2, <2>3, <2>4, <2>5
<1>5. ImagesFor(Z \cup {<<i, p>>}) = X \cup Y
  BY DEF ImagesFor
<1>6. Holds(b, X, F)
  OBVIOUS
<1> HIDE DEF X, Y, F
<1>7. OnceInSets(new, Y)
  BY DEF Y
<1>8. Holds(MergeImagesSets(b, new), X \cup Y, F)
  BY <1>2, <1>3, <1>4, <1>6, <1>7, MergeHolds
<1> QED
  BY <1>5, <1>8 DEF F

LEMMA PlatformsOf ==
  ASSUME cfg \in Configs, NEW i \in cfg.defined
  PROVE  TargetPlatforms(i) \subseteq Platforms /\ TargetPlatforms(i) # {}
<1>1. cfg.platform[i] \subseteq Platforms /\ cfg.common \subseteq Platforms /\ cfg.forced \subseteq Platforms
  BY ConfigFacts
<1>2. BackendPlatform \in Platforms
  BY PlatformsAssumption
<1> QED
  BY <1>1, <1>2 DEF TargetPlatforms

\* The image in hand may be merged.
LEMMA MappingFacts ==
  ASSUME cfg \in Configs, NEW a, NEW g, NEW t, NEW m, NEW q, NEW r, NEW b, NEW W,
         Mapping(a, g, t, m, q, r, b, W), NEW p \in m.platforms \cup W, NEW Z,
         Z = Settled(a, g, t, m, W)
  PROVE  /\ m.image \in Images /\ m.image \in cfg.defined /\ p \in Platforms /\ p \in TargetPlatforms(m.image)
         /\ m.image \notin Relatives[m.image]
         /\ Z \in SUBSET (Images \X Platforms) /\ <<m.image, p>> \notin Z
         /\ PairsOf(Done(a, g)) \in SUBSET Z
         /\ \A z \in Z : /\ m.image \notin Relatives[z[1]]
                         /\ z[1] \in Relatives[m.image] => z \in PairsOf(Done(a, g))
<1> DEFINE i == m.image
<1>1. /\ Grouped(g) /\ g # <<>> /\ i \in g[1] \ t /\ m.platforms \subseteq TargetPlatforms(i)
      /\ \A k \in Done(a, g), j \in LeftIn(g) : j \notin Relatives[k]
      /\ Walking(m, q, r, W)
  BY DEF Mapping
<1>2. g \in Seq(SUBSET cfg.defined) /\ 1 \in 1..Len(g) /\ First(g) = g[1]
  BY <1>1 DEF Grouped, First
<1>3. \A j, k \in g[1] : j \notin Relatives[k]
  BY <1>1, <1>2 DEF Grouped
<1>4. g[1] \subseteq LeftIn(g) /\ g[1] \subseteq cfg.defined
  BY <1>2, LeftMembers
<1>5. W \subseteq TargetPlatforms(i)
  BY <1>1 DEF Walking
<1>6. i \in cfg.defined /\ i \in Images /\ p \in TargetPlatforms(i) /\ p \in Platforms
  BY <1>1, <1>4, <1>5, ConfigFacts, PlatformsOf
<1>7. Z = {z \in PairsOf(Done(a, g) \cup (g[1] \ t)) : ~(z[1] = i /\ z[2] \in m.platforms \cup W)}
  BY <1>2 DEF Settled
<1>8. i \notin Done(a, g)
  BY <1>1, <1>4 DEF Done
<1> HIDE DEF i
<1>9. Z \in SUBSET (Images \X Platforms) /\ <<i, p>> \notin Z
  BY <1>7 DEF PairsOf
<1>10. PairsOf(Done(a, g)) \in SUBSET Z
  BY <1>7, <1>8 DEF PairsOf
<1>11. ASSUME NEW z \in Z
       PROVE  i \notin Relatives[z[1]] /\ (z[1] \in Relatives[i] => z \in PairsOf(Done(a, g)))
  <2>1. z \in PairsOf(Done(a, g)) \/ z[1] \in g[1]
    BY <1>7 DEF PairsOf
  <2>2. z \in PairsOf(Done(a, g)) => z[1] \in Done(a, g)
    BY DEF PairsOf
  <2> QED
    BY <1>1, <1>3, <1>4, <2>1, <2>2
<1> QED
  BY <1>1, <1>3, <1>6, <1>9, <1>10, <1>11 DEF i

LEMMA OwnRelative ==
  ASSUME cfg \in Configs, NEW a, NEW g, NEW t, NEW m, NEW q, NEW r, NEW b, NEW W,
         Mapping(a, g, t, m, q, r, b, W), NEW p \in m.platforms \cup W
  PROVE  m.image \notin Relatives[m.image]
<1>1. Grouped(g) /\ g # <<>> /\ m.image \in g[1] \ t
  BY DEF Mapping
<1>2. g \in Seq(SUBSET cfg.defined) /\ 1 \in 1..Len(g) /\ 1 <= 1
  BY <1>1 DEF Grouped
<1> QED
  BY <1>1, <1>2 DEF Grouped

LEMMA TakeKeeps ==
  ASSUME NEW a, NEW g, NEW t, NEW m, NEW b, NEW W,
         Mapping(a, g, t, m, <<>>, <<>>, b, W), m.platforms = {}, NEW i \in t
  PROVE  Mapping(a, g, t \ {i}, [image |-> i, platforms |-> TargetPlatforms(i)], <<>>, <<>>, b, {})
<1> DEFINE n == [image |-> i, platforms |-> TargetPlatforms(i)]
<1>1. n.image = i /\ n.platforms = TargetPlatforms(i)
  OBVIOUS
<1> HIDE DEF n
<1>2. /\ Grouped(g) /\ g # <<>> /\ LeftIn(g) \subseteq Wanted(a)
      /\ \A k \in Done(a, g), j \in LeftIn(g) : j \notin Relatives[k]
      /\ t \subseteq g[1]
      /\ b = [images |-> b.images, imagesSets |-> b.imagesSets, curSetInd |-> b.curSetInd,
              nextSetInd |-> b.nextSetInd]
      /\ Holds(b, ImagesFor(Settled(a, g, t, m, W)), ImagesFor(PairsOf(Done(a, g))))
  BY DEF Mapping
<1>3. W = {}
  BY DEF Mapping, Walking
<1>4. g \in Seq(SUBSET cfg.defined) /\ 1 \in 1..Len(g) /\ First(g) = g[1]
  BY <1>2 DEF Grouped, First
<1>5. i \in LeftIn(g) /\ i \notin Done(a, g) /\ i \in g[1]
  BY <1>2, <1>4, LeftMembers DEF Done
<1>6. Settled(a, g, t \ {i}, n, {}) = Settled(a, g, t, m, W)
  <2>1. Settled(a, g, t, m, W) = PairsOf(Done(a, g) \cup (g[1] \ t))
    BY <1>3, <1>4 DEF Settled
  <2>2. Settled(a, g, t \ {i}, n, {})
          = {z \in PairsOf(Done(a, g) \cup (g[1] \ (t \ {i}))) : ~(z[1] = i /\ z[2] \in TargetPlatforms(i))}
    BY <1>1, <1>4 DEF Settled
  <2> QED
    BY <1>5, <2>1, <2>2 DEF PairsOf
<1>7. Walking(n, <<>>, <<>>, {})
  BY DEF Walking
<1>8. n = [image |-> n.image, platforms |-> n.platforms]
  BY DEF n
<1>9. Mapping(a, g, t \ {i}, n, <<>>, <<>>, b, {})
  BY <1>1, <1>2, <1>5, <1>6, <1>7, <1>8 DEF Mapping
<1> QED
  BY <1>9 DEF n

\* The pair of the image in hand and p is settled.
LEMMA PairSettled ==
  ASSUME cfg \in Configs, NEW a, NEW g, NEW t, NEW m, NEW q, NEW r, NEW b, NEW W,
         Mapping(a, g, t, m, q, r, b, W), NEW p \in m.platforms \cup W, NEW n,
         n = [image |-> m.image, platforms |-> n.platforms],
         n.platforms \subseteq m.platforms, n.platforms = (m.platforms \cup W) \ {p},
         NEW new, OnceInSets(new, ImagesOf(m.image, p)), SetsInOrder(new), NonEmptySets(new), new # <<>>
  PROVE  Mapping(a, g, t, n, <<>>, <<>>, MergeImagesSets(b, new), {})
<1> DEFINE Z == Settled(a, g, t, m, W)
           D == PairsOf(Done(a, g))
           i == m.image
           c == MergeImagesSets(b, new)
<1>1. /\ i \in Images /\ i \in cfg.defined /\ p \in Platforms /\ p \in TargetPlatforms(i)
      /\ Z \in SUBSET (Images \X Platforms) /\ <<i, p>> \notin Z /\ D \in SUBSET Z
      /\ \A z \in Z : i \notin Relatives[z[1]] /\ (z[1] \in Relatives[i] => z \in D)
  <2>1. Z = Settled(a, g, t, m, W)
    OBVIOUS
  <2> HIDE DEF Z
  <2> QED
    BY <2>1, MappingFacts
<1>2. /\ Grouped(g) /\ g # <<>> /\ LeftIn(g) \subseteq Wanted(a)
      /\ \A k \in Done(a, g), j \in LeftIn(g) : j \notin Relatives[k]
      /\ t \subseteq g[1]
      /\ i \in g[1] \ t /\ m.platforms \subseteq TargetPlatforms(i)
      /\ Holds(b, ImagesFor(Z), ImagesFor(D))
  BY DEF Mapping
<1>3. Settled(a, g, t, n, {}) = Z \cup {<<i, p>>}
  <2>1. First(g) = g[1]
    BY <1>2 DEF First
  <2>2. Z = {z \in PairsOf(Done(a, g) \cup (g[1] \ t)) : ~(z[1] = i /\ z[2] \in m.platforms \cup W)}
    BY <2>1 DEF Settled
  <2>3. Settled(a, g, t, n, {})
          = {z \in PairsOf(Done(a, g) \cup (g[1] \ t)) : ~(z[1] = i /\ z[2] \in (m.platforms \cup W) \ {p})}
    <3>1. n.image = i
      OBVIOUS
    <3> QED
      BY <2>1, <3>1 DEF Settled
  <2>4. <<i, p>> \in PairsOf(Done(a, g) \cup (g[1] \ t))
    BY <1>1, <1>2 DEF PairsOf
  <2>5. \A z \in PairsOf(Done(a, g) \cup (g[1] \ t)) : z = <<z[1], z[2]>>
    BY DEF PairsOf
  <2> HIDE DEF Z, i
  <2> QED
    BY <2>2, <2>3, <2>4, <2>5
<1>4. Holds(c, ImagesFor(Z \cup {<<i, p>>}), ImagesFor(D))
  <2>1. OnceInSets(new, ImagesOf(i, p)) /\ Holds(b, ImagesFor(Z), ImagesFor(D))
    BY <1>2
  <2> HIDE DEF Z, D, i
  <2> QED
    BY <1>1, <2>1, PairAdded
<1>5. c = [images |-> c.images, imagesSets |-> c.imagesSets, curSetInd |-> c.curSetInd,
           nextSetInd |-> c.nextSetInd]
  BY DEF MergeImagesSets
<1>6. Walking(n, <<>>, <<>>, {})
  BY DEF Walking
<1>7. n.image = i /\ n = [image |-> n.image, platforms |-> n.platforms]
  OBVIOUS
<1> HIDE DEF c, Z, D
<1>8. Mapping(a, g, t, n, <<>>, <<>>, c, {})
  BY <1>2, <1>3, <1>4, <1>5, <1>6, <1>7 DEF Mapping, D
<1> QED
  BY <1>8 DEF c

\* The only image of a configured image that has no stages.
LEMMA OneImage ==
  ASSUME NEW i, i \notin cfg.staged, i \notin Relatives[i], NEW p, NEW new,
         new = <<<<Image(<<i, 0>>, 0, p)>>>>
  PROVE  /\ OnceInSets(new, ImagesOf(i, p)) /\ SetsInOrder(new) /\ NonEmptySets(new) /\ new # <<>>
<1> DEFINE x == Image(<<i, 0>>, 0, p)
           E == ImagesOf(i, p)
<1>1. E = {x}
  BY DEF ImagesOf, StagesFor, Planned, NameOf
<1>2. new = <<<<x>>>>
  OBVIOUS
<1>3. ~NeedsImage(x, x)
  <2>1. x.name[1] = i /\ x.stage = 0 /\ x.platform = p
    BY DEF Image
  <2>2. Meant(x) = <<i, 0, p>>
    BY <2>1 DEF Meant
  <2>3. Needs(x) = {<<j, TargetOf(j), p>> : j \in Relatives[i]}
    BY <2>1 DEF Needs
  <2> HIDE DEF x
  <2> QED
    BY <2>2, <2>3 DEF NeedsImage
<1> HIDE DEF x, E
<1>4. /\ new \in Seq(Seq(E)) /\ Len(new) = 1 /\ new[1] = <<x>> /\ Len(new[1]) = 1
      /\ new[1][1] = x /\ new # <<>>
  BY <1>1, <1>2
<1>5. \A n \in 1..Len(new) : n = 1
  BY <1>4
<1>6. \A n \in 1..Len(new) : \A k \in 1..Len(new[n]) : k = 1 /\ new[n][k] = x
  BY <1>4, <1>5
<1>7. 1 \in 1..Len(new) /\ 1 \in 1..Len(new[1])
  BY <1>4
<1>8. OnceInSets(new, E)
  BY <1>1, <1>4, <1>5, <1>6, <1>7 DEF OnceInSets
<1>9. SetsInOrder(new)
  BY <1>3, <1>6 DEF SetsInOrder
<1>10. NonEmptySets(new)
  BY <1>4, <1>5 DEF NonEmptySets
<1> QED
  BY <1>4, <1>8, <1>9, <1>10 DEF E

LEMMA OneLess ==
  ASSUME NEW m, NEW i, NEW P, m = [image |-> i, platforms |-> P], NEW p
  PROVE  [m EXCEPT !.platforms = @ \ {p}] = [image |-> i, platforms |-> P \ {p}]
  OBVIOUS

LEMMA PlainKeeps ==
  ASSUME cfg \in Configs, NEW a, NEW g, NEW t, NEW m, NEW b, NEW W,
         Mapping(a, g, t, m, <<>>, <<>>, b, W), NEW p \in m.platforms, m.image \notin cfg.staged
  PROVE  Mapping(a, g, t, [m EXCEPT !.platforms = @ \ {p}], <<>>, <<>>,
                 MergeImagesSets(b, <<<<Image(<<m.image, 0>>, 0, p)>>>>), {})
<1> DEFINE n == [m EXCEPT !.platforms = @ \ {p}]
           new == <<<<Image(<<m.image, 0>>, 0, p)>>>>
<1>1. m = [image |-> m.image, platforms |-> m.platforms] /\ W = {}
  BY DEF Mapping, Walking
<1>2. n.image = m.image /\ n.platforms = m.platforms \ {p} /\ n = [image |-> m.image, platforms |-> n.platforms]
  <2>1. n = [image |-> m.image, platforms |-> m.platforms \ {p}]
    BY <1>1, OneLess
  <2> HIDE DEF n
  <2> QED
    BY <2>1
<1>3. m.image \notin Relatives[m.image]
  BY OwnRelative
<1>4. OnceInSets(new, ImagesOf(m.image, p)) /\ SetsInOrder(new) /\ NonEmptySets(new) /\ new # <<>>
  BY <1>3, OneImage
<1> HIDE DEF n, new
<1>5. /\ p \in m.platforms \cup W /\ n.platforms \subseteq m.platforms
      /\ n.platforms = (m.platforms \cup W) \ {p}
  BY <1>1, <1>2
<1>6. Mapping(a, g, t, n, <<>>, <<>>, MergeImagesSets(b, new), {})
  BY <1>2, <1>4, <1>5, PairSettled
<1> QED
  BY <1>6 DEF n, new

LEMMA StagedKeeps ==
  ASSUME cfg \in Configs, NEW a, NEW g, NEW t, NEW m, NEW b, NEW W,
         Mapping(a, g, t, m, <<>>, <<>>, b, W), NEW p \in m.platforms, m.image \in cfg.staged
  PROVE  Mapping(a, g, t, [m EXCEPT !.platforms = @ \ {p}],
                 <<[name |-> <<m.image, 0>>, stage |-> Len(cfg.stages), level |-> 0, platform |-> p]>>,
                 <<>>, b, {p})
<1> DEFINE n == [m EXCEPT !.platforms = @ \ {p}]
           x == [name |-> <<m.image, 0>>, stage |-> Len(cfg.stages), level |-> 0, platform |-> p]
<1>1. /\ m = [image |-> m.image, platforms |-> m.platforms] /\ W = {}
      /\ m.image \in g[1] \ t /\ m.platforms \subseteq TargetPlatforms(m.image)
  BY DEF Mapping, Walking
<1>2. n.image = m.image /\ n.platforms = m.platforms \ {p} /\ n = [image |-> n.image, platforms |-> n.platforms]
  <2>1. n = [image |-> m.image, platforms |-> m.platforms \ {p}]
    BY <1>1, OneLess
  <2> HIDE DEF n
  <2> QED
    BY <2>1
<1>3. x = Queued(m.image, Target, 0, p)
  BY DEF Queued, NameOf, Target
<1>4. Walk(m.image, p, <<x>>, <<>>)
  BY <1>3, WalkBegins
<1>5. <<x>> # <<>>
  OBVIOUS
<1> HIDE DEF n, x
<1>6. Walking(n, <<x>>, <<>>, {p})
  BY <1>1, <1>2, <1>4, <1>5 DEF Walking
<1>7. Settled(a, g, t, n, {p}) = Settled(a, g, t, m, W)
  <2>1. n.platforms \cup {p} = m.platforms \cup W
    BY <1>1, <1>2
  <2> QED
    BY <1>2, <2>1 DEF Settled
<1>8. Mapping(a, g, t, n, <<x>>, <<>>, b, {p})
  <2>1. /\ n.image \in g[1] \ t /\ n.platforms \subseteq TargetPlatforms(n.image)
    BY <1>1, <1>2
  <2> QED
    BY <1>2, <1>6, <1>7, <2>1 DEF Mapping
<1> QED
  BY <1>8 DEF n, x

LEMMA StageKeeps ==
  ASSUME cfg \in Configs, AsWritten, NEW a, NEW g, NEW t, NEW m, NEW q, NEW r, NEW b, NEW W,
         Mapping(a, g, t, m, q, r, b, W), q # <<>>, NEW item, item = Head(q), NEW k, k = item.stage,
         NEW base, base = IF cfg.stages[k].base = Registry THEN <<>>
                          ELSE <<Found(m.image, cfg.stages[k].base, item.level + 1, item.platform)>>,
         NEW copies, copies = [n \in DOMAIN Resolved(k) |->
                                 Found(m.image, Resolved(k)[n], item.level + 1, item.platform)]
  PROVE  Mapping(a, g, t, m, Tail(q) \o base \o copies,
                 AppendImageToCurrentSet(r, item.level, Image(item.name, k, item.platform)), b, W)
<1> DEFINE i == m.image
           q1 == Tail(q) \o base \o copies
           r1 == AppendImageToCurrentSet(r, item.level, Image(item.name, k, item.platform))
           l == item.level
<1>1. i \in cfg.staged /\ \E p \in TargetPlatforms(i) \ m.platforms : W = {p} /\ Walk(i, p, q, r)
  BY DEF Mapping, Walking
<1>2. PICK p \in TargetPlatforms(i) \ m.platforms : W = {p} /\ Walk(i, p, q, r)
  BY <1>1
<1>3. q \in Seq(Items(i, p)) /\ item \in Items(i, p)
  <2> DEFINE T == Items(i, p)
  <2>1. q \in Seq(T)
    BY <1>2 DEF Walk
  <2> HIDE DEF T
  <2>2. Head(q) \in T
    BY <2>1
  <2> QED
    BY <2>1, <2>2 DEF T
<1>4. k \in StagesNeeded /\ l \in Nat /\ item = Queued(i, k, l, p)
  BY <1>3, ItemFacts
<1>5. item.name = NameOf(i, k) /\ item.platform = p
  BY <1>4 DEF Queued
<1>6. Expanded(i, p, k, l + 1, q, q1)
  <2>1. /\ base = IF cfg.stages[k].base = Registry THEN <<>> ELSE <<Found(i, cfg.stages[k].base, l + 1, p)>>
        /\ copies = [n \in DOMAIN Resolved(k) |-> Found(i, Resolved(k)[n], l + 1, p)]
    BY <1>5
  <2>2. cfg.staged # {} /\ l + 1 \in Nat
    BY <1>1, <1>4
  <2> HIDE DEF i, l
  <2> QED
    BY <1>3, <1>4, <2>1, <2>2, QueueExpands
<1>7. r1 = AppendImageToCurrentSet(r, l, Planned(i, k, p))
  BY <1>5 DEF Planned
<1> HIDE DEF i, q1, r1, l
<1>8. Walk(i, p, q1, r1) /\ r1 # <<>>
  BY <1>1, <1>2, <1>4, <1>6, <1>7, WalkGoesOn
<1>9. Walking(m, q1, r1, W)
  BY <1>1, <1>2, <1>8 DEF Walking, i
<1>10. Mapping(a, g, t, m, q1, r1, b, W)
  BY <1>9 DEF Mapping
<1> QED
  BY <1>10 DEF q1, r1

LEMMA MergeKeeps ==
  ASSUME cfg \in Configs, AsWritten, NEW a, NEW g, NEW t, NEW m, NEW r, NEW b, NEW W,
         Mapping(a, g, t, m, <<>>, r, b, W), r # <<>>
  PROVE  Mapping(a, g, t, m, <<>>, <<>>, MergeImagesSets(b, r), {})
<1>1. /\ m.image \in cfg.staged
      /\ \E p \in TargetPlatforms(m.image) \ m.platforms : W = {p} /\ Walk(m.image, p, <<>>, r)
      /\ m = [image |-> m.image, platforms |-> m.platforms]
  BY DEF Mapping, Walking
<1>2. PICK p \in TargetPlatforms(m.image) \ m.platforms : W = {p} /\ Walk(m.image, p, <<>>, r)
  BY <1>1
<1>3. p \in m.platforms \cup W /\ m.platforms = (m.platforms \cup W) \ {p}
  BY <1>2
<1>4. m.image \notin Relatives[m.image]
  BY <1>3, OwnRelative
<1>5. OnceInSets(r, ImagesOf(m.image, p)) /\ SetsInOrder(r) /\ NonEmptySets(r)
  BY <1>1, <1>2, <1>4, WalkEnds
<1> QED
  BY <1>1, <1>3, <1>5, PairSettled

\* Without its first group the groups are as they were.
LEMMA TailGrouped ==
  ASSUME NEW g, Grouped(g), g # <<>>
  PROVE  /\ Grouped(Tail(g)) /\ LeftIn(Tail(g)) = LeftIn(g) \ g[1] /\ g[1] \subseteq LeftIn(g)
         /\ \A i \in g[1], j \in LeftIn(Tail(g)) : j \notin Relatives[i]
<1> DEFINE h == Tail(g)
           S == SUBSET cfg.defined
<1>1. /\ g \in Seq(S)
      /\ \A n \in 1..Len(g) : g[n] # {}
      /\ \A m, n \in 1..Len(g) : g[m] \cap g[n] # {} => m = n
      /\ \A m, n \in 1..Len(g) : m <= n => \A i \in g[m], j \in g[n] : j \notin Relatives[i]
  BY DEF Grouped
<1> HIDE DEF S
<1>2. /\ h \in Seq(S) /\ Len(h) = Len(g) - 1 /\ Len(g) \in Nat \ {0}
      /\ \A n \in 1..(Len(g) - 1) : h[n] = g[n + 1]
  BY <1>1
<1> HIDE DEF h
<1>3. \A n \in 1..Len(h) : n + 1 \in 1..Len(g) /\ h[n] = g[n + 1] /\ n \in Int
  BY <1>2
<1>4. \A n \in 1..Len(g) : n = 1 \/ (n - 1 \in 1..Len(h) /\ h[n - 1] = g[n])
  <2> SUFFICES ASSUME NEW n \in 1..Len(g), n # 1 PROVE n - 1 \in 1..Len(h) /\ h[n - 1] = g[n]
    OBVIOUS
  <2>1. n - 1 \in 1..Len(h) /\ (n - 1) + 1 = n
    BY <1>2
  <2> QED
    BY <1>3, <2>1
<1>5. ASSUME NEW m \in 1..Len(h), NEW n \in 1..Len(h), h[m] \cap h[n] # {} PROVE m = n
  <2>1. m + 1 = n + 1
    BY <1>1, <1>3, <1>5
  <2> QED
    BY <1>3, <2>1
<1>6. ASSUME NEW m \in 1..Len(h), NEW n \in 1..Len(h), m <= n, NEW i \in h[m], NEW j \in h[n]
      PROVE  j \notin Relatives[i]
  <2>1. m + 1 <= n + 1
    BY <1>6
  <2> QED
    BY <1>1, <1>3, <1>6, <2>1
<1>7. \A n \in 1..Len(h) : h[n] # {}
  BY <1>1, <1>3
<1>8. Grouped(h)
  BY <1>2, <1>5, <1>6, <1>7 DEF Grouped, S
<1>9. \A x : x \in LeftIn(g) <=> \E n \in 1..Len(g) : x \in g[n]
  BY <1>1, LeftMembers
<1>10. \A x : x \in LeftIn(h) <=> \E n \in 1..Len(h) : x \in h[n]
  BY <1>2, LeftMembers
<1>11. 1 \in 1..Len(g)
  BY <1>2
<1>12. ASSUME NEW x PROVE x \in LeftIn(h) <=> x \in LeftIn(g) /\ x \notin g[1]
  <2>1. ASSUME x \in LeftIn(h) PROVE x \in LeftIn(g) /\ x \notin g[1]
    <3>1. PICK n \in 1..Len(h) : x \in h[n]
      BY <1>10, <2>1
    <3>2. n + 1 \in 1..Len(g) /\ x \in g[n + 1] /\ n + 1 # 1
      BY <1>3, <3>1
    <3> QED
      BY <1>1, <1>9, <1>11, <3>2
  <2>2. ASSUME x \in LeftIn(g), x \notin g[1] PROVE x \in LeftIn(h)
    BY <1>4, <1>9, <1>10, <2>2
  <2> QED
    BY <2>1, <2>2
<1>13. ASSUME NEW i \in g[1], NEW j \in LeftIn(h) PROVE j \notin Relatives[i]
  <2>1. PICK n \in 1..Len(h) : j \in h[n]
    BY <1>10
  <2>2. n + 1 \in 1..Len(g) /\ j \in g[n + 1] /\ 1 <= n + 1
    BY <1>3, <2>1
  <2> QED
    BY <1>1, <1>11, <2>2
<1>14. g[1] \subseteq LeftIn(g) /\ LeftIn(h) = LeftIn(g) \ g[1]
  BY <1>9, <1>11, <1>12
<1> QED
  BY <1>8, <1>13, <1>14 DEF h

LEMMA SecondFirst ==
  ASSUME NEW S, NEW g \in Seq(S), g # <<>>, Len(g) # 1
  PROVE  Tail(g) # <<>> /\ Tail(g)[1] = g[2]
<1>1. Len(g) \in Nat /\ Len(g) > 1
  <2>1. Len(g) \in Nat /\ Len(g) # 0
    OBVIOUS
  <2> DEFINE n == Len(g)
  <2>2. n \in Nat /\ n # 0 /\ n # 1
    BY <2>1
  <2> HIDE DEF n
  <2>3. n > 1
    BY <2>2
  <2> QED
    BY <2>1, <2>3 DEF n
<1>2. Len(Tail(g)) = Len(g) - 1 /\ \A n \in 1..(Len(g) - 1) : Tail(g)[n] = g[n + 1]
  OBVIOUS
<1>3. 1 \in 1..(Len(g) - 1) /\ Len(Tail(g)) # 0
  BY <1>1, <1>2
<1>4. Tail(g)[1] = g[1 + 1]
  BY <1>2, <1>3
<1> DEFINE u == Tail(g)
<1>5. u[1] = g[2]
  <2>1. 1 + 1 = 2
    OBVIOUS
  <2> HIDE DEF u
  <2>2. u[1] = g[1 + 1]
    BY <1>4 DEF u
  <2> QED
    BY <2>1, <2>2, Zenon
<1>6. u # <<>>
  <2>1. Len(u) # 0
    BY <1>3
  <2> HIDE DEF u
  <2> QED
    BY <2>1
<1> QED
  BY <1>5, <1>6

LEMMA NextKeeps ==
  ASSUME cfg \in Configs, NEW a, NEW g, NEW m, NEW b, NEW W,
         Mapping(a, g, {}, m, <<>>, <<>>, b, W), m.platforms = {}
  PROVE  /\ Len(g) = 1 => Ready(a, BuilderNext(b))
         /\ Len(g) # 1 => Mapping(a, Tail(g), g[2], m, <<>>, <<>>, BuilderNext(b), {})
<1> DEFINE c == BuilderNext(b)
           h == Tail(g)
<1>1. /\ Grouped(g) /\ g # <<>> /\ LeftIn(g) \subseteq Wanted(a)
      /\ \A k \in Done(a, g), j \in LeftIn(g) : j \notin Relatives[k]
      /\ m = [image |-> m.image, platforms |-> m.platforms]
      /\ b = [images |-> b.images, imagesSets |-> b.imagesSets, curSetInd |-> b.curSetInd,
              nextSetInd |-> b.nextSetInd]
      /\ Holds(b, ImagesFor(Settled(a, g, {}, m, W)), ImagesFor(PairsOf(Done(a, g))))
  BY DEF Mapping
<1>2. W = {}
  BY DEF Mapping, Walking
<1>3. /\ g \in Seq(SUBSET cfg.defined) /\ 1 \in 1..Len(g) /\ First(g) = g[1]
      /\ g[1] # {} /\ g[1] \subseteq cfg.defined /\ Len(g) \in Nat \ {0}
  <2>1. g \in Seq(SUBSET cfg.defined) /\ \A n \in 1..Len(g) : g[n] # {}
    BY <1>1 DEF Grouped
  <2>2. Len(g) \in Nat \ {0}
    BY <1>1, <2>1
  <2> QED
    BY <1>1, <2>1, <2>2 DEF First
<1>4. /\ Grouped(h) /\ LeftIn(h) = LeftIn(g) \ g[1] /\ g[1] \subseteq LeftIn(g)
      /\ \A i \in g[1], j \in LeftIn(h) : j \notin Relatives[i]
  BY <1>1, TailGrouped
<1>5. Done(a, h) = Done(a, g) \cup g[1]
  BY <1>1, <1>4 DEF Done
<1> DEFINE X == ImagesFor(PairsOf(Done(a, h)))
<1>6. Settled(a, g, {}, m, W) = PairsOf(Done(a, h))
  <2>1. g[1] \ {} = g[1]
    OBVIOUS
  <2> QED
    BY <1>2, <1>3, <1>5, <2>1 DEF Settled
<1>7. \E x : x \in X
  <2>1. PICK i \in g[1] : TRUE
    BY <1>3
  <2>2. i \in cfg.defined /\ i \in Images
    BY <1>3, ConfigFacts
  <2>3. PICK p \in TargetPlatforms(i) : p \in Platforms
    BY <2>2, PlatformsOf
  <2>4. <<i, p>> \in PairsOf(Done(a, h))
    BY <1>5, <2>2, <2>3 DEF PairsOf
  <2>5. \E k : k \in StagesFor(i)
    BY NeededStages DEF StagesFor
  <2>6. PICK k \in StagesFor(i) : TRUE
    BY <2>5
  <2>7. Planned(i, k, p) \in ImagesOf(i, p)
    BY <2>6 DEF ImagesOf
  <2>8. <<i, p>>[1] = i /\ <<i, p>>[2] = p
    OBVIOUS
  <2> QED
    BY <2>4, <2>7, <2>8 DEF ImagesFor
<1>8. Holds(b, X, ImagesFor(PairsOf(Done(a, g))))
  BY <1>1, <1>6
<1> HIDE DEF X
<1>9. Holds(c, X, X)
  BY <1>1, <1>7, <1>8, NextHolds
<1>10. c = [images |-> c.images, imagesSets |-> c.imagesSets, curSetInd |-> c.curSetInd,
            nextSetInd |-> c.nextSetInd]
  <2> DEFINE i1 == b.images
             i2 == b.imagesSets
             i3 == b.curSetInd
             i4 == b.nextSetInd
  <2>1. b = [images |-> i1, imagesSets |-> i2, curSetInd |-> i3, nextSetInd |-> i4] /\ b.nextSetInd = i4
    BY <1>1
  <2> HIDE DEF i1, i2, i3, i4
  <2>2. c = [images |-> i1, imagesSets |-> i2, curSetInd |-> i4, nextSetInd |-> i4]
    BY <2>1 DEF BuilderNext
  <2> HIDE DEF c
  <2> QED
    BY <2>2
<1>11. ASSUME Len(g) = 1 PROVE Ready(a, c)
  <2>1. LeftIn(h) = {}
    <3>1. h = <<>>
      BY <1>3, <1>11
    <3> QED
      BY <3>1 DEF LeftIn, ToSet
  <2>2. Done(a, h) = Wanted(a)
    BY <2>1 DEF Done
  <2> QED
    BY <1>9, <2>2 DEF Ready, X
<1>12. ASSUME Len(g) # 1 PROVE Mapping(a, h, g[2], m, <<>>, <<>>, c, {})
  <2>1. h # <<>> /\ h[1] = g[2] /\ First(h) = g[2]
    <3>1. h # <<>> /\ h[1] = g[2]
      BY <1>1, <1>3, <1>12, SecondFirst
    <3> QED
      BY <3>1 DEF First
  <2> HIDE DEF h, c
  <2>2. Settled(a, h, g[2], m, {}) = PairsOf(Done(a, h))
    <3>1. Done(a, h) \cup (First(h) \ g[2]) = Done(a, h)
      BY <2>1
    <3> QED
      BY <3>1 DEF Settled
  <2>3. Walking(m, <<>>, <<>>, {})
    BY DEF Walking
  <2>4. \A k \in Done(a, h), j \in LeftIn(h) : j \notin Relatives[k]
    BY <1>1, <1>4, <1>5
  <2>5. LeftIn(h) \subseteq Wanted(a)
    BY <1>1, <1>4
  <2> QED
    BY <1>1, <1>4, <1>9, <1>10, <2>1, <2>2, <2>3, <2>4, <2>5 DEF Mapping, X
<1> QED
  BY <1>11, <1>12

-----------------------------------------------------------------------------
(* doImages: the sets, or the images one by one, in their order.           *)

LEMMA BatchesHold ==
  ASSUME NEW X, NEW F, Holds(builder, X, F)
  PROVE  OnceInSets(Batches, X) /\ SetsInOrder(Batches)
<1>1. CASE cfg.parallel /\ Len(builder.images) > 1
  BY <1>1 DEF Holds, Batches
<1>2. CASE ~(cfg.parallel /\ Len(builder.images) > 1)
  <2> DEFINE s == builder.images
             ss == [n \in DOMAIN s |-> <<s[n]>>]
  <2>1. OnceIn(s, X) /\ InOrder(s) /\ s \in Seq(X) /\ DOMAIN s = 1..Len(s) /\ Len(s) \in Nat
    BY DEF Holds, OnceIn
  <2>2. Batches = ss
    BY <1>2 DEF Batches
  <2> HIDE DEF s
  <2>3. /\ ss \in Seq(Seq(X)) /\ Len(ss) = Len(s)
    <3>1. \A n \in 1..Len(s) : <<s[n]>> \in Seq(X)
      BY <2>1
    <3>2. ss \in [1..Len(s) -> Seq(X)]
      BY <2>1, <3>1
    <3> HIDE DEF ss
    <3> QED
      BY <2>1, <3>2, FunctionIsSeq
  <2>4. \A n \in 1..Len(s) : Len(ss[n]) = 1 /\ ss[n][1] = s[n]
    BY <2>1
  <2> HIDE DEF ss
  <2>5. \A n \in 1..Len(ss) : 1 \in 1..Len(ss[n]) /\ \A k \in 1..Len(ss[n]) : k = 1 /\ ss[n][k] = s[n]
    BY <2>3, <2>4
  <2>6. OnceInSets(ss, X)
    <3>1. ASSUME NEW x \in X PROVE \E n \in 1..Len(ss) : \E k \in 1..Len(ss[n]) : ss[n][k] = x
      <4>1. PICK n \in 1..Len(s) : s[n] = x
        BY <2>1 DEF OnceIn
      <4> QED
        BY <2>3, <2>5, <4>1
    <3>2. ASSUME NEW m \in 1..Len(ss), NEW n \in 1..Len(ss), NEW k \in 1..Len(ss[m]),
                 NEW l \in 1..Len(ss[n]), ss[m][k] = ss[n][l]
          PROVE  m = n /\ k = l
      <4>1. k = 1 /\ l = 1 /\ ss[m][k] = s[m] /\ ss[n][l] = s[n]
        BY <2>5
      <4>2. s[m] = s[n] /\ m \in 1..Len(s) /\ n \in 1..Len(s)
        BY <2>3, <3>2, <4>1
      <4>3. \A m1, n1 \in 1..Len(s) : s[m1] = s[n1] => m1 = n1
        BY <2>1 DEF OnceIn
      <4> QED
        BY <4>1, <4>2, <4>3
    <3> QED
      BY <2>3, <3>1, <3>2 DEF OnceInSets
  <2>7. SetsInOrder(ss)
    BY <2>1, <2>3, <2>5 DEF InOrder, SetsInOrder
  <2> QED
    BY <2>2, <2>6, <2>7
<1> QED
  BY <1>1, <1>2

\* The batches before this one are built, and of this one what has ended well; what
\* an image that has begun asks GetImage for is there.
Progress ==
  /\ batch \in Nat \ {0}
  /\ \A m \in 1..Len(Batches) : m < batch => \A k \in 1..Len(Batches[m]) : Batches[m][k] \in built
  /\ started # {} => batch <= Len(Batches)
  /\ started \subseteq DOMAIN Batches[batch] /\ ended \subseteq started /\ bad \subseteq ended
  /\ \A n \in ended \ bad : Batches[batch][n] \in built
  /\ \A n \in started : \A ask \in Asks(Batches[batch][n]) :
       GetImage(ask, Batches[batch][n].platform) # {}

\* Nothing is built yet.
Unbuilt == batch = 1 /\ started = {} /\ ended = {} /\ bad = {} /\ built = {}

Inv ==
  /\ cfg \in Configs
  /\ pc \in {"validate", "select"} => groups = <<>>
  /\ pc \in {"validate", "select", "group"} =>
       mapping = NoMapping /\ queue = <<>> /\ ret = <<>> /\ builder = NoImages
  /\ pc \in {"validate", "select", "group", "map"} => Unbuilt
  /\ pc = "group" => Rounds(asked, toHandle, groups)
  /\ pc = "map" /\ AsWritten => \E W : Mapping(asked, groups, todo, mapping, queue, ret, builder, W)
  /\ pc = "run" /\ AsWritten => Ready(asked, builder) /\ Progress

\* The configuration read in the next state is the one read in this one.
LEMMA InvPrime ==
  ASSUME cfg' = cfg
  PROVE  Inv' <=>
    /\ cfg \in Configs
    /\ pc' \in {"validate", "select"} => groups' = <<>>
    /\ pc' \in {"validate", "select", "group"} =>
         mapping' = NoMapping /\ queue' = <<>> /\ ret' = <<>> /\ builder' = NoImages
    /\ pc' \in {"validate", "select", "group", "map"} => Unbuilt'
    /\ pc' = "group" => Rounds(asked', toHandle', groups')
    /\ pc' = "map" /\ AsWritten =>
         \E W : Mapping(asked', groups', todo', mapping', queue', ret', builder', W)
    /\ pc' = "run" /\ AsWritten => Ready(asked', builder') /\ Progress'
<1>1. AsWritten' = AsWritten
  BY SameConfig
<1>2. Rounds(asked, toHandle, groups)' = Rounds(asked', toHandle', groups')
  BY SameRounds
<1>3. Ready(asked, builder)' = Ready(asked', builder')
  BY SameReady
<1>4. (\E W : Mapping(asked, groups, todo, mapping, queue, ret, builder, W))'
        = \E W : Mapping(asked', groups', todo', mapping', queue', ret', builder', W)
  BY SameMapping
<1> QED
  BY <1>1, <1>2, <1>3, <1>4 DEF Inv, NoMapping, NoImages, Registry

LEMMA SameBatches ==
  ASSUME cfg' = cfg, builder' = builder
  PROVE  /\ Batches' = Batches
         /\ \A y : Asks(y)' = Asks(y)
         /\ \A name, p : GetImage(name, p)' = GetImage(name, p)
<1>1. Batches' = Batches
  BY DEF Batches
<1>2. ASSUME NEW k PROVE Resolved(k)' = Resolved(k)
  BY DEF Resolved, Registry, SelectInSeq
<1>3. ASSUME NEW i, NEW k PROVE StageName(i, k)' = StageName(i, k)
  BY DEF StageName
<1>4. ASSUME NEW y PROVE Asks(y)' = Asks(y)
  BY <1>2, <1>3, SameConfig DEF Asks, Registry
<1>5. ASSUME NEW name, NEW p PROVE GetImage(name, p)' = GetImage(name, p)
  BY DEF GetImage
<1> QED
  BY <1>1, <1>4, <1>5

LEMMA InvInit == ASSUME Init PROVE Inv
  BY DEF Init, Inv, Unbuilt, NoImages

LEMMA InvStutters == ASSUME Inv, UNCHANGED vars PROVE Inv'
<1>1. /\ cfg' = cfg /\ pc' = pc /\ asked' = asked /\ toHandle' = toHandle /\ groups' = groups
      /\ todo' = todo /\ mapping' = mapping /\ queue' = queue /\ ret' = ret /\ builder' = builder
      /\ batch' = batch /\ started' = started /\ ended' = ended /\ bad' = bad /\ built' = built
  BY DEF vars
<1>2. Progress' = Progress
  <2>1. Batches' = Batches
    BY <1>1, SameBatches
  <2>2. (\A n \in started : \A ask \in Asks(Batches[batch][n]) :
           GetImage(ask, Batches[batch][n].platform) # {})'
          = \A n \in started : \A ask \in Asks(Batches[batch][n]) :
              GetImage(ask, Batches[batch][n].platform) # {}
    BY <1>1, SameBatches
  <2>3. (\A m \in 1..Len(Batches) : m < batch => \A k \in 1..Len(Batches[m]) : Batches[m][k] \in built)'
          = \A m \in 1..Len(Batches) : m < batch => \A k \in 1..Len(Batches[m]) : Batches[m][k] \in built
    BY <1>1, <2>1
  <2>4. (\A n \in ended \ bad : Batches[batch][n] \in built)'
          = \A n \in ended \ bad : Batches[batch][n] \in built
    BY <1>1, <2>1
  <2> QED
    BY <1>1, <2>1, <2>2, <2>3, <2>4 DEF Progress
<1>3. Unbuilt' = Unbuilt
  BY <1>1 DEF Unbuilt
<1> QED
  BY <1>1, <1>2, <1>3, InvPrime DEF Inv

LEMMA PlanSteps == ASSUME Inv, Validate \/ Select \/ Group PROVE Inv'
<1>1. CASE Validate
  <2>1. /\ pc = "validate" /\ pc' \in {"select", "failed"} /\ cfg' = cfg
        /\ groups' = groups /\ mapping' = mapping /\ queue' = queue /\ ret' = ret /\ builder' = builder
        /\ Unbuilt' = Unbuilt
    BY <1>1 DEF Validate, planVars, runVars, Unbuilt
  <2> QED
    BY <2>1, InvPrime DEF Inv
<1>2. CASE Select
  <2>1. /\ pc = "select" /\ cfg' = cfg /\ groups' = groups /\ mapping' = mapping /\ queue' = queue
        /\ ret' = ret /\ builder' = builder /\ Unbuilt' = Unbuilt
        /\ pc' = "failed" \/ (pc' = "group" /\ toHandle' = [i \in Wanted(asked') |-> Relatives[i]])
    BY <1>2 DEF Select, runVars, Unbuilt, Wanted
  <2>2. pc' = "group" => Rounds(asked', toHandle', groups')
    <3>1. groups' = <<>>
      BY <2>1 DEF Inv
    <3> QED
      BY <2>1, <3>1, RoundsBegin
  <2> QED
    BY <2>1, <2>2, InvPrime DEF Inv
<1>3. CASE Group
  <2> DEFINE current == {i \in DOMAIN toHandle : toHandle[i] \subseteq LeftIn(groups)}
  <2>1. /\ pc = "group" /\ cfg' = cfg /\ asked' = asked /\ mapping' = mapping /\ queue' = queue
        /\ ret' = ret /\ builder' = builder /\ Unbuilt' = Unbuilt
    BY <1>3 DEF Group, runVars, Unbuilt
  <2>2. /\ Rounds(asked, toHandle, groups) /\ mapping = NoMapping /\ queue = <<>> /\ ret = <<>>
        /\ builder = NoImages /\ Unbuilt /\ cfg \in Configs
    BY <2>1 DEF Inv
  <2>3. CASE toHandle = <<>>
    <3>1. /\ pc' = IF groups = <<>> THEN "run" ELSE "map"
          /\ todo' = IF groups = <<>> THEN {} ELSE Head(groups)
          /\ toHandle' = toHandle /\ groups' = groups
      BY <1>3, <2>3 DEF Group
    <3>2. /\ groups = <<>> => Ready(asked, NoImages)
          /\ groups # <<>> => Mapping(asked, groups, Head(groups), NoMapping, <<>>, <<>>, NoImages, {})
      BY <2>2, <2>3, RoundsEnd
    <3>3. CASE groups = <<>>
      <4>1. Ready(asked', builder')
        BY <2>1, <2>2, <3>2, <3>3
      <4>2. pc' = "run"
        BY <3>1, <3>3
      <4>3. Progress'
        <5>1. batch' = 1 /\ started' = {} /\ ended' = {} /\ bad' = {}
          BY <2>1, <2>2 DEF Unbuilt
        <5> QED
          BY <5>1 DEF Progress
      <4> QED
        BY <2>1, <2>2, <4>1, <4>2, <4>3, InvPrime
    <3>4. CASE groups # <<>>
      <4>1. Mapping(asked', groups', todo', mapping', queue', ret', builder', {})
        BY <2>1, <2>2, <3>1, <3>2, <3>4
      <4>2. pc' = "map"
        BY <3>1, <3>4
      <4> QED
        BY <2>1, <2>2, <4>1, <4>2, InvPrime
    <3> QED
      BY <3>3, <3>4
  <2>4. CASE toHandle # <<>>
    <3>1. /\ pc' = pc
          /\ groups' = IF current = {} THEN groups ELSE Append(groups, current)
          /\ toHandle' = [i \in DOMAIN toHandle \ current |-> toHandle[i]]
      BY <1>3, <2>4 DEF Group, LeftIn
    <3>2. current = {i \in DOMAIN toHandle : toHandle[i] \subseteq LeftIn(groups)}
      OBVIOUS
    <3> HIDE DEF current
    <3>3. Rounds(asked', toHandle', groups')
      BY <2>1, <2>2, <3>1, <3>2, RoundsGoOn
    <3> QED
      BY <2>1, <2>2, <3>1, <3>3, InvPrime
  <2> QED
    BY <2>3, <2>4
<1> QED
  BY <1>1, <1>2, <1>3

\* What the steps of the mapping have in common.
LEMMA MapInv ==
  ASSUME Inv, pc = "map", cfg' = cfg, Unbuilt' = Unbuilt,
         pc' = "map" /\ AsWritten =>
           \E W : Mapping(asked', groups', todo', mapping', queue', ret', builder', W),
         pc' = "run" /\ AsWritten => Ready(asked', builder'),
         pc' \in {"map", "run"}
  PROVE  Inv'
<1>1. Unbuilt /\ cfg \in Configs
  BY DEF Inv
<1>2. Progress'
  <2>1. batch' = 1 /\ started' = {} /\ ended' = {} /\ bad' = {}
    BY <1>1 DEF Unbuilt
  <2> QED
    BY <2>1 DEF Progress
<1> QED
  BY <1>1, <1>2, InvPrime

LEMMA TakeStep == ASSUME Inv, NEW i \in Images, TakeImage(i) PROVE Inv'
<1>1. /\ pc = "map" /\ pc' = "map" /\ mapping.platforms = {} /\ queue = <<>> /\ ret = <<>> /\ i \in todo
      /\ todo' = todo \ {i} /\ mapping' = [image |-> i, platforms |-> TargetPlatforms(i)]
      /\ cfg' = cfg /\ asked' = asked /\ groups' = groups /\ queue' = queue /\ ret' = ret
      /\ builder' = builder /\ Unbuilt' = Unbuilt
  BY DEF TakeImage, runVars, Unbuilt
<1>2. ASSUME AsWritten PROVE Mapping(asked', groups', todo', mapping', queue', ret', builder', {})
  <2>1. PICK W : Mapping(asked, groups, todo, mapping, queue, ret, builder, W)
    BY <1>1, <1>2 DEF Inv
  <2>2. Mapping(asked, groups, todo, mapping, <<>>, <<>>, builder, W)
    BY <1>1, <2>1
  <2>3. Mapping(asked, groups, todo \ {i}, [image |-> i, platforms |-> TargetPlatforms(i)], <<>>, <<>>, builder, {})
    BY <1>1, <2>2, TakeKeeps
  <2> QED
    BY <1>1, <2>3
<1> QED
  BY <1>1, <1>2, MapInv

LEMMA MapStep == ASSUME Inv, NEW p \in Platforms, MapImage(p) PROVE Inv'
<1>1. /\ pc = "map" /\ pc' = "map" /\ queue = <<>> /\ ret = <<>> /\ p \in mapping.platforms
      /\ mapping' = [mapping EXCEPT !.platforms = @ \ {p}]
      /\ cfg' = cfg /\ asked' = asked /\ groups' = groups /\ todo' = todo /\ ret' = ret
      /\ Unbuilt' = Unbuilt
      /\ IF mapping.image \in cfg.staged
           THEN /\ queue' = <<[name |-> <<mapping.image, 0>>, stage |-> Len(cfg.stages), level |-> 0,
                               platform |-> p]>>
                /\ builder' = builder
           ELSE /\ builder' = MergeImagesSets(builder, <<<<Image(<<mapping.image, 0>>, 0, p)>>>>)
                /\ queue' = queue
  BY DEF MapImage, runVars, Unbuilt
<1>2. ASSUME AsWritten
      PROVE  \E W : Mapping(asked', groups', todo', mapping', queue', ret', builder', W)
  <2>1. PICK W : Mapping(asked, groups, todo, mapping, queue, ret, builder, W)
    BY <1>1, <1>2 DEF Inv
  <2>2. Mapping(asked, groups, todo, mapping, <<>>, <<>>, builder, W) /\ cfg \in Configs
    BY <1>1, <2>1 DEF Inv
  <2>3. CASE mapping.image \in cfg.staged
    <3> DEFINE q == <<[name |-> <<mapping.image, 0>>, stage |-> Len(cfg.stages), level |-> 0,
                       platform |-> p]>>
               n == [mapping EXCEPT !.platforms = @ \ {p}]
    <3>1. Mapping(asked, groups, todo, n, q, <<>>, builder, {p})
      BY <1>1, <2>2, <2>3, StagedKeeps
    <3>2. queue' = q /\ mapping' = n /\ builder' = builder
      BY <1>1, <2>3
    <3> HIDE DEF n, q
    <3> QED
      BY <1>1, <3>1, <3>2
  <2>4. CASE mapping.image \notin cfg.staged
    <3> DEFINE c == MergeImagesSets(builder, <<<<Image(<<mapping.image, 0>>, 0, p)>>>>)
               n == [mapping EXCEPT !.platforms = @ \ {p}]
    <3>1. Mapping(asked, groups, todo, n, <<>>, <<>>, c, {})
      BY <1>1, <2>2, <2>4, PlainKeeps
    <3>2. queue' = <<>> /\ mapping' = n /\ builder' = c
      BY <1>1, <2>4
    <3> HIDE DEF n, c
    <3> QED
      BY <1>1, <3>1, <3>2
  <2> QED
    BY <2>3, <2>4
<1> QED
  BY <1>1, <1>2, MapInv

LEMMA StageStep == ASSUME Inv, MapStage PROVE Inv'
<1> DEFINE item == Head(queue)
           k == item.stage
           base == IF cfg.stages[k].base = Registry THEN <<>>
                   ELSE <<Found(mapping.image, cfg.stages[k].base, item.level + 1, item.platform)>>
           copies == [n \in DOMAIN Resolved(k) |->
                        Found(mapping.image, Resolved(k)[n], item.level + 1, item.platform)]
<1>1. /\ pc = "map" /\ pc' = "map" /\ queue # <<>>
      /\ queue' = Tail(queue) \o base \o copies
      /\ ret' = AppendImageToCurrentSet(ret, item.level, Image(item.name, k, item.platform))
      /\ cfg' = cfg /\ asked' = asked /\ groups' = groups /\ todo' = todo /\ mapping' = mapping
      /\ builder' = builder /\ Unbuilt' = Unbuilt
  <2>1. /\ pc = "map" /\ pc' = "map" /\ queue # <<>>
        /\ cfg' = cfg /\ asked' = asked /\ groups' = groups /\ todo' = todo /\ mapping' = mapping
        /\ builder' = builder
    BY Zenon DEF MapStage
  <2>2. ret' = AppendImageToCurrentSet(ret, item.level, Image(item.name, k, item.platform))
    BY Zenon DEF MapStage
  <2>3. UNCHANGED runVars
    BY Zenon DEF MapStage
  <2>4. Unbuilt' = Unbuilt
    BY <2>3 DEF runVars, Unbuilt
  <2>5. queue' = Tail(queue) \o base \o copies
    BY Zenon DEF MapStage, Found
  <2> QED
    BY <2>1, <2>2, <2>4, <2>5, Zenon
<1>2. /\ item = Head(queue) /\ k = item.stage
      /\ base = IF cfg.stages[k].base = Registry THEN <<>>
                ELSE <<Found(mapping.image, cfg.stages[k].base, item.level + 1, item.platform)>>
      /\ copies = [n \in DOMAIN Resolved(k) |->
                     Found(mapping.image, Resolved(k)[n], item.level + 1, item.platform)]
  OBVIOUS
<1> HIDE DEF item, k, base, copies
<1>3. ASSUME AsWritten
      PROVE  \E W : Mapping(asked', groups', todo', mapping', queue', ret', builder', W)
  <2>1. PICK W : Mapping(asked, groups, todo, mapping, queue, ret, builder, W)
    BY <1>1, <1>3 DEF Inv
  <2>2. cfg \in Configs
    BY DEF Inv
  <2>3. Mapping(asked, groups, todo, mapping, Tail(queue) \o base \o copies,
                AppendImageToCurrentSet(ret, item.level, Image(item.name, k, item.platform)), builder, W)
    BY <1>1, <1>2, <1>3, <2>1, <2>2, StageKeeps, Zenon
  <2> QED
    BY <1>1, <2>3
<1> QED
  BY <1>1, <1>3, MapInv

LEMMA MergeStep == ASSUME Inv, MergeStages PROVE Inv'
<1>1. /\ pc = "map" /\ pc' = "map" /\ queue = <<>> /\ ret # <<>>
      /\ builder' = MergeImagesSets(builder, ret) /\ ret' = <<>>
      /\ cfg' = cfg /\ asked' = asked /\ groups' = groups /\ todo' = todo /\ mapping' = mapping
      /\ queue' = queue /\ Unbuilt' = Unbuilt
  BY DEF MergeStages, runVars, Unbuilt
<1>2. ASSUME AsWritten PROVE Mapping(asked', groups', todo', mapping', queue', ret', builder', {})
  <2>1. PICK W : Mapping(asked, groups, todo, mapping, queue, ret, builder, W)
    BY <1>1, <1>2 DEF Inv
  <2>2. Mapping(asked, groups, todo, mapping, <<>>, ret, builder, W) /\ cfg \in Configs
    BY <1>1, <2>1 DEF Inv
  <2>3. Mapping(asked, groups, todo, mapping, <<>>, <<>>, MergeImagesSets(builder, ret), {})
    BY <1>1, <1>2, <2>2, MergeKeeps
  <2> QED
    BY <1>1, <2>3
<1> QED
  BY <1>1, <1>2, MapInv

LEMMA NextGroupStep == ASSUME Inv, NextGroup PROVE Inv'
<1>1. /\ pc = "map" /\ todo = {} /\ mapping.platforms = {} /\ queue = <<>> /\ ret = <<>>
      /\ builder' = BuilderNext(builder) /\ groups' = Tail(groups)
      /\ Len(groups) # 1 => todo' = groups[2]
      /\ pc' = IF Len(groups) = 1 THEN "run" ELSE "map"
      /\ cfg' = cfg /\ asked' = asked /\ mapping' = mapping /\ queue' = queue /\ ret' = ret
      /\ Unbuilt' = Unbuilt
  BY DEF NextGroup, runVars, Unbuilt
<1>2. ASSUME AsWritten
      PROVE  /\ Len(groups) = 1 => Ready(asked', builder')
             /\ Len(groups) # 1 => Mapping(asked', groups', todo', mapping', queue', ret', builder', {})
  <2>1. PICK W : Mapping(asked, groups, todo, mapping, queue, ret, builder, W)
    BY <1>1, <1>2 DEF Inv
  <2>2. Mapping(asked, groups, {}, mapping, <<>>, <<>>, builder, W) /\ cfg \in Configs
    BY <1>1, <2>1 DEF Inv
  <2>3. /\ Len(groups) = 1 => Ready(asked, BuilderNext(builder))
        /\ Len(groups) # 1 =>
             Mapping(asked, Tail(groups), groups[2], mapping, <<>>, <<>>, BuilderNext(builder), {})
    BY <1>1, <2>2, NextKeeps
  <2> QED
    BY <1>1, <2>3
<1> QED
  BY <1>1, <1>2, MapInv

\* What the steps of the build have in common.
LEMMA RunInv ==
  ASSUME Inv, pc = "run", cfg' = cfg, UNCHANGED planVars, pc' \in {"run", "done", "failed", "panic"},
         pc' = "run" /\ AsWritten => Progress'
  PROVE  Inv'
<1>1. asked' = asked /\ builder' = builder
  BY DEF planVars
<1>2. AsWritten => Ready(asked', builder')
  BY <1>1 DEF Inv
<1>3. cfg \in Configs
  BY DEF Inv
<1> QED
  BY <1>2, <1>3, InvPrime

LEMMA StartStep == ASSUME Inv, NEW n, StartImage(n) PROVE Inv'
<1>1. /\ pc = "run" /\ pc' \in {"run", "panic"} /\ cfg' = cfg /\ UNCHANGED planVars
      /\ batch <= Len(Batches) /\ n \in DOMAIN Batches[batch] /\ started' = started \cup {n}
      /\ batch' = batch /\ ended' = ended /\ bad' = bad /\ built' = built
      /\ pc' = "run" => \A ask \in Asks(Batches[batch][n]) : GetImage(ask, Batches[batch][n].platform) # {}
  BY DEF StartImage
<1>2. ASSUME pc' = "run", AsWritten PROVE Progress'
  <2>1. Progress
    BY <1>1, <1>2 DEF Inv
  <2>2. builder' = builder
    BY <1>1 DEF planVars
  <2>3. Batches' = Batches
    BY <1>1, <2>2, SameBatches
  <2>4. \A m \in started \cup {n} : \A ask \in Asks(Batches[batch][m]) :
          GetImage(ask, Batches[batch][m].platform) # {}
    BY <1>1, <1>2, <2>1 DEF Progress
  <2>5. (\A m \in started : \A ask \in Asks(Batches[batch][m]) :
           GetImage(ask, Batches[batch][m].platform) # {})'
    <3>1. \A m \in started' : \A ask \in Asks(Batches[batch][m]) :
            GetImage(ask, Batches[batch][m].platform) # {}
      BY <1>1, <2>4
    <3>2. batch' = batch /\ \A z : Asks(z)' = Asks(z) /\ \A name, p : GetImage(name, p)' = GetImage(name, p)
      BY <1>1, <2>2, SameBatches
    <3> QED
      BY <2>3, <3>1, <3>2
  <2>6. /\ batch \in Nat \ {0}
        /\ \A m \in 1..Len(Batches) : m < batch => \A k \in 1..Len(Batches[m]) : Batches[m][k] \in built
        /\ batch <= Len(Batches)
        /\ started \cup {n} \subseteq DOMAIN Batches[batch] /\ ended \subseteq started \cup {n}
        /\ bad \subseteq ended
        /\ \A m \in ended \ bad : Batches[batch][m] \in built
    BY <1>1, <2>1 DEF Progress
  <2> QED
    BY <1>1, <2>3, <2>5, <2>6 DEF Progress
<1> QED
  BY <1>1, <1>2, RunInv

LEMMA EndStep == ASSUME Inv, NEW n, EndImage(n) PROVE Inv'
<1>1. /\ pc = "run" /\ pc' = "run" /\ cfg' = cfg /\ UNCHANGED planVars
      /\ n \in started \ ended /\ ended' = ended \cup {n} /\ batch' = batch /\ started' = started
      /\ \/ built' = built \cup {Batches[batch][n]} /\ bad' = bad
         \/ bad' = bad \cup {n} /\ built' = built
  BY DEF EndImage
<1>2. ASSUME AsWritten PROVE Progress'
  <2>1. Progress
    BY <1>1, <1>2 DEF Inv
  <2>2. builder' = builder
    BY <1>1 DEF planVars
  <2>3. Batches' = Batches
    BY <1>1, <2>2, SameBatches
  <2>4. (\A m \in started : \A ask \in Asks(Batches[batch][m]) :
           GetImage(ask, Batches[batch][m].platform) # {})'
    <3>1. \A m \in started : \A ask \in Asks(Batches[batch][m]) :
            GetImage(ask, Batches[batch][m].platform) # {}
      BY <2>1 DEF Progress
    <3> QED
      BY <1>1, <2>2, <2>3, <3>1, SameBatches
  <2>5. built \subseteq built'
    BY <1>1
  <2>6. \A m \in 1..Len(Batches) : m < batch => \A k \in 1..Len(Batches[m]) : Batches[m][k] \in built'
    BY <2>1, <2>5 DEF Progress
  <2>7. /\ batch \in Nat \ {0} /\ (started # {} => batch <= Len(Batches))
        /\ started \subseteq DOMAIN Batches[batch] /\ ended' \subseteq started /\ bad' \subseteq ended'
    BY <1>1, <2>1 DEF Progress
  <2>8. \A m \in ended' \ bad' : Batches[batch][m] \in built'
    <3>1. \A m \in ended \ bad : Batches[batch][m] \in built
      BY <2>1 DEF Progress
    <3> QED
      BY <1>1, <3>1
  <2> QED
    BY <1>1, <2>3, <2>4, <2>6, <2>7, <2>8 DEF Progress
<1> QED
  BY <1>1, <1>2, RunInv

LEMMA EndSetStep == ASSUME Inv, EndSet PROVE Inv'
<1>1. /\ pc = "run" /\ cfg' = cfg /\ UNCHANGED planVars /\ built' = built
      /\ \/ pc' = "failed"
         \/ /\ pc' = "run" /\ bad = {} /\ ended = DOMAIN Batches[batch]
            /\ batch' = batch + 1 /\ started' = {} /\ ended' = {} /\ bad' = {}
  BY DEF EndSet
<1>2. ASSUME pc' = "run", AsWritten PROVE Progress'
  <2>1. Progress /\ Ready(asked, builder)
    BY <1>1, <1>2 DEF Inv
  <2>2. Batches' = Batches
    BY <1>1, SameBatches DEF planVars
  <2>3. \A m \in 1..Len(Batches) : DOMAIN Batches[m] = 1..Len(Batches[m])
    <3>1. PICK X : OnceInSets(Batches, X)
      BY <2>1, BatchesHold DEF Ready
    <3>2. \A m \in 1..Len(Batches) : Batches[m] \in Seq(X)
      BY <3>1 DEF OnceInSets
    <3> QED
      BY <3>2
  <2>4. bad = {} /\ ended = DOMAIN Batches[batch] /\ batch' = batch + 1 /\ started' = {}
        /\ ended' = {} /\ bad' = {}
    BY <1>1, <1>2
  <2>5. ASSUME NEW m \in 1..Len(Batches), m < batch + 1, NEW k \in 1..Len(Batches[m])
        PROVE  Batches[m][k] \in built
    <3>0. batch \in Nat
      BY <2>1 DEF Progress
    <3>1. CASE m < batch
      BY <2>1, <2>5, <3>1 DEF Progress
    <3>2. CASE m = batch
      <4>1. k \in ended \ bad
        BY <2>3, <2>4, <2>5, <3>2
      <4> QED
        BY <2>1, <3>2, <4>1 DEF Progress
    <3> QED
      BY <2>5, <3>0, <3>1, <3>2
  <2>6. batch + 1 \in Nat \ {0}
    BY <2>1 DEF Progress
  <2> QED
    BY <1>1, <2>2, <2>4, <2>5, <2>6 DEF Progress
<1> QED
  BY <1>1, <1>2, RunInv

LEMMA EndImagesStep == ASSUME Inv, EndImages PROVE Inv'
<1>1. pc = "run" /\ cfg' = cfg /\ UNCHANGED planVars /\ pc' = "done"
  BY DEF EndImages
<1> QED
  BY <1>1, RunInv

LEMMA InvStep == ASSUME Inv, [Next]_vars PROVE Inv'
<1>1. ASSUME NEW n, StartImage(n) \/ EndImage(n) PROVE Inv'
  BY <1>1, StartStep, EndStep
<1>2. CASE Validate \/ Select \/ Group
  BY <1>2, PlanSteps
<1>3. CASE MapStage \/ MergeStages \/ NextGroup
  BY <1>3, StageStep, MergeStep, NextGroupStep
<1>4. CASE EndSet \/ EndImages
  BY <1>4, EndSetStep, EndImagesStep
<1> QED
  BY <1>1, <1>2, <1>3, <1>4, TakeStep, MapStep, InvStutters DEF Next

-----------------------------------------------------------------------------
(* What is built and when.                                                 *)

LEMMA WantedImages ==
  ASSUME cfg \in Configs, NEW a, NEW x \in ImagesFor(PairsOf(Wanted(a)))
  PROVE  \E i \in Wanted(a) : \E p \in TargetPlatforms(i) : x \in ImagesOf(i, p)
<1>1. PICK z \in PairsOf(Wanted(a)) : x \in ImagesOf(z[1], z[2])
  BY DEF ImagesFor
<1>2. z[1] \in Wanted(a) /\ z[2] \in TargetPlatforms(z[1])
  BY DEF PairsOf
<1> QED
  BY <1>1, <1>2

LEMMA ImagesWanted ==
  ASSUME cfg \in Configs, NEW a, NEW i \in Wanted(a), NEW p \in TargetPlatforms(i),
         NEW x \in ImagesOf(i, p)
  PROVE  x \in ImagesFor(PairsOf(Wanted(a)))
<1>1. i \in cfg.defined
  BY WantedDefined
<1>2. i \in Images /\ p \in Platforms
  BY <1>1, ConfigFacts, PlatformsOf
<1>3. <<i, p>> \in PairsOf(Wanted(a)) /\ <<i, p>>[1] = i /\ <<i, p>>[2] = p
  BY <1>2 DEF PairsOf
<1> QED
  BY <1>3 DEF ImagesFor

\* GetImage finds the image that is meant by the name of a configured image.
LEMMA NameMeans ==
  ASSUME cfg \in Configs, NEW j, NEW q, NEW x \in ImagesOf(j, q), NEW i, x.name = <<i, 0>>
  PROVE  Meant(x) = <<i, TargetOf(i), q>>
<1> DEFINE k == x.stage
<1>1. Meant(x) = <<j, k, q>> /\ k \in StagesFor(j) /\ x = Planned(j, k, q)
  BY ImageFacts
<1>2. x.name = NameOf(j, k)
  BY <1>1 DEF Planned, Image
<1> HIDE DEF k
<1>3. NameOf(j, k)[1] = j /\ (k \notin {0, Target} => NameOf(j, k)[2] \in {k, -1})
  BY DEF NameOf, StageName
<1>4. j = i
  BY <1>2, <1>3
<1>5. CASE j \in cfg.staged
  <2>1. k \in 1..Target /\ Target \in Nat
    BY <1>1, <1>5, NeededStages, ConfigFacts DEF StagesFor
  <2>2. k = Target
    BY <1>2, <1>3, <2>1
  <2> QED
    BY <1>1, <1>4, <1>5, <2>2 DEF TargetOf, Target
<1>6. CASE j \notin cfg.staged
  BY <1>1, <1>4, <1>6 DEF TargetOf, StagesFor
<1> QED
  BY <1>5, <1>6

LEMMA InvNeeded == ASSUME Inv PROVE NeededBuiltFirst
<1> SUFFICES ASSUME pc = "run", AsWritten, NEW n \in started, NEW w \in Needs(Batches[batch][n])
             PROVE  \E img \in built : Meant(img) = w
  BY DEF NeededBuiltFirst
<1> DEFINE X == ImagesFor(PairsOf(Wanted(asked)))
           y == Batches[batch][n]
<1>1. cfg \in Configs /\ Ready(asked, builder) /\ Progress
  BY DEF Inv
<1>2. PICK F : Holds(builder, X, F)
  BY <1>1 DEF Ready
<1>3. OnceInSets(Batches, X) /\ SetsInOrder(Batches)
  <2> HIDE DEF X
  <2> QED
    BY <1>2, BatchesHold
<1>4. batch \in 1..Len(Batches) /\ n \in 1..Len(Batches[batch]) /\ y \in X
  <2>1. batch \in Nat \ {0} /\ batch <= Len(Batches) /\ n \in DOMAIN Batches[batch]
    BY <1>1 DEF Progress
  <2> HIDE DEF X
  <2>2. Batches \in Seq(Seq(X)) /\ Len(Batches) \in Nat
    BY <1>3 DEF OnceInSets
  <2>3. batch \in 1..Len(Batches)
    BY <2>1, <2>2
  <2>4. Batches[batch] \in Seq(X)
    BY <2>2, <2>3
  <2> QED
    BY <2>1, <2>3, <2>4
<1>5. PICK i \in Wanted(asked) : \E p \in TargetPlatforms(i) : y \in ImagesOf(i, p)
  BY <1>1, <1>4, WantedImages
<1>6. PICK p \in TargetPlatforms(i) : y \in ImagesOf(i, p)
  BY <1>5
<1>7. y.name[1] = i /\ y.platform = p /\ y.stage \in StagesFor(i)
  BY <1>6, ImageFacts
<1>8. \/ \E k : y.stage # 0 /\ k \in StagesOf(y.stage) /\ w = <<i, k, p>>
      \/ \E j \in Relatives[i] : w = <<j, TargetOf(j), p>>
  BY <1>7 DEF Needs
<1> HIDE DEF y
<1>9. \E x \in X : Meant(x) = w
  <2>1. CASE \E k : y.stage # 0 /\ k \in StagesOf(y.stage) /\ w = <<i, k, p>>
    <3>1. PICK k : y.stage # 0 /\ k \in StagesOf(y.stage) /\ w = <<i, k, p>>
      BY <2>1
    <3>2. i \in cfg.staged /\ y.stage \in StagesNeeded
      BY <1>7, <3>1 DEF StagesFor
    <3>3. k \in StagesFor(i)
      BY <1>1, <3>1, <3>2, NeededStages DEF StagesFor
    <3>4. Planned(i, k, p) \in ImagesOf(i, p) /\ Planned(i, k, p).stage = k
      BY <3>3 DEF ImagesOf, Planned, Image
    <3>5. Meant(Planned(i, k, p)) = w
      BY <3>1, <3>4, ImageFacts
    <3>6. Planned(i, k, p) \in X
      BY <1>1, <3>4, ImagesWanted
    <3> QED
      BY <3>5, <3>6
  <2>2. CASE \E j \in Relatives[i] : w = <<j, TargetOf(j), p>>
    <3>1. PICK j \in Relatives[i] : w = <<j, TargetOf(j), p>>
      BY <2>2
    <3>2. <<j, 0>> \in Asks(y)
      <4>1. i \in cfg.defined
        BY WantedDefined
      <4>2. Relatives[i] = IF i \in cfg.staged THEN cfg.deps[i] ELSE Relatives[i]
        BY <4>1 DEF Relatives
      <4> QED
        BY <1>7, <3>1, <4>2 DEF Asks
    <3>3. GetImage(<<j, 0>>, p) # {}
      BY <1>1, <1>7, <3>2 DEF Progress, y
    <3>4. PICK m \in DOMAIN builder.images :
            builder.images[m].name = <<j, 0>> /\ builder.images[m].platform = p
      BY <3>3 DEF GetImage
    <3> DEFINE x == builder.images[m]
    <3>5. x \in X
      <4> HIDE DEF X
      <4>1. builder.images \in Seq(X)
        BY <1>2 DEF Holds, OnceIn
      <4> QED
        BY <4>1
    <3>6. x.name = <<j, 0>> /\ x.platform = p
      BY <3>4
    <3> HIDE DEF x
    <3>7. PICK i1 \in Wanted(asked) : \E p1 \in TargetPlatforms(i1) : x \in ImagesOf(i1, p1)
      BY <1>1, <3>5, WantedImages
    <3>8. PICK p1 \in TargetPlatforms(i1) : x \in ImagesOf(i1, p1)
      BY <3>7
    <3>9. p1 = p
      BY <3>6, <3>8, ImageFacts
    <3>10. Meant(x) = w
      BY <1>1, <3>1, <3>6, <3>8, <3>9, NameMeans
    <3> QED
      BY <3>5, <3>10
  <2> QED
    BY <1>8, <2>1, <2>2
<1> HIDE DEF X
<1>10. PICK x \in X : Meant(x) = w
  BY <1>9
<1>11. NeedsImage(y, x)
  BY <1>10 DEF NeedsImage, y
<1>12. PICK m \in 1..Len(Batches) : \E l \in 1..Len(Batches[m]) : Batches[m][l] = x
  BY <1>3 DEF OnceInSets
<1>13. PICK l \in 1..Len(Batches[m]) : Batches[m][l] = x
  BY <1>12
<1>14. m < batch
  <2>1. NeedsImage(Batches[batch][n], Batches[m][l])
    BY <1>11, <1>13 DEF y
  <2> QED
    BY <1>3, <1>4, <2>1 DEF SetsInOrder
<1>15. x \in built
  BY <1>1, <1>13, <1>14 DEF Progress
<1> QED
  BY <1>10, <1>15

\* A sequence with each of X once has as many elements as there are meant.
LEMMA MeantOnce ==
  ASSUME NEW X, NEW s, OnceIn(s, X), \A x, y \in X : Meant(x) = Meant(y) => x = y
  PROVE  Len(s) = Cardinality({Meant(x) : x \in X})
<1> DEFINE M == {Meant(x) : x \in X}
           t == [n \in 1..Len(s) |-> Meant(s[n])]
<1>1. s \in Seq(X) /\ Len(s) \in Nat /\ \A n \in 1..Len(s) : s[n] \in X
  BY DEF OnceIn
<1>2. t \in [1..Len(s) -> M]
  BY <1>1
<1>3. \A n \in 1..Len(s) : t[n] = Meant(s[n])
  OBVIOUS
<1>4. \A x \in X : \E n \in 1..Len(s) : s[n] = x
  BY DEF OnceIn
<1>5. \A z \in M : \E x \in X : z = Meant(x)
  OBVIOUS
<1> HIDE DEF t, M
<1>6. t \in Seq(M) /\ Len(t) = Len(s)
  BY <1>1, <1>2, FunctionIsSeq
<1>7. ASSUME NEW z \in M PROVE \E n \in 1..Len(t) : t[n] = z
  BY <1>3, <1>4, <1>5, <1>6
<1>8. ASSUME NEW m \in 1..Len(t), NEW n \in 1..Len(t), t[m] = t[n] PROVE m = n
  <2>1. s[m] = s[n]
    BY <1>1, <1>3, <1>6, <1>8
  <2> QED
    BY <1>6, <2>1 DEF OnceIn
<1>9. OnceIn(t, M)
  BY <1>6, <1>7, <1>8 DEF OnceIn
<1>10. Len(t) = Cardinality(M)
  BY <1>9, OnceCounts
<1> QED
  BY <1>6, <1>10 DEF M

LEMMA InvExact == ASSUME Inv PROVE PlanIsExact
<1> DEFINE Stages(i) == IF i \in cfg.staged THEN StagesNeeded ELSE {0}
           wanted == UNION {{i} \X Stages(i) \X TargetPlatforms(i) : i \in Reached(asked, Relatives)}
           X == ImagesFor(PairsOf(Wanted(asked)))
           M == {Meant(x) : x \in X}
<1> SUFFICES ASSUME pc = "run", AsWritten
             PROVE  /\ {Meant(img) : img \in ToSet(builder.images)} = wanted
                    /\ Len(builder.images) = Cardinality(wanted)
                    /\ Len(FlattenSeq(builder.imagesSets)) = Cardinality(wanted)
                    /\ ToSet(FlattenSeq(builder.imagesSets)) = ToSet(builder.images)
                    /\ \A n \in DOMAIN builder.imagesSets : builder.imagesSets[n] # <<>>
  BY DEF PlanIsExact
<1>1. cfg \in Configs /\ Ready(asked, builder)
  BY DEF Inv
<1>2. PICK F : Holds(builder, X, F)
  BY <1>1 DEF Ready
<1>3. ASSUME NEW x \in X, NEW y \in X, Meant(x) = Meant(y) PROVE x = y
  <2>1. PICK i \in Wanted(asked) : \E p \in TargetPlatforms(i) : x \in ImagesOf(i, p)
    BY <1>1, WantedImages
  <2>2. PICK p \in TargetPlatforms(i) : x \in ImagesOf(i, p)
    BY <2>1
  <2>3. PICK j \in Wanted(asked) : \E q \in TargetPlatforms(j) : y \in ImagesOf(j, q)
    BY <1>1, WantedImages
  <2>4. PICK q \in TargetPlatforms(j) : y \in ImagesOf(j, q)
    BY <2>3
  <2>5. x = Planned(i, x.stage, p) /\ Meant(x) = <<i, x.stage, p>>
    BY <2>2, ImageFacts
  <2>6. y = Planned(j, y.stage, q) /\ Meant(y) = <<j, y.stage, q>>
    BY <2>4, ImageFacts
  <2>7. i = j /\ x.stage = y.stage /\ p = q
    <3> DEFINE k == x.stage
               l == y.stage
    <3>1. <<i, k, p>> = <<j, l, q>>
      BY <1>3, <2>5, <2>6
    <3> HIDE DEF k, l
    <3>2. i = j /\ k = l /\ p = q
      BY <3>1
    <3> QED
      BY <3>2 DEF k, l
  <2> QED
    BY <2>5, <2>6, <2>7
<1>4. M = wanted
  <2>1. ASSUME NEW x \in X PROVE Meant(x) \in wanted
    <3>1. PICK i \in Wanted(asked) : \E p \in TargetPlatforms(i) : x \in ImagesOf(i, p)
      BY <1>1, WantedImages
    <3>2. PICK p \in TargetPlatforms(i) : x \in ImagesOf(i, p)
      BY <3>1
    <3>3. Meant(x) = <<i, x.stage, p>> /\ x.stage \in Stages(i)
      BY <3>2, ImageFacts DEF StagesFor
    <3>4. Meant(x) \in {i} \X Stages(i) \X TargetPlatforms(i)
      BY <3>3
    <3> QED
      BY <3>4 DEF Wanted
  <2>2. ASSUME NEW w \in wanted PROVE w \in M
    <3>1. PICK i \in Wanted(asked) : w \in {i} \X Stages(i) \X TargetPlatforms(i)
      BY DEF Wanted
    <3>2. PICK k \in Stages(i), p \in TargetPlatforms(i) : w = <<i, k, p>>
      BY <3>1
    <3>3. Planned(i, k, p) \in ImagesOf(i, p) /\ Planned(i, k, p).stage = k
      BY <3>2 DEF ImagesOf, StagesFor, Planned, Image
    <3>4. Meant(Planned(i, k, p)) = w
      BY <3>2, <3>3, ImageFacts
    <3>5. Planned(i, k, p) \in X
      BY <1>1, <3>3, ImagesWanted
    <3> QED
      BY <3>4, <3>5
  <2> QED
    BY <2>1, <2>2
<1> HIDE DEF X, wanted
<1>5. OnceIn(builder.images, X) /\ OnceInSets(builder.imagesSets, X) /\ NonEmptySets(builder.imagesSets)
  BY <1>2 DEF Holds
<1>6. OnceIn(FlattenSeq(builder.imagesSets), X)
  BY <1>5, FlattenOnce
<1>7. ToSet(builder.images) = X /\ ToSet(FlattenSeq(builder.imagesSets)) = X
  BY <1>5, <1>6, OnceCounts
<1>8. Len(builder.images) = Cardinality(M) /\ Len(FlattenSeq(builder.imagesSets)) = Cardinality(M)
  BY <1>3, <1>5, <1>6, MeantOnce
<1>9. \A n \in DOMAIN builder.imagesSets : builder.imagesSets[n] # <<>>
  <2>1. DOMAIN builder.imagesSets = 1..Len(builder.imagesSets)
    BY <1>5 DEF OnceInSets
  <2>2. Len(<<>>) = 0
    OBVIOUS
  <2> QED
    BY <1>5, <2>1, <2>2 DEF NonEmptySets
<1> QED
  BY <1>4, <1>7, <1>8, <1>9

\* An image of a batch of doImages begins only after every image it is made from
\* has been processed without an error, for every configuration, selection of images
\* and order in which the images of a group are mapped.
THEOREM BuiltInOrder == Spec => []NeededBuiltFirst
<1>1. Init => Inv
  BY InvInit
<1>2. Inv /\ [Next]_vars => Inv'
  BY InvStep
<1>3. Inv => NeededBuiltFirst
  BY InvNeeded
<1> QED
  BY <1>1, <1>2, <1>3, PTL DEF Spec

\* The plan is exact: what GroupImagesByIndependentSets, mapDockerfileToImagesSets and
\* MergeImagesSets leave in the builder is what is asked for and what that needs, each
\* stage and platform once, in sets none of which is empty.
THEOREM PlansAreExact == Spec => []PlanIsExact
<1>1. Init => Inv
  BY InvInit
<1>2. Inv /\ [Next]_vars => Inv'
  BY InvStep
<1>3. Inv => PlanIsExact
  BY InvExact
<1> QED
  BY <1>1, <1>2, <1>3, PTL DEF Spec
=============================================================================
