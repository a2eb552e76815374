--------------------------- MODULE ObjImportProofs ----------------------------
(***************************************************************************)
(* Theorems about ObjImport, for every value of its constants: an OBJ file *)
(* becomes the triangles it describes, in buffers of the right size, and   *)
(* with the materials its subsets need.                                    *)
(***************************************************************************)
EXTENDS ObjImport, SequenceTheorems, FiniteSetTheorems, NaturalsInduction,
        WellFoundedInduction, TLAPS

-----------------------------------------------------------------------------
(* Recursion: what a definition by recursion over 0 .. n computes *)

\* A set of natural numbers has a least one.
LEMMA Least ==
  ASSUME NEW T, T \subseteq Nat, T # {}
  PROVE  \E x \in T : \A y \in T : x <= y
<1> DEFINE R == {p \in Nat \X Nat : p[1] < p[2]}
<1>1. IsWellFoundedOn(R, Nat)
  BY NatLessThanWellFounded DEF OpToRel
<1>2. \A x, y \in Nat : y < x => <<y, x>> \in R
  OBVIOUS
<1> HIDE DEF R
<1>3. PICK x \in T : \A y \in T : ~ (<<y, x>> \in R)
  BY <1>1, WFMin
<1>4. ASSUME NEW y \in T  PROVE  x <= y
  <2>1. x \in Nat /\ y \in Nat /\ ~ (y < x)
    BY <1>2, <1>3
  <2> QED  BY <2>1
<1> QED  BY <1>4

\* A bounded set of natural numbers has a greatest one.
LEMMA Greatest ==
  ASSUME NEW n \in Nat, NEW U, U # {}, \A j \in U : j \in Nat /\ j <= n
  PROVE  \E j \in U : \A i \in U : i <= j
<1>1. PICK B : B = {i \in Nat : \A j \in U : j <= i}
  OBVIOUS
<1>2. n \in B /\ B \subseteq Nat
  BY <1>1
<1>3. PICK m \in B : \A i \in B : m <= i
  BY <1>2, Least
<1>4. m \in Nat /\ \A j \in U : j <= m /\ j \in Nat
  BY <1>1, <1>3
<1>5. ASSUME m \notin U  PROVE FALSE
  <2>1. \A j \in U : j <= m - 1
    BY <1>4, <1>5
  <2>2. m # 0
    <3>1. PICK j \in U : j <= m - 1
      BY <2>1
    <3> QED  BY <1>4, <3>1
  <2>3. m - 1 \in B
    BY <1>1, <1>4, <2>1, <2>2
  <2> QED  BY <1>3, <1>4, <2>3
<1> QED  BY <1>4, <1>5

\* What holds of 0 and is passed on holds of all numbers up to n: the
\* induction of the library for the set of the numbers it holds of.
LEMMA UpTo ==
  ASSUME NEW n \in Nat, NEW T,
         0 \in T, \A k \in 1 .. n : k - 1 \in T => k \in T
  PROVE  \A k \in 0 .. n : k \in T
<1> SUFFICES ASSUME \E k \in 0 .. n : k \notin T  PROVE FALSE
  OBVIOUS
<1>1. (0 .. n) \ T \subseteq Nat /\ (0 .. n) \ T # {}
  OBVIOUS
<1>2. PICK k \in (0 .. n) \ T : \A j \in (0 .. n) \ T : k <= j
  BY <1>1, Least
<1>3. k \in 1 .. n /\ k - 1 \in 0 .. n /\ ~ (k <= k - 1)
  BY <1>2
<1> QED  BY <1>2, <1>3

\* step[k] is what the recursion does to the value before k, g its solution.
Stepper(n, S, step) == \A k \in 1 .. n : \A x \in S : step[k][x] \in S

Solves(n, S, base, step, g) == /\ g \in [0 .. n -> S]
                               /\ g[0] = base
                               /\ \A k \in 1 .. n : g[k] = step[k][g[k - 1]]

LEMMA Recursion ==
  ASSUME NEW n \in Nat, NEW S, NEW base \in S, NEW step, Stepper(n, S, step)
  PROVE  \E g : Solves(n, S, base, step, g)
<1> DEFINE T == {m \in 0 .. n : \E g : Solves(m, S, base, step, g)}
<1>1. 0 \in T
  <2>1. Solves(0, S, base, step, [k \in 0 .. 0 |-> base])
    BY DEF Solves
  <2> QED  BY <2>1
<1>2. ASSUME NEW m \in 1 .. n, m - 1 \in T  PROVE  m \in T
  <2>1. PICK g : Solves(m - 1, S, base, step, g)
    BY <1>2
  <2>e. /\ g \in [0 .. m - 1 -> S] /\ g[0] = base
        /\ \A k \in 1 .. m - 1 : g[k] = step[k][g[k - 1]]
    BY <2>1 DEF Solves
  <2> DEFINE h == [k \in 0 .. m |-> IF k < m THEN g[k] ELSE step[m][g[m - 1]]]
  <2>2. h \in [0 .. m -> S]
    <3>1. g[m - 1] \in S
      BY <2>e
    <3>2. step[m][g[m - 1]] \in S
      BY <3>1 DEF Stepper
    <3>3. ASSUME NEW k \in 0 .. m  PROVE  h[k] \in S
      <4>1. CASE k < m
        <5>1. k \in 0 .. m - 1
          BY <4>1
        <5> QED  BY <5>1, <4>1, <2>e
      <4>2. CASE k = m
        BY <4>2, <3>2
      <4> QED  BY <4>1, <4>2
    <3> QED  BY <3>3
  <2>3. h[0] = base
    BY <2>e
  <2>4. ASSUME NEW k \in 1 .. m  PROVE  h[k] = step[k][h[k - 1]]
    <3>1. h[k - 1] = g[k - 1]
      OBVIOUS
    <3>2. CASE k < m
      <4>1. k \in 1 .. m - 1 /\ h[k] = g[k]
        BY <3>2
      <4> QED  BY <3>1, <4>1, <2>e
    <3>3. CASE k = m
      <4>1. h[k] = step[m][g[m - 1]]
        BY <3>3
      <4> HIDE DEF h
      <4> QED  BY <3>1, <3>3, <4>1
    <3> QED  BY <3>2, <3>3
  <2>5. Solves(m, S, base, step, h)
    BY <2>2, <2>3, <2>4 DEF Solves
  <2> QED  BY <2>5
<1> HIDE DEF T
<1>3. \A m \in 0 .. n : m \in T
  <2>1. \A m \in 1 .. n : m - 1 \in T => m \in T
    BY <1>2
  <2> QED  BY <1>1, <2>1, UpTo, Zenon
<1>4. n \in T
  BY <1>3
<1> QED  BY <1>4 DEF T

-----------------------------------------------------------------------------
(* FlattenSeq *)

\* g[k] is the concatenation of the first k elements of s.
Concats(T, s, g) == /\ g \in [0 .. Len(s) -> Seq(T)]
                    /\ g[0] = <<>>
                    /\ \A k \in 1 .. Len(s) : g[k] = g[k - 1] \o s[k]

LEMMA HasConcats ==
  ASSUME NEW T, NEW s \in Seq(Seq(T))
  PROVE  \E g : Concats(T, s, g)
<1>1. PICK n \in Nat : n = Len(s)
  OBVIOUS
<1> DEFINE step == [k \in 1 .. n |-> [x \in Seq(T) |-> x \o s[k]]]
<1>e. <<>> \in Seq(T)
  OBVIOUS
<1>2. ASSUME NEW k \in 1 .. n, NEW x \in Seq(T)
      PROVE  step[k][x] = x \o s[k] /\ step[k][x] \in Seq(T)
  <2>1. s[k] \in Seq(T)
    BY <1>1
  <2> QED  BY <2>1
<1>3. \A k \in 1 .. n : \A x \in Seq(T) : step[k][x] \in Seq(T)
  BY <1>2
<1> HIDE DEF step
<1>4. PICK g : /\ g \in [0 .. n -> Seq(T)]
               /\ g[0] = <<>>
               /\ \A k \in 1 .. n : g[k] = step[k][g[k - 1]]
  <2>1. Stepper(n, Seq(T), step)
    BY <1>3 DEF Stepper
  <2>2. \E g : Solves(n, Seq(T), <<>>, step, g)
    BY <1>1, <1>e, <2>1, Recursion
  <2> QED  BY <2>2 DEF Solves
<1>5. ASSUME NEW k \in 1 .. n  PROVE  g[k] = g[k - 1] \o s[k]
  <2>1. k - 1 \in 0 .. n
    OBVIOUS
  <2>2. g[k - 1] \in Seq(T)
    BY <1>4, <2>1
  <2> QED  BY <1>2, <1>4, <2>2
<1> QED  BY <1>1, <1>4, <1>5 DEF Concats

LEMMA FlattenIs ==
  ASSUME NEW T, NEW s \in Seq(Seq(T)), NEW g, Concats(T, s, g)
  PROVE  FlattenSeq(s) = g[Len(s)] /\ FlattenSeq(s) \in Seq(T)
<1>0. PICK n \in Nat : n = Len(s)
  OBVIOUS
<1> DEFINE Eq(f) == f = [i \in 1 .. n |-> IF i = 1 THEN s[i] ELSE f[i - 1] \o s[i]]
           flatten == CHOOSE f : Eq(f)
<1>1. /\ g[0] = <<>> /\ g \in [0 .. n -> Seq(T)]
      /\ \A k \in 1 .. n : g[k] = g[k - 1] \o s[k]
  BY <1>0 DEF Concats
<1>2. CASE n = 0
  <2>1. s = <<>>
    BY <1>0, <1>2, EmptySeq
  <2> QED  BY <1>0, <1>1, <1>2, <2>1 DEF FlattenSeq
<1>3. CASE n # 0
  <2>1. s[1] \in Seq(T) /\ g[1] = s[1]
    <3>1. s[1] \in Seq(T) /\ g[1] = g[0] \o s[1]
      <4>1. 1 \in 1 .. n /\ 1 - 1 = 0
        BY <1>3
      <4>2. s[1] \in Seq(T)
        BY <1>0, <4>1, ElementOfSeq
      <4> QED  BY <1>1, <4>1, <4>2
    <3> QED  BY <1>1, <3>1, ConcatEmptySeq
  <2>2. Eq([i \in 1 .. n |-> g[i]])
    <3> DEFINE f == [i \in 1 .. n |-> g[i]]
               rhs == [i \in 1 .. n |-> IF i = 1 THEN s[i] ELSE f[i - 1] \o s[i]]
    <3>1. ASSUME NEW i \in 1 .. n  PROVE  f[i] = rhs[i]
      <4>1. CASE i = 1
        BY <2>1, <4>1
      <4>2. CASE i # 1
        <5>1. i - 1 \in 1 .. n
          BY <4>2
        <5>2. f[i - 1] = g[i - 1]
          BY <5>1
        <5> HIDE DEF f
        <5>3. rhs[i] = g[i - 1] \o s[i]
          BY <4>2, <5>2
        <5> QED  BY <1>1, <5>3 DEF f
      <4> QED  BY <4>1, <4>2
    <3>2. f = rhs
      BY <3>1
    <3> QED  BY <3>2
  <2>3. Eq(flatten)
    <3> HIDE DEF Eq
    <3> QED  BY <2>2
  <2>4. \A k \in 0 .. n : k \in {j \in 0 .. n : j = 0 \/ flatten[j] = g[j]}
    <3> DEFINE T2 == {j \in 0 .. n : j = 0 \/ flatten[j] = g[j]}
    <3> HIDE DEF flatten
    <3>1. 0 \in T2
      BY <1>1
    <3>2. ASSUME NEW k \in 1 .. n, k - 1 \in T2  PROVE  k \in T2
      <4>1. flatten[k] = IF k = 1 THEN s[k] ELSE flatten[k - 1] \o s[k]
        BY <2>3
      <4>2. CASE k = 1
        BY <4>1, <4>2, <2>1
      <4>3. CASE k # 1
        <5>1. k - 1 # 0 /\ k \in 0 .. n
          BY <4>3
        <5>2. flatten[k - 1] = g[k - 1]
          BY <3>2, <5>1
        <5>3. flatten[k] = g[k]
          BY <1>1, <4>1, <4>3, <5>2
        <5> QED  BY <5>1, <5>3
      <4> QED  BY <4>2, <4>3
    <3> HIDE DEF T2
    <3>3. \A k \in 1 .. n : k - 1 \in T2 => k \in T2
      BY <3>2
    <3>4. \A k \in 0 .. n : k \in T2
      BY <1>1, <3>1, <3>3, UpTo, Zenon
    <3> QED  BY <3>4 DEF T2
  <2>5. FlattenSeq(s) = flatten[n]
    BY <1>0, <1>3 DEF FlattenSeq
  <2>6. flatten[n] = g[n] /\ g[n] \in Seq(T)
    <3> HIDE DEF flatten
    <3> QED  BY <1>1, <1>3, <2>4
  <2> QED  BY <1>0, <2>5, <2>6
<1> QED  BY <1>2, <1>3

LEMMA FlattenType ==
  ASSUME NEW T, NEW s \in Seq(Seq(T))
  PROVE  FlattenSeq(s) \in Seq(T)
BY HasConcats, FlattenIs

LEMMA FlattenEmpty == FlattenSeq(<<>>) = <<>>
BY DEF FlattenSeq

LEMMA FlattenAppend ==
  ASSUME NEW T, NEW s \in Seq(Seq(T)), NEW e \in Seq(T)
  PROVE  FlattenSeq(Append(s, e)) = FlattenSeq(s) \o e
<1>1. PICK g : Concats(T, s, g)
  BY HasConcats
<1>2. PICK n \in Nat : n = Len(s)
  OBVIOUS
<1>3. PICK t : t = Append(s, e)
  OBVIOUS
<1>4. /\ t \in Seq(Seq(T)) /\ Len(t) = n + 1 /\ t[n + 1] = e
      /\ \A k \in 1 .. n : t[k] = s[k]
  BY <1>2, <1>3, AppendProperties
<1>5. /\ g \in [0 .. n -> Seq(T)] /\ g[0] = <<>>
      /\ \A k \in 1 .. n : g[k] = g[k - 1] \o s[k]
  BY <1>1, <1>2 DEF Concats
<1>6. g[n] \in Seq(T) /\ g[n] \o e \in Seq(T)
  <2>1. g[n] \in Seq(T)
    BY <1>2, <1>5
  <2> QED  BY <2>1
<1> DEFINE h == [k \in 0 .. n + 1 |-> IF k <= n THEN g[k] ELSE g[n] \o e]
<1>7. Concats(T, t, h)
  <2>1. h \in [0 .. n + 1 -> Seq(T)]
    <3>1. ASSUME NEW k \in 0 .. n + 1  PROVE  h[k] \in Seq(T)
      <4>1. CASE k <= n
        <5>1. k \in 0 .. n
          BY <4>1
        <5> QED  BY <1>5, <4>1, <5>1
      <4>2. CASE ~ (k <= n)
        BY <1>6, <4>2
      <4> QED  BY <4>1, <4>2
    <3> QED  BY <3>1
  <2>2. h[0] = <<>>
    BY <1>2, <1>5
  <2>3. ASSUME NEW k \in 1 .. n + 1  PROVE  h[k] = h[k - 1] \o t[k]
    <3>1. k - 1 \in 0 .. n + 1 /\ h[k - 1] = g[k - 1]
      BY <1>2
    <3>2. CASE k <= n
      <4>1. k \in 1 .. n /\ h[k] = g[k]
        BY <3>2
      <4> HIDE DEF h
      <4> QED  BY <1>4, <1>5, <3>1, <4>1
    <3>3. CASE k = n + 1
      <4>1. h[k] = g[n] \o e
        BY <1>2, <3>3
      <4>2. k - 1 = n
        BY <1>2, <3>3
      <4> HIDE DEF h
      <4> QED  BY <1>4, <3>1, <3>3, <4>1, <4>2
    <3>4. k <= n \/ k = n + 1
      BY <1>2
    <3> QED  BY <3>2, <3>3, <3>4
  <2> HIDE DEF h
  <2> QED  BY <1>4, <2>1, <2>2, <2>3 DEF Concats
<1>8. FlattenSeq(t) = h[n + 1]
  <2> HIDE DEF h
  <2> QED  BY <1>4, <1>7, FlattenIs
<1>9. h[n + 1] = g[n] \o e
  BY <1>2
<1> QED  BY <1>1, <1>2, <1>3, <1>8, <1>9, FlattenIs

\* The last element of a sequence is replaced.
LEMMA ReplaceLast ==
  ASSUME NEW A, NEW r \in Seq(A), NEW x \in A, NEW y \in A
  PROVE  /\ Len(Append(r, x)) = Len(r) + 1 /\ Append(r, x)[Len(r) + 1] = x
         /\ [Append(r, x) EXCEPT ![Len(Append(r, x))] = y] = Append(r, y)
<1>1. PICK n \in Nat : n = Len(r)
  OBVIOUS
<1>2. PICK s, t, u : /\ s = Append(r, x) /\ u = Append(r, y)
                     /\ t = [s EXCEPT ![n + 1] = y]
  OBVIOUS
<1>3. /\ s \in Seq(A) /\ Len(s) = n + 1 /\ s[n + 1] = x
      /\ \A j \in 1 .. n : s[j] = r[j]
  BY <1>1, <1>2, AppendProperties
<1>4. /\ u \in Seq(A) /\ Len(u) = n + 1 /\ u[n + 1] = y
      /\ \A j \in 1 .. n : u[j] = r[j]
  BY <1>1, <1>2, AppendProperties
<1>5. n + 1 \in 1 .. Len(s)
  BY <1>1, <1>3
<1>6. /\ t \in Seq(A) /\ Len(t) = n + 1
      /\ \A j \in 1 .. n + 1 : t[j] = IF j = n + 1 THEN y ELSE s[j]
  <2>1. \A i \in 1 .. Len(s) :
          /\ [s EXCEPT ![i] = y] \in Seq(A)
          /\ Len([s EXCEPT ![i] = y]) = Len(s)
          /\ \A j \in 1 .. Len(s) :
               [s EXCEPT ![i] = y][j] = IF j = i THEN y ELSE s[j]
    BY <1>3, ExceptSeq
  <2> QED  BY <1>2, <1>3, <1>5, <2>1
<1>7. ASSUME NEW j \in 1 .. n + 1  PROVE  t[j] = u[j]
  <2>1. j = n + 1 \/ (j \in 1 .. n /\ j # n + 1)
    BY <1>1
  <2> QED  BY <1>3, <1>4, <1>6, <2>1
<1>8. t = u
  BY <1>4, <1>6, <1>7, SeqEqual
<1> QED  BY <1>1, <1>2, <1>3, <1>8

-----------------------------------------------------------------------------
(* Nth and Kept *)

\* How many elements of S there are up to k.
Rank(S, k) == Cardinality({j \in S : j <= k})

LEMMA RankFinite ==
  ASSUME NEW n \in Nat, NEW S, S \subseteq 0 .. n, NEW k \in Nat
  PROVE  IsFiniteSet({j \in S : j <= k}) /\ Rank(S, k) \in Nat
<1>1. {j \in S : j <= k} \subseteq 0 .. n
  OBVIOUS
<1>2. IsFiniteSet(0 .. n)
  BY FS_Interval
<1>3. IsFiniteSet({j \in S : j <= k})
  BY <1>1, <1>2, FS_Subset
<1> QED  BY <1>3, FS_CardinalityType DEF Rank

LEMMA RankStep ==
  ASSUME NEW n \in Nat, NEW S, S \subseteq 0 .. n, NEW k \in Nat
  PROVE  Rank(S, k + 1) = IF k + 1 \in S THEN Rank(S, k) + 1 ELSE Rank(S, k)
<1>1. IsFiniteSet({j \in S : j <= k})
  BY RankFinite
<1>t. \A j \in S : j \in Nat /\ (j <= k + 1 <=> j <= k \/ j = k + 1)
  <2>1. \A j \in S : j \in 0 .. n
    OBVIOUS
  <2> QED  BY <2>1
<1>2. CASE k + 1 \in S
  <2>1. {j \in S : j <= k + 1} = {j \in S : j <= k} \union {k + 1}
    BY <1>2, <1>t
  <2>2. k + 1 \notin {j \in S : j <= k}
    OBVIOUS
  <2>3. Cardinality({j \in S : j <= k} \union {k + 1})
          = Cardinality({j \in S : j <= k}) + 1
    BY <1>1, <2>2, FS_AddElement
  <2> QED  BY <1>2, <2>1, <2>3 DEF Rank
<1>3. CASE k + 1 \notin S
  <2>1. {j \in S : j <= k + 1} = {j \in S : j <= k}
    BY <1>3, <1>t
  <2> QED  BY <1>3, <2>1 DEF Rank
<1> QED  BY <1>2, <1>3

LEMMA RankGrows ==
  ASSUME NEW n \in Nat, NEW S, S \subseteq 0 .. n, NEW j \in Nat, NEW k \in S, j < k
  PROVE  Rank(S, j) < Rank(S, k)
<1>1. k \in Nat /\ k - 1 \in Nat /\ (k - 1) + 1 = k
  OBVIOUS
<1>2. Rank(S, k) = Rank(S, k - 1) + 1
  <2>1. PICK m \in Nat : m = k - 1 /\ m + 1 = k
    BY <1>1
  <2>2. Rank(S, m + 1) = IF m + 1 \in S THEN Rank(S, m) + 1 ELSE Rank(S, m)
    BY <2>1, RankStep
  <2> QED  BY <2>1, <2>2
<1>3. {i \in S : i <= j} \subseteq {i \in S : i <= k - 1}
  <2>1. \A i \in S : i \in 0 .. n
    OBVIOUS
  <2>2. \A i \in S : i <= j => i <= k - 1
    BY <1>1, <2>1
  <2> QED  BY <2>2
<1>4. IsFiniteSet({i \in S : i <= k - 1})
  BY <1>1, RankFinite
<1>5. Rank(S, j) <= Rank(S, k - 1)
  BY <1>3, <1>4, FS_Subset DEF Rank
<1>6. Rank(S, j) \in Nat /\ Rank(S, k - 1) \in Nat
  BY <1>1, RankFinite
<1> QED  BY <1>2, <1>5, <1>6

\* The element of rank i is the i-th.
LEMMA NthIs ==
  ASSUME NEW n \in Nat, NEW S, S \subseteq 0 .. n, NEW k \in S
  PROVE  Nth(S, Rank(S, k)) = k
<1>1. ASSUME NEW j \in S, Rank(S, j) = Rank(S, k)  PROVE  j = k
  <2>1. j \in Nat /\ k \in Nat
    OBVIOUS
  <2>2. Rank(S, j) \in Nat /\ Rank(S, k) \in Nat
    BY <2>1, RankFinite
  <2>3. j < k => Rank(S, j) < Rank(S, k)
    BY <2>1, RankGrows
  <2>4. k < j => Rank(S, k) < Rank(S, j)
    BY <2>1, RankGrows
  <2>5. ~ (j < k) /\ ~ (k < j)
    BY <1>1, <2>2, <2>3, <2>4
  <2> QED  BY <2>1, <2>5
<1>2. Nth(S, Rank(S, k)) = CHOOSE j \in S : Rank(S, j) = Rank(S, k)
  BY DEF Nth, Rank
<1> QED  BY <1>1, <1>2

LEMMA NthThere ==
  ASSUME NEW n \in Nat, NEW S, S \subseteq 1 .. n, NEW i \in 1 .. Cardinality(S)
  PROVE  Nth(S, i) \in S /\ Rank(S, Nth(S, i)) = i
<1>t. \A j \in S : j \in 0 .. n /\ ~ (j <= 0) /\ j <= n
  <2>1. \A j \in S : j \in 1 .. n
    OBVIOUS
  <2> QED  BY <2>1
<1>1. S \subseteq 0 .. n
  BY <1>t
<1>2. Rank(S, 0) = 0
  <2>1. {j \in S : j <= 0} = {}
    BY <1>t
  <2> QED  BY <2>1, FS_EmptySet DEF Rank
<1>3. Rank(S, n) = Cardinality(S)
  <2>1. {j \in S : j <= n} = S
    BY <1>t
  <2> QED  BY <2>1 DEF Rank
<1>4. {k \in Nat : i <= Rank(S, k)} \subseteq Nat /\ n \in {k \in Nat : i <= Rank(S, k)}
  BY <1>3
<1>5. PICK k \in {k \in Nat : i <= Rank(S, k)} :
        \A j \in {j \in Nat : i <= Rank(S, j)} : k <= j
  BY <1>4, Least
<1>6. k # 0
  BY <1>2, <1>5
<1>7. PICK j \in Nat : k = j + 1
  BY <1>5, <1>6
<1>8. ~ (i <= Rank(S, j)) /\ i <= Rank(S, k)
  BY <1>5, <1>7
<1>9. Rank(S, j) \in Nat /\ Rank(S, k) \in Nat
  BY <1>1, <1>5, <1>7, RankFinite
<1>10. Rank(S, k) = IF k \in S THEN Rank(S, j) + 1 ELSE Rank(S, j)
  BY <1>1, <1>7, RankStep
<1>11. k \in S /\ Rank(S, k) = i
  BY <1>8, <1>9, <1>10
<1> QED  BY <1>1, <1>11, NthIs

LEMMA KeptElements ==
  ASSUME NEW n \in Nat, NEW S, S \subseteq 1 .. n, NEW s
  PROVE  /\ Cardinality(S) \in Nat
         /\ DOMAIN Kept(s, S) = 1 .. Cardinality(S)
         /\ Len(Kept(s, S)) = Cardinality(S)
         /\ \A i \in 1 .. Cardinality(S) : /\ Nth(S, i) \in S
                                           /\ Rank(S, Nth(S, i)) = i
                                           /\ Kept(s, S)[i] = s[Nth(S, i)]
<1>1. Cardinality(S) \in Nat
  <2>1. IsFiniteSet(1 .. n)
    BY FS_Interval
  <2>2. IsFiniteSet(S)
    BY <2>1, FS_Subset
  <2> QED  BY <2>2, FS_CardinalityType
<1>2. \A i \in 1 .. Cardinality(S) : Nth(S, i) \in S /\ Rank(S, Nth(S, i)) = i
  BY NthThere
<1> QED  BY <1>1, <1>2 DEF Kept

LEMMA KeptType ==
  ASSUME NEW A, NEW s \in Seq(A), NEW S, S \subseteq 1 .. Len(s)
  PROVE  Kept(s, S) \in Seq(A)
<1>1. PICK n \in Nat : n = Len(s)
  OBVIOUS
<1>2. /\ Cardinality(S) \in Nat
      /\ \A i \in 1 .. Cardinality(S) : Nth(S, i) \in S
  BY <1>1, KeptElements
<1>3. \A i \in 1 .. Cardinality(S) : s[Nth(S, i)] \in A
  <2>1. \A k \in S : k \in 1 .. Len(s)
    OBVIOUS
  <2>2. \A k \in S : s[k] \in A
    BY <2>1, ElementOfSeq
  <2> QED  BY <1>2, <2>2
<1> QED  BY <1>2, <1>3 DEF Kept

\* Empty elements may go.
LEMMA FlattenKept ==
  ASSUME NEW T, NEW s \in Seq(Seq(T)), NEW S, S \subseteq 1 .. Len(s),
         \A i \in 1 .. Len(s) : i \notin S => s[i] = <<>>
  PROVE  FlattenSeq(Kept(s, S)) = FlattenSeq(s)
<1>1. PICK n \in Nat : n = Len(s)
  OBVIOUS
<1>2. PICK t : t = Kept(s, S)
  OBVIOUS
<1>3. t \in Seq(Seq(T))
  BY <1>2, KeptType
<1>4. PICK g, h : Concats(T, s, g) /\ Concats(T, t, h)
  BY <1>3, HasConcats
<1>5. PICK m \in Nat : /\ m = Cardinality(S) /\ Len(t) = m
                       /\ \A i \in 1 .. m : t[i] = s[Nth(S, i)]
  <2>1. S \subseteq 1 .. n
    BY <1>1
  <2>2. /\ Cardinality(S) \in Nat /\ Len(Kept(s, S)) = Cardinality(S)
        /\ \A i \in 1 .. Cardinality(S) : Kept(s, S)[i] = s[Nth(S, i)]
    BY <1>1, <2>1, KeptElements
  <2> QED  BY <1>2, <2>2
<1>6. /\ g \in [0 .. n -> Seq(T)] /\ g[0] = <<>>
      /\ \A k \in 1 .. n : g[k] = g[k - 1] \o s[k]
  BY <1>1, <1>4 DEF Concats
<1>7. /\ h \in [0 .. m -> Seq(T)] /\ h[0] = <<>>
      /\ \A k \in 1 .. m : h[k] = h[k - 1] \o t[k]
  BY <1>4, <1>5 DEF Concats
<1>8. S \subseteq 0 .. n /\ ~ (0 \in S) /\ \A j \in S : j <= n /\ ~ (j <= 0)
  <2>1. \A j \in S : j \in 1 .. n
    BY <1>1
  <2> QED  BY <2>1
<1>9. Rank(S, n) = m
  <2>1. {j \in S : j <= n} = S
    BY <1>8
  <2> QED  BY <1>5, <2>1 DEF Rank
<1> DEFINE V == {k \in 0 .. n : Rank(S, k) \in 0 .. m /\ h[Rank(S, k)] = g[k]}
<1>10. 0 \in V
  <2>1. {j \in S : j <= 0} = {}
    BY <1>8
  <2>2. Rank(S, 0) = 0
    BY <2>1, FS_EmptySet DEF Rank
  <2> QED  BY <1>5, <1>6, <1>7, <2>2
<1>11. ASSUME NEW k \in 1 .. n, k - 1 \in V  PROVE  k \in V
  <2>1. PICK j \in Nat : j = k - 1 /\ k = j + 1 /\ k \in Nat
    OBVIOUS
  <2>2. Rank(S, k) = IF k \in S THEN Rank(S, j) + 1 ELSE Rank(S, j)
    <3>1. Rank(S, j + 1) = IF j + 1 \in S THEN Rank(S, j) + 1 ELSE Rank(S, j)
      BY <1>1, <1>8, <2>1, RankStep
    <3> QED  BY <2>1, <3>1
  <2>3. j \in 0 .. n /\ Rank(S, j) \in 0 .. m /\ h[Rank(S, j)] = g[j]
    BY <1>11, <2>1
  <2>4. g[k] = g[j] \o s[k] /\ g[j] \in Seq(T) /\ k \in 0 .. n
    <3>1. g[k] = g[k - 1] \o s[k]
      BY <1>6
    <3>3. k \in 0 .. n
      BY <1>1, <2>1
    <3>2. g[j] \in Seq(T)
      BY <1>6, <2>3
    <3> QED  BY <2>1, <3>1, <3>2, <3>3
  <2>5. CASE k \in S
    <3>1. PICK r \in 0 .. m : r = Rank(S, j)
      BY <2>3
    <3>2. Rank(S, k) = r + 1
      BY <2>2, <2>5, <3>1
    <3>3. Rank(S, k) <= m
      <4>1. {i \in S : i <= k} \subseteq S /\ IsFiniteSet(S)
        <5>1. IsFiniteSet(0 .. n)
          BY <1>1, FS_Interval
        <5> QED  BY <1>8, <5>1, FS_Subset
      <4> QED  BY <1>5, <4>1, FS_Subset DEF Rank
    <3>4. r + 1 \in 1 .. m
      BY <1>5, <3>1, <3>2, <3>3
    <3>5. Nth(S, r + 1) = k
      BY <1>8, <2>5, <3>2, NthIs
    <3>6. h[r + 1] = h[r] \o s[k]
      <4>1. h[r + 1] = h[(r + 1) - 1] \o t[r + 1]
        BY <1>7, <3>4
      <4>2. (r + 1) - 1 = r /\ t[r + 1] = s[k]
        BY <1>5, <3>1, <3>4, <3>5
      <4> QED  BY <4>1, <4>2
    <3>7. h[r + 1] = g[k]
      BY <2>3, <2>4, <3>1, <3>6
    <3>8. r + 1 \in 0 .. m
      BY <1>5, <3>1, <3>4
    <3> QED  BY <2>4, <3>2, <3>7, <3>8
  <2>6. CASE k \notin S
    <3>1. s[k] = <<>>
      BY <1>1, <2>6
    <3>2. g[k] = g[j]
      BY <2>4, <3>1, ConcatEmptySeq
    <3> QED  BY <2>2, <2>3, <2>4, <2>6, <3>2
  <2> QED  BY <2>5, <2>6
<1>12. n \in V
  <2> HIDE DEF V
  <2>1. \A k \in 1 .. n : k - 1 \in V => k \in V
    BY <1>11
  <2>2. \A k \in 0 .. n : k \in V
    BY <1>1, <1>10, <2>1, UpTo, Zenon
  <2> QED  BY <1>1, <2>2
<1>13. h[m] = g[n]
  BY <1>9, <1>12
<1> QED  BY <1>1, <1>2, <1>3, <1>4, <1>5, <1>13, FlattenIs

-----------------------------------------------------------------------------
(* The types *)

Vertex    == [v : Int, t : Int, n : Int]
MtlNames  == Names \union {Unnamed, Default}
Batch     == [mat : MtlNames, form : Forms \union {"unset"},
              faces : Seq(Seq(Vertex))]
Part      == Seq(Batch) \ {<<>>}
PartsSet  == Seq(Part) \ {<<>>}

TypeOK == /\ lines \in Seq(Lines)
          /\ parts \in PartsSet
          /\ curMtl \in Names \union {Default}
          /\ mtllib \in BOOLEAN

\* The subset the next face goes to.
Current(ps) == ps[Len(ps)][Len(ps[Len(ps)])]

LEMMA CountType ==
  ASSUME NEW f \in Faces
  PROVE  /\ Count(f) \in Nat /\ Count(f) <= Len(f.index)
         /\ Plain(f) => Count(f) = Len(f.index)
<1>1. f.index \in Seq(Int \ {0})
  BY ObjAssumption
<1>2. PICK n \in Nat : n = Len(f.index) /\ DOMAIN f.index = 1 .. n
  BY <1>1
<1>3. IsFiniteSet(1 .. n) /\ Cardinality(1 .. n) = n
  BY <1>2, FS_Interval
<1>4. PICK P : P = {i \in DOMAIN f.index : f.index[i] > 0}
  OBVIOUS
<1>5. P \subseteq 1 .. n /\ Count(f) = Cardinality(P)
  BY <1>2, <1>4 DEF Count
<1>6. IsFiniteSet(P) /\ Cardinality(P) <= n
  BY <1>3, <1>5, FS_Subset
<1>7. Cardinality(P) \in Nat
  BY <1>6, FS_CardinalityType
<1>8. ASSUME Plain(f)  PROVE  P = 1 .. n
  <2>1. \A i \in 1 .. n : f.index[i] > 0
    BY <1>2, <1>8, ObjAssumption DEF Plain
  <2> QED  BY <1>2, <1>4, <2>1
<1> QED  BY <1>2, <1>3, <1>5, <1>6, <1>7, <1>8

LEMMA ParsedType ==
  ASSUME NEW f \in Faces
  PROVE  ParsedFace(f) \in Seq(Vertex) /\ Len(ParsedFace(f)) = Count(f)
<1>1. PICK c \in Nat : c = Count(f) /\ c <= Len(f.index)
  BY CountType
<1>2. f.index \in Seq(Int \ {0})
  BY ObjAssumption
<1>3. ASSUME NEW i \in 1 .. c
      PROVE  [v |-> VertIndex(f.index[i]),
              t |-> IF HasUv(f.form) THEN UvIndex(f.index[i]) ELSE -1,
              n |-> IF HasNormal(f.form)
                      THEN NormalIndex(f.form, f.index[i]) ELSE -1] \in Vertex
  <2>1. PICK k \in Int : k = f.index[i]
    <3>1. i \in 1 .. Len(f.index)
      BY <1>1, <1>2
    <3> QED  BY <1>2, <3>1, ElementOfSeq
  <2>2. VertIndex(k) \in Int /\ UvIndex(k) \in Int /\ NormalIndex(f.form, k) \in Int
    BY <2>1 DEF VertIndex, UvIndex, NormalIndex
  <2> QED  BY <2>1, <2>2 DEF Vertex
<1> QED  BY <1>1, <1>3 DEF ParsedFace

LEMMA FacedType ==
  ASSUME NEW s \in Batch, NEW f \in Faces
  PROVE  /\ Faced(s, f) \in Batch
         /\ Faced(s, f).mat = s.mat
         /\ Faced(s, f).form = Inspected(f, s.form)
         /\ Faced(s, f).faces = Append(s.faces, ParsedFace(f))
<1>1. Inspected(f, s.form) \in Forms \union {"unset"}
  BY ObjAssumption DEF Inspected, Batch
<1>2. s.faces \in Seq(Seq(Vertex)) /\ Append(s.faces, ParsedFace(f)) \in Seq(Seq(Vertex))
  BY ParsedType DEF Batch
<1> QED  BY <1>1, <1>2 DEF Faced, Batch

LEMMA SubsetType ==
  ASSUME NEW m \in MtlNames
  PROVE  Subset(m) \in Batch /\ <<Subset(m)>> \in Part
BY DEF Subset, Batch, Part

LEMMA FirstParts == <<<<Subset(Unnamed)>>>> \in PartsSet
<1>1. PICK q \in Part : q = <<Subset(Unnamed)>>
  BY SubsetType DEF MtlNames
<1>2. <<q>> \in Seq(Part) /\ <<q>> # <<>>
  BY <1>1
<1> QED  BY <1>1, <1>2 DEF PartsSet

\* A part list is its parts but the last and, of the last part, the subsets
\* but the current one, and the current one.
LEMMA Split ==
  ASSUME NEW ps \in PartsSet
  PROVE  \E r \in Seq(Part), u \in Seq(Batch), s \in Batch :
           /\ Append(u, s) \in Part
           /\ ps = Append(r, Append(u, s))
<1>1. PICK r \in Seq(Part), q \in Part : ps = Append(r, q)
  BY SequenceEmptyOrAppend DEF PartsSet
<1>2. PICK u \in Seq(Batch), s \in Batch : q = Append(u, s)
  BY SequenceEmptyOrAppend DEF Part
<1> QED  BY <1>1, <1>2

\* What the actions do to a part list that is split.
LEMMA SplitSteps ==
  ASSUME NEW r \in Seq(Part), NEW u \in Seq(Batch), NEW s \in Batch,
         Append(u, s) \in Part, parts = Append(r, Append(u, s))
  PROVE  /\ Current(parts) = s
         /\ \A f \in Faces :
              ReadFace(f) => parts' = Append(r, Append(u, Faced(s, f)))
         /\ \A m \in MtlNames :
              AddSubset(m) => parts' = Append(r, Append(Append(u, s), Subset(m)))
<1>1. PICK q \in Part : q = Append(u, s)
  OBVIOUS
<1>2. Len(parts) = Len(r) + 1 /\ parts[Len(r) + 1] = q
  BY <1>1, ReplaceLast
<1>3. Len(q) = Len(u) + 1 /\ q[Len(u) + 1] = s
  BY <1>1, ReplaceLast
<1>4. Current(parts) = s
  BY <1>2, <1>3 DEF Current
<1>5. ASSUME NEW x \in Part  PROVE  [parts EXCEPT ![Len(parts)] = x] = Append(r, x)
  BY <1>1, ReplaceLast
<1>6. ASSUME NEW f \in Faces, ReadFace(f)
      PROVE  parts' = Append(r, Append(u, Faced(s, f)))
  <2>1. PICK t \in Batch : t = Faced(s, f)
    BY FacedType
  <2>2. parts' = [parts EXCEPT ![Len(parts)] = [q EXCEPT ![Len(q)] = t]]
    <3>1. PICK k, i : k = Len(parts) /\ i = Len(parts[k])
      OBVIOUS
    <3>2. k = LastPart /\ i = LastSubset /\ parts[k] = q /\ q[i] = s /\ i = Len(q)
      BY <1>2, <1>3, <3>1 DEF LastPart, LastSubset
    <3>4. parts' = [parts EXCEPT ![k][i] = Faced(parts[k][i], f)]
      BY <1>6, <3>2 DEF ReadFace
    <3>5. parts' = [parts EXCEPT ![k] = [parts[k] EXCEPT ![i] = t]]
      BY <2>1, <3>2, <3>4
    <3> QED  BY <3>1, <3>2, <3>5
  <2>3. [q EXCEPT ![Len(q)] = t] = Append(u, t)
    BY <1>1, <2>1, ReplaceLast
  <2>4. Append(u, t) \in Part
    BY <2>1, AppendProperties DEF Part
  <2> QED  BY <1>5, <2>1, <2>2, <2>3, <2>4
<1>7. ASSUME NEW m \in MtlNames, AddSubset(m)
      PROVE  parts' = Append(r, Append(q, Subset(m)))
  <2>1. PICK x : x = Append(q, Subset(m))
    OBVIOUS
  <2>2. parts' = [parts EXCEPT ![Len(parts)] = x]
    BY <1>2, <1>7, <2>1 DEF AddSubset, LastPart
  <2>3. x \in Part
    BY <1>1, <2>1, SubsetType, AppendProperties DEF Part
  <2> QED  BY <1>5, <2>1, <2>2, <2>3
<1> QED  BY <1>1, <1>4, <1>6, <1>7

LEMMA LineTypes ==
  ASSUME NEW l \in Lines
  PROVE  /\ l.kind \in {"f", "usemtl", "o", "g", "mtllib"}
         /\ l.kind = "f" => l.face \in Faces
         /\ l.kind = "usemtl" => l.name \in Names
BY DEF Lines, FaceLine, NameLine

\* THEOREM: a subset always has the name of a material, its flags are unset or
\* those of a face, and its faces are lists of vertices; there is always a part
\* and in it a subset for the next face.
THEOREM ObjTypes == Spec => []TypeOK
<1>1. ASSUME Init  PROVE  TypeOK
  <2>1. lines \in Seq(Lines) /\ curMtl \in Names \union {Default}
    BY <1>1 DEF Init
  <2>2. parts \in PartsSet /\ mtllib \in BOOLEAN
    BY <1>1, FirstParts, Zenon DEF Init
  <2> QED  BY <2>1, <2>2 DEF TypeOK
<1>2. ASSUME TypeOK, [Next]_vars  PROVE  TypeOK'
  <2>1. PICK r \in Seq(Part), u \in Seq(Batch), s \in Batch :
          Append(u, s) \in Part /\ parts = Append(r, Append(u, s))
    BY <1>2, Split DEF TypeOK
  <2>2. ASSUME NEW x \in Part  PROVE  Append(r, x) \in PartsSet
    BY <2>1, <2>2, AppendProperties DEF PartsSet
  <2>3. curMtl \in MtlNames /\ Names \subseteq MtlNames
    BY <1>2 DEF TypeOK, MtlNames
  <2>4. CASE UNCHANGED vars
    BY <1>2, <2>4 DEF TypeOK, vars
  <2>5. CASE NextImport
    <3>1. lines' \in Seq(Lines) /\ curMtl' \in Names \union {Default}
      BY <2>5 DEF NextImport
    <3>2. parts' \in PartsSet /\ mtllib' \in BOOLEAN
      BY <2>5, FirstParts, Zenon DEF NextImport
    <3> QED  BY <3>1, <3>2 DEF TypeOK
  <2>6. CASE ReadLine
    <3>1. PICK l \in Lines :
            /\ lines' = Append(lines, l)
            /\ \/ l.kind = "f" /\ ReadFace(l.face)
               \/ l.kind = "o" /\ ReadObject
               \/ l.kind = "g" /\ ReadGroup
               \/ l.kind = "usemtl" /\ ReadUseMtl(l.name)
               \/ l.kind = "mtllib" /\ ReadMtlLib
      BY <2>6 DEF ReadLine
    <3>2. lines' \in Seq(Lines)
      BY <1>2, <3>1, AppendProperties DEF TypeOK
    <3>3. CASE l.kind = "f" /\ ReadFace(l.face)
      <4>1. l.face \in Faces
        BY <3>3, LineTypes
      <4>2. parts' = Append(r, Append(u, Faced(s, l.face)))
        BY <2>1, <3>3, <4>1, SplitSteps
      <4>3. Append(u, Faced(s, l.face)) \in Part
        BY <2>1, <4>1, FacedType, AppendProperties DEF Part
      <4> QED  BY <1>2, <2>2, <3>2, <3>3, <4>2, <4>3 DEF TypeOK, ReadFace
    <3>4. ASSUME NEW m \in MtlNames, AddSubset(m)  PROVE  parts' \in PartsSet
      <4>1. parts' = Append(r, Append(Append(u, s), Subset(m)))
        BY <2>1, <3>4, SplitSteps
      <4>2. Append(Append(u, s), Subset(m)) \in Part
        BY <2>1, SubsetType, AppendProperties DEF Part
      <4> QED  BY <2>2, <4>1, <4>2
    <3>5. CASE l.kind = "o" /\ ReadObject
      <4>1. <<Subset(curMtl)>> \in Part
        BY <2>3, SubsetType
      <4>2. parts' \in PartsSet
        BY <1>2, <3>5, <4>1, AppendProperties DEF ReadObject, TypeOK, PartsSet
      <4> QED  BY <1>2, <3>2, <3>5, <4>2 DEF TypeOK, ReadObject
    <3>6. CASE l.kind = "g" /\ ReadGroup
      BY <1>2, <2>3, <3>2, <3>4, <3>6 DEF TypeOK, ReadGroup
    <3>7. CASE l.kind = "usemtl" /\ ReadUseMtl(l.name)
      <4>1. l.name \in Names
        BY <3>7, LineTypes
      <4> QED  BY <1>2, <2>3, <3>2, <3>4, <3>7, <4>1 DEF TypeOK, ReadUseMtl
    <3>8. CASE l.kind = "mtllib" /\ ReadMtlLib
      BY <1>2, <3>2, <3>8 DEF TypeOK, ReadMtlLib
    <3> QED  BY <3>1, <3>3, <3>5, <3>6, <3>7, <3>8
  <2> QED  BY <1>2, <2>4, <2>5, <2>6 DEF Next
<1> QED  BY <1>1, <1>2, PTL DEF Spec

-----------------------------------------------------------------------------
(* One line *)

\* What the line l makes of the parts ps and of sCurMtl.
Reads(ps, cur, l, ps2, cur2) ==
  \E r \in Seq(Part), u \in Seq(Batch), s \in Batch :
    /\ Append(u, s) \in Part
    /\ ps = Append(r, Append(u, s))
    /\ \/ /\ l.kind = "f" /\ cur2 = cur
          /\ ps2 = Append(r, Append(u, Faced(s, l.face)))
       \/ /\ l.kind = "o" /\ cur2 = cur
          /\ ps2 = Append(ps, <<Subset(cur)>>)
       \/ /\ \/ l.kind = "g" /\ cur2 = cur
             \/ l.kind = "usemtl" /\ cur2 = l.name
          /\ ps2 = Append(r, Append(Append(u, s), Subset(cur2)))
       \/ l.kind = "mtllib" /\ cur2 = cur /\ ps2 = ps

LEMMA ReadLineReads ==
  ASSUME TypeOK, ReadLine
  PROVE  \E l \in Lines : /\ lines' = Append(lines, l)
                          /\ Reads(parts, curMtl, l, parts', curMtl')
                          /\ mtllib' = (mtllib \/ l.kind = "mtllib")
<1>1. PICK r \in Seq(Part), u \in Seq(Batch), s \in Batch :
        Append(u, s) \in Part /\ parts = Append(r, Append(u, s))
  BY Split DEF TypeOK
<1>2. curMtl \in MtlNames /\ mtllib \in BOOLEAN
  BY DEF TypeOK, MtlNames
<1>3. PICK l \in Lines :
        /\ lines' = Append(lines, l)
        /\ \/ l.kind = "f" /\ ReadFace(l.face)
           \/ l.kind = "o" /\ ReadObject
           \/ l.kind = "g" /\ ReadGroup
           \/ l.kind = "usemtl" /\ ReadUseMtl(l.name)
           \/ l.kind = "mtllib" /\ ReadMtlLib
  BY DEF ReadLine
<1>4. CASE l.kind = "f" /\ ReadFace(l.face)
  <2>1. parts' = Append(r, Append(u, Faced(s, l.face)))
    BY <1>1, <1>3, <1>4, LineTypes, SplitSteps
  <2>2. curMtl' = curMtl /\ mtllib' = mtllib
    BY <1>4 DEF ReadFace
  <2>3. Reads(parts, curMtl, l, parts', curMtl')
    BY <1>1, <1>4, <2>1, <2>2 DEF Reads
  <2> QED  BY <1>2, <1>3, <1>4, <2>2, <2>3
<1>5. CASE l.kind = "o" /\ ReadObject
  <2>1. /\ parts' = Append(parts, <<Subset(curMtl)>>)
        /\ curMtl' = curMtl /\ mtllib' = mtllib
    BY <1>5 DEF ReadObject
  <2>2. Reads(parts, curMtl, l, parts', curMtl')
    BY <1>1, <1>5, <2>1 DEF Reads
  <2> QED  BY <1>2, <1>3, <1>5, <2>1, <2>2
<1>6. CASE l.kind = "g" /\ ReadGroup
  <2>1. AddSubset(curMtl) /\ curMtl' = curMtl /\ mtllib' = mtllib
    BY <1>6 DEF ReadGroup
  <2>2. parts' = Append(r, Append(Append(u, s), Subset(curMtl)))
    BY <1>1, <1>2, <2>1, SplitSteps
  <2>3. Reads(parts, curMtl, l, parts', curMtl')
    BY <1>1, <1>6, <2>1, <2>2 DEF Reads
  <2> QED  BY <1>2, <1>3, <1>6, <2>1, <2>3
<1>7. CASE l.kind = "usemtl" /\ ReadUseMtl(l.name)
  <2>1. AddSubset(l.name) /\ curMtl' = l.name /\ mtllib' = mtllib
    BY <1>7 DEF ReadUseMtl
  <2>2. l.name \in MtlNames
    BY <1>3, <1>7, LineTypes DEF MtlNames
  <2>3. parts' = Append(r, Append(Append(u, s), Subset(l.name)))
    BY <1>1, <2>1, <2>2, SplitSteps
  <2>4. Reads(parts, curMtl, l, parts', curMtl')
    BY <1>1, <1>7, <2>1, <2>3 DEF Reads
  <2> QED  BY <1>2, <1>3, <1>7, <2>1, <2>4
<1>8. CASE l.kind = "mtllib" /\ ReadMtlLib
  <2>1. parts' = parts /\ curMtl' = curMtl
    BY <1>8 DEF ReadMtlLib
  <2>2. mtllib' = TRUE
    BY <1>8 DEF ReadMtlLib
  <2>3. Reads(parts, curMtl, l, parts', curMtl')
    BY <1>1, <1>8, <2>1 DEF Reads
  <2> QED  BY <1>3, <1>8, <2>2, <2>3
<1> QED  BY <1>3, <1>4, <1>5, <1>6, <1>7, <1>8

\* The i-th subset of part p is there.
There(ps, p, i) == p \in DOMAIN ps /\ i \in DOMAIN ps[p]

LEMMA ThereInSplit ==
  ASSUME NEW r \in Seq(Part), NEW q \in Part
  PROVE  /\ Append(r, q) \in PartsSet /\ Len(Append(r, q)) = Len(r) + 1
         /\ Append(r, q)[Len(r) + 1] = q
         /\ \A p, i \in Nat :
              /\ There(Append(r, q), p, i) <=>
                   (There(r, p, i) \/ (p = Len(r) + 1 /\ i \in DOMAIN q))
              /\ There(r, p, i) => Append(r, q)[p][i] = r[p][i]
              /\ p = Len(r) + 1 => Append(r, q)[p][i] = q[i]
<1>1. PICK n \in Nat : n = Len(r) /\ DOMAIN r = 1 .. n
  OBVIOUS
<1>2. PICK t : t = Append(r, q)
  OBVIOUS
<1>3. /\ t \in Seq(Part) /\ t # <<>> /\ Len(t) = n + 1 /\ t[n + 1] = q
      /\ \A k \in 1 .. n : t[k] = r[k]
  BY <1>1, <1>2, AppendProperties
<1>4. DOMAIN t = 1 .. n + 1
  BY <1>3, LenProperties
<1>5. \A p \in Nat : p \in DOMAIN t <=> (p \in 1 .. n \/ p = n + 1)
  BY <1>1, <1>4
<1>6. \A p \in Nat : p = n + 1 => ~ (p \in 1 .. n)
  BY <1>1
<1>7. \A p, i \in Nat :
        /\ There(t, p, i) <=>
             (There(r, p, i) \/ (p = n + 1 /\ i \in DOMAIN q))
        /\ There(r, p, i) => t[p][i] = r[p][i]
        /\ p = n + 1 => t[p][i] = q[i]
  BY <1>1, <1>3, <1>5, <1>6 DEF There
<1> QED  BY <1>1, <1>2, <1>3, <1>7 DEF PartsSet

LEMMA InSubsets ==
  ASSUME NEW u \in Seq(Batch), NEW s \in Batch
  PROVE  /\ Append(u, s) \in Part /\ Len(Append(u, s)) = Len(u) + 1
         /\ Append(u, s)[Len(u) + 1] = s
         /\ \A i \in Nat :
              /\ i \in DOMAIN Append(u, s) <=> (i \in DOMAIN u \/ i = Len(u) + 1)
              /\ i \in DOMAIN u => Append(u, s)[i] = u[i]
<1>1. PICK n \in Nat : n = Len(u) /\ DOMAIN u = 1 .. n
  OBVIOUS
<1>2. PICK t : t = Append(u, s)
  OBVIOUS
<1>3. /\ t \in Seq(Batch) /\ t # <<>> /\ Len(t) = n + 1 /\ t[n + 1] = s
      /\ \A k \in 1 .. n : t[k] = u[k]
  BY <1>1, <1>2, AppendProperties
<1>4. DOMAIN t = 1 .. n + 1
  BY <1>3, LenProperties
<1>5. \A i \in Nat : i \in DOMAIN t <=> (i \in 1 .. n \/ i = n + 1)
  BY <1>1, <1>4
<1> QED  BY <1>1, <1>2, <1>3, <1>5 DEF Part

\* The current subset is the last of the last part.
LEMMA CurrentThere ==
  ASSUME NEW ps \in PartsSet
  PROVE  /\ There(ps, Len(ps), Len(ps[Len(ps)]))
         /\ ps[Len(ps)][Len(ps[Len(ps)])] = Current(ps)
         /\ Current(ps) \in Batch
<1>1. PICK r \in Seq(Part), u \in Seq(Batch), s \in Batch :
        Append(u, s) \in Part /\ ps = Append(r, Append(u, s))
  BY Split
<1>2. PICK q \in Part : q = Append(u, s)
  BY <1>1
<1>3. /\ Len(ps) = Len(r) + 1 /\ ps[Len(r) + 1] = q
      /\ Len(q) = Len(u) + 1 /\ q[Len(u) + 1] = s
  BY <1>1, <1>2, ReplaceLast
<1>4. Len(u) + 1 \in DOMAIN q
  BY <1>1, <1>2, InSubsets
<1>5. Len(r) + 1 \in DOMAIN ps
  <2>1. Len(r) \in Nat /\ ps \in Seq(Part)
    BY <1>1 DEF PartsSet
  <2> QED  BY <1>3, <2>1
<1> QED  BY <1>1, <1>3, <1>4, <1>5 DEF There, Current

\* A line leaves every subset alone but the current one, and may add one.
LEMMA ReadsPlaces ==
  ASSUME NEW ps \in PartsSet, NEW cur \in MtlNames, NEW l \in Lines,
         NEW ps2, NEW cur2, Reads(ps, cur, l, ps2, cur2)
  PROVE  /\ ps2 \in PartsSet
         /\ Len(ps2) = IF l.kind = "o" THEN Len(ps) + 1 ELSE Len(ps)
         /\ Current(ps2) = CASE l.kind = "f" -> Faced(Current(ps), l.face)
                             [] l.kind = "mtllib" -> Current(ps)
                             [] OTHER -> Subset(cur2)
         /\ cur2 = IF l.kind = "usemtl" THEN l.name ELSE cur
         /\ \A p, i \in Nat : There(ps2, p, i) =>
              \/ There(ps, p, i) /\ ps2[p][i] = ps[p][i]
              \/ p = Len(ps2) /\ ps2[p][i] = Current(ps2)
         /\ \A p, i \in Nat : There(ps, p, i) =>
              /\ There(ps2, p, i)
              /\ \/ ps2[p][i] = ps[p][i]
                 \/ l.kind = "f" /\ p = Len(ps2) /\ ps2[p][i] = Current(ps2)
<1>1. PICK r \in Seq(Part), u \in Seq(Batch), s \in Batch :
        /\ Append(u, s) \in Part
        /\ ps = Append(r, Append(u, s))
        /\ \/ /\ l.kind = "f" /\ cur2 = cur
              /\ ps2 = Append(r, Append(u, Faced(s, l.face)))
           \/ /\ l.kind = "o" /\ cur2 = cur
              /\ ps2 = Append(ps, <<Subset(cur)>>)
           \/ /\ \/ l.kind = "g" /\ cur2 = cur
                 \/ l.kind = "usemtl" /\ cur2 = l.name
              /\ ps2 = Append(r, Append(Append(u, s), Subset(cur2)))
           \/ l.kind = "mtllib" /\ cur2 = cur /\ ps2 = ps
  BY DEF Reads
<1>2. PICK q \in Part : q = Append(u, s)
  BY <1>1
<1>3. /\ ps = Append(r, q) /\ Len(ps) = Len(r) + 1 /\ ps[Len(r) + 1] = q
      /\ Len(q) = Len(u) + 1 /\ q[Len(u) + 1] = s
  BY <1>1, <1>2, ReplaceLast
<1>4. Current(ps) = s
  BY <1>3 DEF Current
<1>5. \A p, i \in Nat :
        /\ There(ps, p, i) <=>
             (There(r, p, i) \/ (p = Len(r) + 1 /\ i \in DOMAIN q))
        /\ There(r, p, i) => ps[p][i] = r[p][i]
        /\ p = Len(r) + 1 => ps[p][i] = q[i]
  <2>1. \A p, i \in Nat :
          /\ There(Append(r, q), p, i) <=>
               (There(r, p, i) \/ (p = Len(r) + 1 /\ i \in DOMAIN q))
          /\ There(r, p, i) => Append(r, q)[p][i] = r[p][i]
          /\ p = Len(r) + 1 => Append(r, q)[p][i] = q[i]
    BY <1>1, <1>2, ThereInSplit
  <2> QED  BY <1>3, <2>1
<1>6. \A i \in Nat :
        /\ i \in DOMAIN q <=> (i \in DOMAIN u \/ i = Len(u) + 1)
        /\ i \in DOMAIN u => q[i] = u[i]
  BY <1>2, InSubsets
<1>7. CASE l.kind = "f" /\ cur2 = cur
             /\ ps2 = Append(r, Append(u, Faced(s, l.face)))
  <2>1. PICK t \in Batch : t = Faced(s, l.face)
    BY <1>7, LineTypes, FacedType
  <2>2. PICK x \in Part : x = Append(u, t)
    BY <2>1, InSubsets
  <2>3. /\ ps2 \in PartsSet /\ Len(ps2) = Len(r) + 1 /\ ps2[Len(r) + 1] = x
        /\ Len(x) = Len(u) + 1 /\ x[Len(u) + 1] = t
    BY <1>1, <1>7, <2>1, <2>2, ThereInSplit, InSubsets
  <2>4. Current(ps2) = t
    BY <2>3 DEF Current
  <2>5. \A p, i \in Nat :
          /\ There(ps2, p, i) <=>
               (There(r, p, i) \/ (p = Len(r) + 1 /\ i \in DOMAIN x))
          /\ There(r, p, i) => ps2[p][i] = r[p][i]
          /\ p = Len(r) + 1 => ps2[p][i] = x[i]
    <3>1. \A p, i \in Nat :
            /\ There(Append(r, x), p, i) <=>
                 (There(r, p, i) \/ (p = Len(r) + 1 /\ i \in DOMAIN x))
            /\ There(r, p, i) => Append(r, x)[p][i] = r[p][i]
            /\ p = Len(r) + 1 => Append(r, x)[p][i] = x[i]
      BY <1>1, <2>2, ThereInSplit
    <3> QED  BY <1>7, <2>1, <2>2, <3>1
  <2>6. \A i \in Nat :
        /\ i \in DOMAIN x <=> (i \in DOMAIN u \/ i = Len(u) + 1)
        /\ i \in DOMAIN u => x[i] = u[i]
    BY <2>2, InSubsets
  <2>7. ASSUME NEW p \in Nat, NEW i \in Nat, There(ps2, p, i)
        PROVE  \/ There(ps, p, i) /\ ps2[p][i] = ps[p][i]
               \/ p = Len(ps2) /\ ps2[p][i] = Current(ps2)
    <3>1. CASE There(r, p, i)
      BY <1>5, <2>5, <3>1
    <3>2. CASE p = Len(r) + 1 /\ i \in DOMAIN u
      BY <1>5, <1>6, <2>5, <2>6, <3>2
    <3>3. CASE p = Len(r) + 1 /\ i = Len(u) + 1
      BY <2>3, <2>4, <3>3
    <3> QED  BY <2>5, <2>6, <2>7, <3>1, <3>2, <3>3
  <2>8. ASSUME NEW p \in Nat, NEW i \in Nat, There(ps, p, i)
        PROVE  /\ There(ps2, p, i)
               /\ \/ ps2[p][i] = ps[p][i]
                  \/ l.kind = "f" /\ p = Len(ps2) /\ ps2[p][i] = Current(ps2)
    <3>1. CASE There(r, p, i)
      BY <1>5, <2>5, <3>1
    <3>2. CASE p = Len(r) + 1 /\ i \in DOMAIN u
      BY <1>5, <1>6, <2>5, <2>6, <3>2
    <3>3. CASE p = Len(r) + 1 /\ i = Len(u) + 1
      BY <1>7, <2>3, <2>4, <2>5, <2>6, <3>3
    <3> QED  BY <1>5, <1>6, <2>8, <3>1, <3>2, <3>3
  <2> QED  BY <1>3, <1>4, <1>7, <2>1, <2>3, <2>4, <2>7, <2>8
<1>8. CASE l.kind = "o" /\ cur2 = cur /\ ps2 = Append(ps, <<Subset(cur)>>)
  <2>1. PICK x \in Part : x = <<Subset(cur)>>
    BY SubsetType
  <2>2. Len(x) = 1 /\ x[1] = Subset(cur) /\ \A i \in DOMAIN x : x[i] = Subset(cur)
    BY <2>1
  <2>3. ps \in Seq(Part)
    BY DEF PartsSet
  <2>4. ps2 \in PartsSet /\ Len(ps2) = Len(ps) + 1 /\ ps2[Len(ps) + 1] = x
    BY <1>8, <2>1, <2>3, ThereInSplit
  <2>5. Current(ps2) = Subset(cur)
    BY <2>2, <2>4 DEF Current
  <2>6. \A p, i \in Nat :
          /\ There(ps2, p, i) <=>
               (There(ps, p, i) \/ (p = Len(ps) + 1 /\ i \in DOMAIN x))
          /\ There(ps, p, i) => ps2[p][i] = ps[p][i]
          /\ p = Len(ps) + 1 => ps2[p][i] = x[i]
    <3>1. \A p, i \in Nat :
            /\ There(Append(ps, x), p, i) <=>
                 (There(ps, p, i) \/ (p = Len(ps) + 1 /\ i \in DOMAIN x))
            /\ There(ps, p, i) => Append(ps, x)[p][i] = ps[p][i]
            /\ p = Len(ps) + 1 => Append(ps, x)[p][i] = x[i]
      BY <2>1, <2>3, ThereInSplit
    <3> QED  BY <1>8, <2>1, <3>1
  <2> QED  BY ZenonT(40), <1>8, <2>2, <2>4, <2>5, <2>6
<1>9. CASE /\ \/ l.kind = "g" /\ cur2 = cur
              \/ l.kind = "usemtl" /\ cur2 = l.name
           /\ ps2 = Append(r, Append(Append(u, s), Subset(cur2)))
  <2>1. cur2 \in MtlNames
    BY <1>9, LineTypes DEF MtlNames
  <2>2. PICK t \in Batch : t = Subset(cur2)
    BY <2>1, SubsetType
  <2>3. PICK x \in Part : x = Append(q, t)
    BY <2>2, InSubsets DEF Part
  <2>4. /\ ps2 \in PartsSet /\ Len(ps2) = Len(r) + 1 /\ ps2[Len(r) + 1] = x
        /\ Len(x) = Len(q) + 1 /\ x[Len(q) + 1] = t
    <3>1. Len(x) = Len(q) + 1 /\ x[Len(q) + 1] = t
      BY <1>2, <2>2, <2>3, InSubsets DEF Part
    <3> QED  BY <1>1, <1>2, <1>9, <2>2, <2>3, <3>1, ThereInSplit
  <2>5. Current(ps2) = t
    BY <2>4 DEF Current
  <2>6. \A p, i \in Nat :
          /\ There(ps2, p, i) <=>
               (There(r, p, i) \/ (p = Len(r) + 1 /\ i \in DOMAIN x))
          /\ There(r, p, i) => ps2[p][i] = r[p][i]
          /\ p = Len(r) + 1 => ps2[p][i] = x[i]
    <3>1. \A p, i \in Nat :
            /\ There(Append(r, x), p, i) <=>
                 (There(r, p, i) \/ (p = Len(r) + 1 /\ i \in DOMAIN x))
            /\ There(r, p, i) => Append(r, x)[p][i] = r[p][i]
            /\ p = Len(r) + 1 => Append(r, x)[p][i] = x[i]
      BY <1>1, <2>3, ThereInSplit
    <3> QED  BY <1>2, <1>9, <2>2, <2>3, <3>1
  <2>7. \A i \in Nat :
        /\ i \in DOMAIN x <=> (i \in DOMAIN q \/ i = Len(q) + 1)
        /\ i \in DOMAIN q => x[i] = q[i]
    BY <1>2, <2>2, <2>3, InSubsets DEF Part
  <2>8. ASSUME NEW p \in Nat, NEW i \in Nat, There(ps2, p, i)
        PROVE  \/ There(ps, p, i) /\ ps2[p][i] = ps[p][i]
               \/ p = Len(ps2) /\ ps2[p][i] = Current(ps2)
    <3>1. CASE There(r, p, i)
      BY <1>5, <2>6, <3>1
    <3>2. CASE p = Len(r) + 1 /\ i \in DOMAIN q
      BY <1>5, <2>6, <2>7, <3>2
    <3>3. CASE p = Len(r) + 1 /\ i = Len(q) + 1
      BY <2>4, <2>5, <3>3
    <3> QED  BY <2>6, <2>7, <2>8, <3>1, <3>2, <3>3
  <2>9. ASSUME NEW p \in Nat, NEW i \in Nat, There(ps, p, i)
        PROVE  There(ps2, p, i) /\ ps2[p][i] = ps[p][i]
    <3>1. CASE There(r, p, i)
      BY <1>5, <2>6, <3>1
    <3>2. CASE p = Len(r) + 1 /\ i \in DOMAIN q
      BY <1>5, <2>6, <2>7, <3>2
    <3> QED  BY <1>5, <2>9, <3>1, <3>2
  <2> QED  BY <1>3, <1>9, <2>2, <2>4, <2>5, <2>8, <2>9
<1>10. CASE l.kind = "mtllib" /\ cur2 = cur /\ ps2 = ps
  BY <1>10
<1> QED  BY <1>1, <1>7, <1>8, <1>9, <1>10

-----------------------------------------------------------------------------
(* What the lines of a file mean, of any file *)

FaceLinesIn(ls) == {k \in DOMAIN ls : ls[k].kind = "f"}
UsesIn(ls, k)   == {j \in 1 .. k : ls[j].kind = "usemtl"}
Latest(uses)    == CHOOSE j \in uses : \A i \in uses : i <= j
MaterialIn(ls, k) ==
  IF UsesIn(ls, k) = {} THEN Default
  ELSE ls[Latest(UsesIn(ls, k))].name
ObjectIn(ls, k) == Cardinality({j \in 1 .. k : ls[j].kind = "o"})
SameSubsetIn(ls, j, k) == \A i \in j .. k : ls[i].kind \in {"f", "mtllib"}

LEMMA OfLines ==
  /\ FaceLines = FaceLinesIn(lines)
  /\ \A k : Material(k) = MaterialIn(lines, k)
  /\ \A k : Object(k) = ObjectIn(lines, k)
  /\ \A j, k : SameSubset(j, k) = SameSubsetIn(lines, j, k)
BY DEF FaceLines, FaceLinesIn, Material, MaterialIn, UsesIn, Latest, Object,
       ObjectIn, SameSubset, SameSubsetIn

\* What a line before the last means does not depend on the last.
LEMMA EarlierLine ==
  ASSUME NEW ls \in Seq(Lines), NEW l \in Lines, NEW k \in 0 .. Len(ls)
  PROVE  /\ MaterialIn(Append(ls, l), k) = MaterialIn(ls, k)
         /\ ObjectIn(Append(ls, l), k) = ObjectIn(ls, k)
<1>1. PICK t : t = Append(ls, l)
  OBVIOUS
<1>2. \A j \in 1 .. k : t[j] = ls[j]
  <2>1. PICK n \in Nat : n = Len(ls)
    OBVIOUS
  <2>2. \A j \in 1 .. k : j \in 1 .. n
    BY <2>1
  <2> QED  BY <1>1, <2>1, <2>2, AppendProperties
<1>3. UsesIn(t, k) = UsesIn(ls, k)
  BY <1>2 DEF UsesIn
<1>4. {j \in 1 .. k : t[j].kind = "o"} = {j \in 1 .. k : ls[j].kind = "o"}
  BY <1>2
<1>5. PICK U : U = UsesIn(ls, k) /\ \A j \in U : j \in 1 .. k /\ j \in Nat
  <2>1. k \in Nat
    OBVIOUS
  <2>2. \A j \in UsesIn(ls, k) : j \in 1 .. k
    BY DEF UsesIn
  <2>3. \A j \in UsesIn(ls, k) : j \in Nat
    BY <2>1, <2>2
  <2> QED  BY <2>2, <2>3
<1>6. CASE U = {}
  BY <1>1, <1>3, <1>4, <1>5, <1>6 DEF MaterialIn, ObjectIn
<1>7. CASE U # {}
  <2>1. \E j \in U : \A i \in U : i <= j
    <3>1. k \in Nat /\ \A j \in U : j \in Nat /\ j <= k
      BY <1>5
    <3> QED  BY <1>7, <3>1, Greatest
  <2>2. PICK j : j = Latest(U)
    OBVIOUS
  <2>3. j \in U
    BY <2>1, <2>2 DEF Latest
  <2>4. t[j] = ls[j]
    BY <1>2, <1>5, <2>3
  <2>5. MaterialIn(t, k) = t[j].name /\ MaterialIn(ls, k) = ls[j].name
    BY <1>3, <1>5, <1>7, <2>2 DEF MaterialIn
  <2> QED  BY <1>1, <1>4, <2>4, <2>5 DEF ObjectIn
<1> QED  BY <1>6, <1>7

LEMMA ObjectCount ==
  ASSUME NEW ls \in Seq(Lines), NEW k \in 0 .. Len(ls)
  PROVE  IsFiniteSet({j \in 1 .. k : ls[j].kind = "o"}) /\ ObjectIn(ls, k) \in Nat
<1>1. IsFiniteSet(1 .. k)
  <2>1. k \in Int
    OBVIOUS
  <2> QED  BY <2>1, FS_Interval
<1>2. IsFiniteSet({j \in 1 .. k : ls[j].kind = "o"})
  BY <1>1, FS_Subset
<1> QED  BY <1>2, FS_CardinalityType DEF ObjectIn

\* What the last line means.
LEMMA LastLine ==
  ASSUME NEW ls \in Seq(Lines), NEW l \in Lines
  PROVE  /\ Append(ls, l) \in Seq(Lines) /\ Len(Append(ls, l)) = Len(ls) + 1
         /\ Append(ls, l)[Len(ls) + 1] = l
         /\ \A k \in 1 .. Len(ls) : Append(ls, l)[k] = ls[k]
         /\ FaceLinesIn(Append(ls, l))
              = FaceLinesIn(ls) \union (IF l.kind = "f" THEN {Len(ls) + 1} ELSE {})
         /\ MaterialIn(Append(ls, l), Len(ls) + 1)
              = IF l.kind = "usemtl" THEN l.name ELSE MaterialIn(ls, Len(ls))
         /\ ObjectIn(Append(ls, l), Len(ls) + 1)
              = IF l.kind = "o" THEN ObjectIn(ls, Len(ls)) + 1
                                ELSE ObjectIn(ls, Len(ls))
<1>1. PICK n \in Nat : n = Len(ls) /\ DOMAIN ls = 1 .. n
  OBVIOUS
<1>2. PICK t : t = Append(ls, l)
  OBVIOUS
<1>3. /\ t \in Seq(Lines) /\ Len(t) = n + 1 /\ t[n + 1] = l
      /\ \A k \in 1 .. n : t[k] = ls[k]
  BY <1>1, <1>2, AppendProperties
<1>4. DOMAIN t = 1 .. n + 1
  BY <1>3, LenProperties
<1>5. \A k : k \in 1 .. n + 1 <=> (k \in 1 .. n \/ k = n + 1)
  BY <1>1
<1>6. FaceLinesIn(t) = FaceLinesIn(ls) \union (IF l.kind = "f" THEN {n + 1} ELSE {})
  BY <1>1, <1>3, <1>4, <1>5 DEF FaceLinesIn
<1>7. MaterialIn(t, n + 1)
        = IF l.kind = "usemtl" THEN l.name ELSE MaterialIn(ls, n)
  <2>1. MaterialIn(t, n) = MaterialIn(ls, n)
    <3>1. n \in 0 .. n
      BY <1>1
    <3> QED  BY <1>1, <1>2, <3>1, EarlierLine
  <2>2. CASE l.kind = "usemtl"
    <3>1. PICK U : U = UsesIn(t, n + 1)
      OBVIOUS
    <3>2. n + 1 \in U /\ \A j \in U : j \in 1 .. n + 1
      BY <1>1, <1>3, <2>2, <3>1 DEF UsesIn
    <3>3. \A j \in U : (\A i \in U : i <= j) <=> j = n + 1
      BY <1>1, <3>2
    <3>4. Latest(U) = n + 1
      BY <3>2, <3>3 DEF Latest
    <3> QED  BY <1>3, <2>2, <3>1, <3>2, <3>4 DEF MaterialIn
  <2>3. CASE l.kind # "usemtl"
    <3>1. UsesIn(t, n + 1) = UsesIn(t, n)
      BY <1>1, <1>3, <1>5, <2>3 DEF UsesIn
    <3> QED  BY <2>1, <2>3, <3>1 DEF MaterialIn
  <2> QED  BY <2>2, <2>3
<1>8. ObjectIn(t, n + 1)
        = IF l.kind = "o" THEN ObjectIn(ls, n) + 1 ELSE ObjectIn(ls, n)
  <2>1. PICK O : O = {j \in 1 .. n : ls[j].kind = "o"}
    OBVIOUS
  <2>2. IsFiniteSet(O) /\ ObjectIn(ls, n) = Cardinality(O)
    <3>1. n \in 0 .. Len(ls)
      BY <1>1
    <3> QED  BY <2>1, <3>1, ObjectCount DEF ObjectIn
  <2>3. n + 1 \notin O
    BY <1>1, <2>1
  <2>4. CASE l.kind = "o"
    <3>1. {j \in 1 .. n + 1 : t[j].kind = "o"} = O \union {n + 1}
      BY <1>3, <1>5, <2>1, <2>4
    <3>2. Cardinality(O \union {n + 1}) = Cardinality(O) + 1
      BY <2>2, <2>3, FS_AddElement
    <3> QED  BY <2>2, <2>4, <3>1, <3>2 DEF ObjectIn
  <2>5. CASE l.kind # "o"
    <3>1. {j \in 1 .. n + 1 : t[j].kind = "o"} = O
      BY <1>3, <1>5, <2>1, <2>5
    <3> QED  BY <2>2, <2>5, <3>1 DEF ObjectIn
  <2> QED  BY <2>4, <2>5
<1> QED  BY <1>1, <1>2, <1>3, <1>6, <1>7, <1>8

-----------------------------------------------------------------------------
(* The inductive invariant: where the lines are in the parts *)

Named(m) == IF m = Unnamed THEN Default ELSE m

\* The material in force, and the object, at the end of what is read.
InForce(ls, ps, cur) == /\ cur = MaterialIn(ls, Len(ls))
                        /\ Named(Current(ps).mat) = cur
                        /\ Len(ps) = ObjectIn(ls, Len(ls)) + 1

\* Faces come from a line of that object and material, and no line is lost.
Sourced(ls, ps) ==
  \A p, i \in Nat : There(ps, p, i) /\ ps[p][i].faces # <<>> =>
    \E k \in FaceLinesIn(ls) : /\ p = ObjectIn(ls, k) + 1
                               /\ MaterialIn(ls, k) = Named(ps[p][i].mat)
Placed(ls, ps) ==
  \A k \in FaceLinesIn(ls) :
    \E p, i \in Nat : /\ There(ps, p, i) /\ ps[p][i].faces # <<>>
                      /\ p = ObjectIn(ls, k) + 1

PlainIn(ls) == \A k \in FaceLinesIn(ls) : Plain(ls[k].face)

Polygons(s) == \A j \in DOMAIN s.faces : Len(s.faces[j]) > 2
AllPolygons(ls, ps) ==
  PlainIn(ls) => \A p, i \in Nat : There(ps, p, i) => Polygons(ps[p][i])

\* The current subset has the form of a face that went to it.
OneForm(ls, ps) ==
  PlainIn(ls) /\ Current(ps).faces # <<>> =>
    \E k \in FaceLinesIn(ls) : /\ SameSubsetIn(ls, k, Len(ls))
                               /\ Current(ps).form = ls[k].face.form

Layout(ls, ps, cur) == /\ InForce(ls, ps, cur)
                       /\ Sourced(ls, ps)
                       /\ Placed(ls, ps)
                       /\ AllPolygons(ls, ps)
                       /\ OneForm(ls, ps)

LEMMA NamedCurrent ==
  ASSUME NEW m \in Names \union {Default}
  PROVE  m \in MtlNames /\ Named(m) = m
<1>1. m # Unnamed
  BY ObjAssumption DEF Unnamed, Default
<1> QED  BY <1>1 DEF Named, MtlNames

LEMMA SubsetFields ==
  ASSUME NEW m
  PROVE  Subset(m).mat = m /\ Subset(m).faces = <<>> /\ Polygons(Subset(m))
BY DEF Subset, Polygons

LEMMA LayoutInit == Layout(<<>>, <<<<Subset(Unnamed)>>>>, Default)
<1>1. PICK ls : ls = <<>> /\ Len(ls) = 0 /\ DOMAIN ls = {}
  <2>1. Len(<<>>) = 0 /\ DOMAIN <<>> = {}
    OBVIOUS
  <2> QED  BY <2>1
<1>2. PICK s \in Batch : s = Subset(Unnamed)
  BY SubsetType DEF MtlNames
<1>3. PICK q \in Part : q = <<s>> /\ Len(q) = 1 /\ q[1] = s /\ DOMAIN q = {1}
  <2>1. <<s>> \in Seq(Batch) /\ <<s>> # <<>> /\ DOMAIN <<s>> = {1}
    BY <1>2
  <2> QED  BY <2>1 DEF Part
<1>4. PICK ps : ps = <<q>> /\ Len(ps) = 1 /\ ps[1] = q /\ DOMAIN ps = {1}
  <2>1. Len(<<q>>) = 1 /\ <<q>>[1] = q /\ DOMAIN <<q>> = {1}
    OBVIOUS
  <2> QED  BY <2>1
<1>5. Current(ps) = s
  BY <1>3, <1>4 DEF Current
<1>6. \A p, i \in Nat : There(ps, p, i) => ps[p][i] = s
  BY <1>3, <1>4 DEF There
<1>7. FaceLinesIn(ls) = {}
  BY <1>1 DEF FaceLinesIn
<1>8. s.mat = Unnamed /\ s.faces = <<>> /\ Polygons(s)
  BY <1>2, SubsetFields
<1>9. MaterialIn(ls, 0) = Default
  BY DEF MaterialIn, UsesIn
<1>10. ObjectIn(ls, 0) = 0
  <2>1. {j \in 1 .. 0 : ls[j].kind = "o"} = {}
    OBVIOUS
  <2> QED  BY <2>1, FS_EmptySet DEF ObjectIn
<1>11. InForce(ls, ps, Default)
  BY <1>1, <1>4, <1>5, <1>8, <1>9, <1>10 DEF InForce, Named
<1>12. /\ Sourced(ls, ps) /\ Placed(ls, ps) /\ AllPolygons(ls, ps)
       /\ OneForm(ls, ps)
  BY <1>5, <1>6, <1>7, <1>8 DEF Sourced, Placed, AllPolygons, OneForm
<1> QED  BY <1>1, <1>2, <1>3, <1>4, <1>11, <1>12 DEF Layout

LEMMA LayoutStep ==
  ASSUME NEW ls \in Seq(Lines), NEW ps \in PartsSet,
         NEW cur \in Names \union {Default}, NEW l \in Lines,
         NEW ps2, NEW cur2, Reads(ps, cur, l, ps2, cur2),
         Layout(ls, ps, cur)
  PROVE  Layout(Append(ls, l), ps2, cur2)
<1>1. PICK n \in Nat : n = Len(ls)
  OBVIOUS
<1>2. PICK t : t = Append(ls, l)
  OBVIOUS
<1>3. /\ t \in Seq(Lines) /\ Len(t) = n + 1 /\ t[n + 1] = l
      /\ \A k \in 1 .. n : t[k] = ls[k]
      /\ FaceLinesIn(t) = FaceLinesIn(ls) \union (IF l.kind = "f" THEN {n + 1} ELSE {})
      /\ MaterialIn(t, n + 1)
           = IF l.kind = "usemtl" THEN l.name ELSE MaterialIn(ls, n)
      /\ ObjectIn(t, n + 1)
           = IF l.kind = "o" THEN ObjectIn(ls, n) + 1 ELSE ObjectIn(ls, n)
  BY <1>1, <1>2, LastLine
<1>4. \A k \in FaceLinesIn(ls) :
        /\ k \in 1 .. n /\ ls[k].kind = "f" /\ t[k] = ls[k]
        /\ MaterialIn(t, k) = MaterialIn(ls, k) /\ ObjectIn(t, k) = ObjectIn(ls, k)
  <2>1. ASSUME NEW k \in FaceLinesIn(ls)
        PROVE  k \in 1 .. n /\ k \in 0 .. n /\ ls[k].kind = "f"
    BY <1>1 DEF FaceLinesIn
  <2> QED  BY <1>1, <1>2, <1>3, <2>1, EarlierLine
<1>5. cur \in MtlNames
  BY NamedCurrent
<1>6. /\ ps2 \in PartsSet
      /\ Len(ps2) = IF l.kind = "o" THEN Len(ps) + 1 ELSE Len(ps)
      /\ l.kind = "f" => Current(ps2) = Faced(Current(ps), l.face)
      /\ l.kind = "mtllib" => Current(ps2) = Current(ps)
      /\ l.kind \notin {"f", "mtllib"} => Current(ps2) = Subset(cur2)
      /\ cur2 = IF l.kind = "usemtl" THEN l.name ELSE cur
      /\ \A p, i \in Nat : There(ps2, p, i) =>
           \/ There(ps, p, i) /\ ps2[p][i] = ps[p][i]
           \/ p = Len(ps2) /\ ps2[p][i] = Current(ps2)
      /\ \A p, i \in Nat : There(ps, p, i) =>
           /\ There(ps2, p, i)
           /\ \/ ps2[p][i] = ps[p][i]
              \/ l.kind = "f" /\ p = Len(ps2) /\ ps2[p][i] = Current(ps2)
  BY <1>5, ReadsPlaces
<1>7. /\ Current(ps) \in Batch /\ There(ps, Len(ps), Len(ps[Len(ps)]))
      /\ ps[Len(ps)][Len(ps[Len(ps)])] = Current(ps)
  BY CurrentThere
<1>8. cur2 \in Names \union {Default}
  BY <1>6, LineTypes
<1>9. l.kind = "f" =>
        /\ l.face \in Faces
        /\ Current(ps2).mat = Current(ps).mat
        /\ Current(ps2).form = Inspected(l.face, Current(ps).form)
        /\ Current(ps2).faces = Append(Current(ps).faces, ParsedFace(l.face))
        /\ Current(ps2).faces # <<>>
  <2>1. ASSUME l.kind = "f"
        PROVE  Append(Current(ps).faces, ParsedFace(l.face)) # <<>>
    <3>1. Current(ps).faces \in Seq(Seq(Vertex))
      BY <1>7 DEF Batch
    <3>2. ParsedFace(l.face) \in Seq(Vertex)
      BY <2>1, LineTypes, ParsedType
    <3> QED  BY ZenonT(40), <3>1, <3>2, AppendProperties
  <2> QED  BY <1>6, <1>7, <2>1, LineTypes, FacedType
<1>10. InForce(t, ps2, cur2)
  <2>1. /\ cur = MaterialIn(ls, n) /\ Named(Current(ps).mat) = cur
        /\ Len(ps) = ObjectIn(ls, n) + 1 /\ ObjectIn(ls, n) \in Nat
    <3>1. n \in 0 .. Len(ls)
      BY <1>1
    <3> QED  BY <1>1, <3>1, ObjectCount DEF Layout, InForce
  <2>2. Named(Current(ps2).mat) = cur2
    <3>1. CASE l.kind = "f"
      BY <1>6, <1>9, <2>1, <3>1
    <3>2. CASE l.kind = "mtllib"
      BY <1>6, <2>1, <3>2
    <3>3. CASE l.kind \notin {"f", "mtllib"}
      BY <1>6, <1>8, <3>3, SubsetFields, NamedCurrent
    <3> QED  BY <3>1, <3>2, <3>3
  <2> QED  BY <1>3, <1>6, <2>1, <2>2 DEF InForce
<1>11. PICK p0 \in Nat, i0 \in Nat : /\ p0 = Len(ps) /\ There(ps, p0, i0)
                                     /\ ps[p0][i0] = Current(ps)
  <2>1. ps \in Seq(Part) /\ Len(ps) \in DOMAIN ps
    BY <1>7 DEF There, PartsSet
  <2>2. Len(ps) \in Nat /\ ps[Len(ps)] \in Seq(Batch)
    BY <2>1, ElementOfSeq DEF Part
  <2>3. Len(ps[Len(ps)]) \in Nat
    BY <2>2
  <2> QED  BY <1>7, <2>2, <2>3
<1>12. PICK p2 \in Nat, i2 \in Nat : /\ p2 = Len(ps2) /\ There(ps2, p2, i2)
                                     /\ ps2[p2][i2] = Current(ps2)
  <2>1. /\ There(ps2, Len(ps2), Len(ps2[Len(ps2)]))
        /\ ps2[Len(ps2)][Len(ps2[Len(ps2)])] = Current(ps2)
    BY <1>6, CurrentThere
  <2>2. ps2 \in Seq(Part) /\ Len(ps2) \in DOMAIN ps2
    BY <1>6, <2>1 DEF There, PartsSet
  <2>3. Len(ps2) \in Nat /\ ps2[Len(ps2)] \in Seq(Batch)
    BY <2>2, ElementOfSeq DEF Part
  <2>4. Len(ps2[Len(ps2)]) \in Nat
    BY <2>3
  <2> QED  BY <2>1, <2>3, <2>4
<1>13. Sourced(t, ps2)
  <2> SUFFICES ASSUME NEW p \in Nat, NEW i \in Nat, There(ps2, p, i),
                      ps2[p][i].faces # <<>>
               PROVE  \E k \in FaceLinesIn(t) :
                        /\ p = ObjectIn(t, k) + 1
                        /\ MaterialIn(t, k) = Named(ps2[p][i].mat)
    BY DEF Sourced
  <2>1. ASSUME NEW j \in Nat, NEW m \in Nat, There(ps, j, m), p = j,
               ps[j][m] = ps2[p][i]
        PROVE  \E k \in FaceLinesIn(t) :
                 /\ p = ObjectIn(t, k) + 1
                 /\ MaterialIn(t, k) = Named(ps2[p][i].mat)
    <3>1. PICK k \in FaceLinesIn(ls) : /\ j = ObjectIn(ls, k) + 1
                                       /\ MaterialIn(ls, k) = Named(ps[j][m].mat)
      BY <2>1 DEF Layout, Sourced
    <3> QED  BY <1>3, <1>4, <2>1, <3>1
  <2>2. CASE There(ps, p, i) /\ ps2[p][i] = ps[p][i]
    BY <2>1, <2>2
  <2>3. CASE p = Len(ps2) /\ ps2[p][i] = Current(ps2) /\ l.kind = "f"
    <3>1. n + 1 \in FaceLinesIn(t)
      BY <1>3, <2>3
    <3> QED  BY <1>3, <1>10, <2>3, <3>1 DEF InForce
  <2>4. CASE p = Len(ps2) /\ ps2[p][i] = Current(ps2) /\ l.kind = "mtllib"
    BY <1>6, <1>11, <2>1, <2>4
  <2>5. CASE p = Len(ps2) /\ ps2[p][i] = Current(ps2) /\ l.kind \notin {"f", "mtllib"}
    BY <1>6, <2>5, SubsetFields
  <2> QED  BY <1>6, <2>2, <2>3, <2>4, <2>5
<1>14. Placed(t, ps2)
  <2> SUFFICES ASSUME NEW k \in FaceLinesIn(t)
               PROVE  \E p, i \in Nat : /\ There(ps2, p, i)
                                        /\ ps2[p][i].faces # <<>>
                                        /\ p = ObjectIn(t, k) + 1
    BY DEF Placed
  <2>1. CASE k \in FaceLinesIn(ls)
    <3>1. PICK p, i \in Nat : /\ There(ps, p, i) /\ ps[p][i].faces # <<>>
                              /\ p = ObjectIn(ls, k) + 1
      BY <2>1 DEF Layout, Placed
    <3>2. There(ps2, p, i) /\ ps2[p][i].faces # <<>>
      BY <1>6, <1>9, <3>1
    <3> QED  BY <1>4, <2>1, <3>1, <3>2
  <2>2. CASE k = n + 1 /\ l.kind = "f"
    BY <1>3, <1>9, <1>10, <1>12, <2>2 DEF InForce
  <2> QED  BY <1>3, <2>1, <2>2
<1>15. PlainIn(t) => PlainIn(ls)
  BY <1>3, <1>4 DEF PlainIn
<1>16. AllPolygons(t, ps2)
  <2> SUFFICES ASSUME PlainIn(t), NEW p \in Nat, NEW i \in Nat, There(ps2, p, i)
               PROVE  Polygons(ps2[p][i])
    BY DEF AllPolygons
  <2>1. \A j, m \in Nat : There(ps, j, m) => Polygons(ps[j][m])
    BY <1>15 DEF Layout, AllPolygons
  <2>2. Polygons(Current(ps))
    BY <1>11, <2>1
  <2>3. CASE There(ps, p, i) /\ ps2[p][i] = ps[p][i]
    BY <2>1, <2>3
  <2>4. CASE ps2[p][i] = Current(ps2) /\ l.kind = "f"
    <3>1. PICK fs \in Seq(Seq(Vertex)) : fs = Current(ps).faces
      BY <1>7 DEF Batch
    <3>2. PICK x \in Seq(Vertex) : x = ParsedFace(l.face)
      BY <1>9, <2>4, ParsedType
    <3>3. Plain(l.face)
      <4>1. n + 1 \in FaceLinesIn(t)
        BY <1>3, <2>4
      <4> QED  BY <1>3, <2>4, <4>1 DEF PlainIn
    <3>4. Len(x) > 2
      BY <1>9, <2>4, <3>2, <3>3, ParsedType, CountType DEF Plain
    <3>5. PICK m \in Nat : m = Len(fs) /\ DOMAIN fs = 1 .. m
      BY <3>1
    <3>6. PICK gs : gs = Append(fs, x)
      OBVIOUS
    <3>7. /\ Len(gs) = m + 1 /\ DOMAIN gs = 1 .. m + 1 /\ gs[m + 1] = x
          /\ \A j \in 1 .. m : gs[j] = fs[j]
      BY <3>1, <3>2, <3>5, <3>6, AppendProperties, LenProperties
    <3>8. \A j \in 1 .. m + 1 : j \in 1 .. m \/ j = m + 1
      BY <3>5
    <3>9. \A j \in DOMAIN gs : Len(gs[j]) > 2
      BY <2>2, <3>1, <3>4, <3>5, <3>7, <3>8 DEF Polygons
    <3> QED  BY <1>9, <2>4, <3>1, <3>2, <3>6, <3>9 DEF Polygons
  <2>5. CASE ps2[p][i] = Current(ps2) /\ l.kind = "mtllib"
    BY <1>6, <2>2, <2>5
  <2>6. CASE ps2[p][i] = Current(ps2) /\ l.kind \notin {"f", "mtllib"}
    BY <1>6, <2>6, SubsetFields
  <2> QED  BY <1>6, <2>3, <2>4, <2>5, <2>6
<1>17. OneForm(t, ps2)
  <2> SUFFICES ASSUME PlainIn(t), Current(ps2).faces # <<>>
               PROVE  \E k \in FaceLinesIn(t) :
                        /\ SameSubsetIn(t, k, n + 1)
                        /\ Current(ps2).form = t[k].face.form
    BY <1>3 DEF OneForm
  <2>1. CASE l.kind = "f"
    <3>1. n + 1 \in FaceLinesIn(t)
      BY <1>3, <2>1
    <3>2. SameSubsetIn(t, n + 1, n + 1)
      <4>1. \A j \in n + 1 .. n + 1 : j = n + 1
        BY <1>1
      <4> QED  BY <1>3, <2>1, <4>1 DEF SameSubsetIn
    <3>3. Plain(l.face)
      BY <1>3, <3>1 DEF PlainIn
    <3>4. Count(l.face) > 0
      <4>1. Count(l.face) = Len(l.face.index) /\ Count(l.face) \in Nat
        BY <1>9, <2>1, <3>3, CountType
      <4> QED  BY <3>3, <4>1 DEF Plain
    <3>5. Current(ps2).form = l.face.form
      BY <1>9, <2>1, <3>4 DEF Inspected
    <3> QED  BY <1>3, <3>1, <3>2, <3>5
  <2>2. CASE l.kind = "mtllib"
    <3>1. PICK k \in FaceLinesIn(ls) : /\ SameSubsetIn(ls, k, n)
                                       /\ Current(ps).form = ls[k].face.form
      BY <1>1, <1>6, <1>15, <2>2 DEF Layout, OneForm
    <3>2. SameSubsetIn(t, k, n + 1)
      <4>1. k \in 1 .. n
        BY <1>4, <3>1
      <4>2. \A j \in k .. n + 1 : (j \in k .. n /\ j \in 1 .. n) \/ j = n + 1
        BY <1>1, <4>1
      <4> QED  BY <1>3, <2>2, <3>1, <4>2 DEF SameSubsetIn
    <3> QED  BY <1>3, <1>4, <1>6, <2>2, <3>1, <3>2
  <2>3. CASE l.kind \notin {"f", "mtllib"}
    BY <1>6, <2>3, SubsetFields
  <2> QED  BY <2>1, <2>2, <2>3
<1> QED  BY <1>2, <1>10, <1>13, <1>14, <1>16, <1>17 DEF Layout

\* What was read lies in the parts as the lines say.
Laid == Layout(lines, parts, curMtl)

LEMMA LaidAlways == Spec => []Laid
<1>1. Init => Laid
  BY LayoutInit DEF Init, Laid
<1>2. ASSUME TypeOK, Laid, [Next]_vars  PROVE  Laid'
  <2>1. CASE UNCHANGED vars
    BY <1>2, <2>1 DEF Laid, vars
  <2>2. CASE NextImport
    BY <2>2, LayoutInit DEF Laid, NextImport
  <2>3. CASE ReadLine
    <3>1. PICK l \in Lines : /\ lines' = Append(lines, l)
                             /\ Reads(parts, curMtl, l, parts', curMtl')
      BY <1>2, <2>3, ReadLineReads
    <3>2. Layout(Append(lines, l), parts', curMtl')
      BY <1>2, <3>1, LayoutStep DEF TypeOK, Laid
    <3> QED  BY <3>1, <3>2 DEF Laid
  <2> QED  BY <1>2, <2>1, <2>2, <2>3 DEF Next
<1> QED  BY <1>1, <1>2, ObjTypes, PTL DEF Spec

-----------------------------------------------------------------------------
(* What is converted, and the size of the buffers *)

\* A subset of the model is one of the file that has faces.
LEMMA ConvertedSource ==
  ASSUME TypeOK, NEW p \in DOMAIN ConvertedParts, NEW i \in DOMAIN ConvertedParts[p]
  PROVE  \E j, m \in Nat : /\ There(parts, j, m) /\ parts[j][m] \in Batch
                           /\ parts[j][m].faces # <<>>
                           /\ ConvertedParts[p][i] = ConvertedSubset(parts[j][m])
<1>1. PICK n \in Nat : n = Len(parts) /\ DOMAIN parts = 1 .. n
  BY DEF TypeOK, PartsSet
<1>2. PICK S : S = NotEmpty /\ S \subseteq 1 .. n
  BY <1>1 DEF NotEmpty
<1>3. PICK cs : cs = [k \in DOMAIN parts |-> ConvertedPart(parts[k])]
  OBVIOUS
<1>4. /\ DOMAIN Kept(cs, S) = 1 .. Cardinality(S)
      /\ \A k \in 1 .. Cardinality(S) : /\ Nth(S, k) \in S
                                        /\ Kept(cs, S)[k] = cs[Nth(S, k)]
  BY <1>2, KeptElements
<1>5. ConvertedParts = Kept(cs, S)
  BY <1>2, <1>3 DEF ConvertedParts
<1>6. PICK j \in S : ConvertedParts[p] = cs[j]
  BY <1>4, <1>5
<1>7. j \in 1 .. n /\ j \in Nat /\ j \in DOMAIN parts
  <2>1. j \in 1 .. n
    BY <1>2, <1>6
  <2> QED  BY <1>1, <2>1
<1>8. PICK q \in Part : q = parts[j]
  BY <1>1, <1>7, ElementOfSeq DEF TypeOK, PartsSet
<1>9. ConvertedParts[p] = ConvertedPart(q)
  BY <1>3, <1>6, <1>7, <1>8
<1>10. PICK h \in Nat : h = Len(q) /\ DOMAIN q = 1 .. h
  BY <1>8 DEF Part
<1>11. PICK W : W = WithFaces(q) /\ W \subseteq 1 .. h
  BY <1>10 DEF WithFaces
<1>12. PICK us : us = [k \in DOMAIN q |-> ConvertedSubset(q[k])]
  OBVIOUS
<1>13. /\ DOMAIN Kept(us, W) = 1 .. Cardinality(W)
       /\ \A k \in 1 .. Cardinality(W) : /\ Nth(W, k) \in W
                                         /\ Kept(us, W)[k] = us[Nth(W, k)]
  BY <1>10, <1>11, KeptElements
<1>14. ConvertedParts[p] = Kept(us, W)
  BY <1>9, <1>11, <1>12 DEF ConvertedPart
<1>15. PICK m \in W : ConvertedParts[p][i] = us[m]
  BY <1>13, <1>14
<1>16. m \in 1 .. h /\ m \in DOMAIN q /\ q[m].faces # <<>>
  BY <1>10, <1>11, <1>15 DEF WithFaces
<1>17. m \in Nat
  BY <1>10, <1>16
<1>18. q[m] \in Batch /\ ConvertedParts[p][i] = ConvertedSubset(q[m])
  BY <1>8, <1>10, <1>12, <1>15, <1>16, ElementOfSeq DEF Part
<1> QED  BY <1>7, <1>8, <1>16, <1>17, <1>18 DEF There

\* The fans of the faces of a subset.
Fans(s) == [k \in DOMAIN s.faces |-> Fan(s.faces[k])]

LEMMA FanType ==
  ASSUME NEW face \in Seq(Vertex)
  PROVE  /\ Fan(face) \in Seq([1 .. 3 -> Vertex])
         /\ Len(Fan(face)) = IF Len(face) > 2 THEN Len(face) - 2 ELSE 0
<1>1. PICK c \in Nat : c = (IF Len(face) > 2 THEN Len(face) - 2 ELSE 0)
  <2>1. Len(face) \in Nat
    OBVIOUS
  <2>2. Len(face) > 2 => Len(face) - 2 \in Nat
    BY <2>1
  <2> QED  BY <2>2
<1>2. ASSUME NEW i \in 1 .. c
      PROVE  <<face[1], face[i + 1], face[i + 2]>> \in [1 .. 3 -> Vertex]
  <2>1. 1 \in 1 .. Len(face) /\ i + 1 \in 1 .. Len(face) /\ i + 2 \in 1 .. Len(face)
    BY <1>1
  <2>2. face[1] \in Vertex /\ face[i + 1] \in Vertex /\ face[i + 2] \in Vertex
    BY <2>1, ElementOfSeq
  <2> QED  BY <2>2
<1>3. Fan(face) = [i \in 1 .. c |-> <<face[1], face[i + 1], face[i + 2]>>]
  BY <1>1 DEF Fan
<1> QED  BY <1>1, <1>2, <1>3

LEMMA FansType ==
  ASSUME NEW s \in Batch
  PROVE  /\ Fans(s) \in Seq(Seq([1 .. 3 -> Vertex])) /\ Len(Fans(s)) = Len(s.faces)
         /\ FlattenSeq(Fans(s)) \in Seq([1 .. 3 -> Vertex])
         /\ \A k \in DOMAIN s.faces : /\ Fans(s)[k] = Fan(s.faces[k])
                                      /\ s.faces[k] \in Seq(Vertex)
<1>1. PICK fs \in Seq(Seq(Vertex)) : fs = s.faces
  BY DEF Batch
<1>2. PICK n \in Nat : n = Len(fs) /\ DOMAIN fs = 1 .. n
  BY <1>1
<1>3. ASSUME NEW k \in 1 .. n
      PROVE  fs[k] \in Seq(Vertex) /\ Fan(fs[k]) \in Seq([1 .. 3 -> Vertex])
  BY <1>1, <1>2, ElementOfSeq, FanType
<1>4. Fans(s) = [k \in 1 .. n |-> Fan(fs[k])]
  BY <1>1, <1>2 DEF Fans
<1>5. Fans(s) \in Seq(Seq([1 .. 3 -> Vertex])) /\ Len(Fans(s)) = n
  BY <1>2, <1>3, <1>4
<1> QED  BY <1>1, <1>2, <1>3, <1>4, <1>5, FlattenType

\* The triangles of a subset are those of its fans.
LEMMA TrianglesAre ==
  ASSUME NEW s \in Batch
  PROVE  /\ Len(Triangles(s)) = Len(FlattenSeq(Fans(s)))
         /\ DOMAIN Triangles(s) = DOMAIN FlattenSeq(Fans(s))
         /\ Triangles(s) = [k \in DOMAIN FlattenSeq(Fans(s)) |->
                [c \in 1 .. 3 |-> Corner(s, FlattenSeq(Fans(s))[k][c])]]
<1>1. PICK fans \in Seq([1 .. 3 -> Vertex]) : fans = FlattenSeq(Fans(s))
  BY FansType
<1>2. PICK n \in Nat : n = Len(fans) /\ DOMAIN fans = 1 .. n
  BY <1>1
<1>3. Triangles(s) = [k \in DOMAIN fans |-> [c \in 1 .. 3 |-> Corner(s, fans[k][c])]]
  BY <1>1 DEF Triangles, Fans
<1>4. Triangles(s) = [k \in 1 .. n |-> [c \in 1 .. 3 |-> Corner(s, fans[k][c])]]
  BY <1>2, <1>3
<1>5. Len(Triangles(s)) = n /\ DOMAIN Triangles(s) = 1 .. n
  BY <1>2, <1>4
<1> QED  BY <1>1, <1>2, <1>3, <1>5

LEMMA Division ==
  ASSUME NEW x \in Int, NEW w \in Nat \ {0}
  PROVE  /\ x = (w * (x \div w)) + (x % w)
         /\ x % w \in 0 .. w - 1 /\ x \div w \in Int
OBVIOUS

LEMMA OneRemainder ==
  ASSUME NEW q \in Int, NEW p \in Int, NEW w \in Nat \ {0},
         NEW r \in 0 .. w - 1, NEW s \in 0 .. w - 1, w * q + r = w * p + s
  PROVE  r = s
<1>1. CASE q >= p + 1
  <2>1. w * q >= w * (p + 1)
    BY <1>1
  <2>2. w * (p + 1) = w * p + w /\ w * q \in Int /\ w * p \in Int
    OBVIOUS
  <2> QED  BY <2>1, <2>2
<1>2. CASE p >= q + 1
  <2>1. w * p >= w * (q + 1)
    BY <1>2
  <2>2. w * (q + 1) = w * q + w /\ w * q \in Int /\ w * p \in Int
    OBVIOUS
  <2> QED  BY <2>1, <2>2
<1>3. CASE p = q
  BY <1>3
<1> QED  BY <1>1, <1>2, <1>3

LEMMA Distribute ==
  ASSUME NEW w \in Int, NEW p \in Int, NEW q \in Int
  PROVE  w * (q + p) = w * q + w * p
OBVIOUS

LEMMA ModType ==
  ASSUME NEW x \in Nat
  PROVE  x % Word \in Nat
<1>1. Word \in Nat /\ Word > 0
  BY ObjAssumption
<1> QED  BY <1>1

\* Counting on from a remainder is counting on.
LEMMA ModStep ==
  ASSUME NEW x \in Nat, NEW y \in Nat
  PROVE  ((x % Word) + y) % Word = (x + y) % Word
<1>0. PICK w \in Nat \ {0} : w = Word
  BY ObjAssumption
<1>1. PICK q \in Int, r \in 0 .. w - 1 :
        q = x \div w /\ r = x % w /\ x = w * q + r
  <2>1. x \in Int
    OBVIOUS
  <2> QED  BY <1>0, <2>1, Division
<1>2. PICK p \in Int, s \in 0 .. w - 1 :
        p = (r + y) \div w /\ s = (r + y) % w /\ r + y = w * p + s
  <2>1. r + y \in Int
    BY <1>0, <1>1
  <2> QED  BY ZenonT(40), <1>0, <2>1, Division
<1>3. PICK h \in Int, t \in 0 .. w - 1 :
        h = (x + y) \div w /\ t = (x + y) % w /\ x + y = w * h + t
  <2>1. x + y \in Int
    OBVIOUS
  <2> QED  BY <1>0, <2>1, Division
<1>4. w * h + t = w * (q + p) + s
  <2>1. w * (q + p) = w * q + w * p
    <3>1. w \in Int /\ q \in Int /\ p \in Int
      BY <1>0, <1>1, <1>2
    <3> QED  BY <3>1, Distribute, Zenon
  <2>2. w * q \in Int /\ w * p \in Int /\ w * h \in Int
    BY <1>0, <1>1, <1>2, <1>3
  <2>3. t \in Int /\ r \in Int /\ s \in Int
    BY <1>0, <1>1, <1>2, <1>3
  <2> QED  BY <1>1, <1>2, <1>3, <2>1, <2>2, <2>3
<1>5. t = s
  <2>1. q + p \in Int
    BY <1>1, <1>2
  <2> QED  BY ZenonT(40), <1>0, <1>2, <1>3, <1>4, <2>1, OneRemainder
<1> QED  BY <1>0, <1>1, <1>2, <1>3, <1>5

\* The triangles are counted modulo 2^32.
LEMMA Counted ==
  ASSUME NEW s \in Batch, Polygons(s)
  PROVE  TriCount(s) = Len(Triangles(s)) % Word
<1>1. PICK fs \in Seq(Seq(Vertex)), n \in Nat :
        fs = s.faces /\ n = Len(fs) /\ DOMAIN fs = 1 .. n
  BY DEF Batch
<1>2. PICK F \in Seq(Seq([1 .. 3 -> Vertex])) : F = Fans(s) /\ Len(F) = n
  BY <1>1, FansType
<1>3. ASSUME NEW k \in 1 .. n
      PROVE  Len(fs[k]) - 2 \in Nat /\ Len(F[k]) = Len(fs[k]) - 2
  <2>1. fs[k] \in Seq(Vertex) /\ F[k] = Fan(fs[k]) /\ Len(fs[k]) > 2
    BY <1>1, <1>2, FansType DEF Polygons
  <2>2. Len(F[k]) = Len(fs[k]) - 2
    BY <2>1, FanType
  <2>3. Len(fs[k]) \in Nat
    BY <2>1
  <2> QED  BY <2>1, <2>2, <2>3
<1>4. PICK g : Concats([1 .. 3 -> Vertex], F, g)
  BY <1>2, HasConcats
<1>5. /\ g \in [0 .. n -> Seq([1 .. 3 -> Vertex])] /\ g[0] = <<>>
      /\ \A k \in 1 .. n : g[k] = g[k - 1] \o F[k]
  BY <1>2, <1>4 DEF Concats
<1>6. Len(Triangles(s)) = Len(g[n])
  <2>1. FlattenSeq(F) = g[n]
    BY <1>2, <1>4, FlattenIs
  <2> QED  BY <1>2, <2>1, TrianglesAre
<1>7. Word \in Nat /\ Word > 0
  BY ObjAssumption
<1> DEFINE Eq(f) == f = [k \in 0 .. Len(fs) |->
                           IF k = 0 THEN 0
                           ELSE (f[k - 1] + Len(fs[k]) - 2) % Word]
           count == CHOOSE f : Eq(f)
<1>8. \E f : Eq(f)
  <2> DEFINE h == [k \in 0 .. n |-> Len(g[k]) % Word]
             rhs == [k \in 0 .. Len(fs) |->
                       IF k = 0 THEN 0
                       ELSE (h[k - 1] + Len(fs[k]) - 2) % Word]
  <2>1. ASSUME NEW k \in 0 .. n  PROVE  h[k] = rhs[k]
    <3>1. CASE k = 0
      <4>1. h[0] = Len(<<>>) % Word /\ rhs[0] = 0
        BY <1>1, <1>5
      <4>2. Len(<<>>) = 0 /\ 0 % Word = 0
        BY <1>7
      <4> QED  BY <3>1, <4>1, <4>2
    <3>2. CASE k # 0
      <4>1. k \in 1 .. n /\ k - 1 \in 0 .. n
        BY <3>2
      <4>2. PICK x \in Nat, y \in Nat : x = Len(g[k - 1]) /\ y = Len(fs[k]) - 2
        <5>1. Len(g[k - 1]) \in Nat
          BY <1>5, <4>1
        <5> QED  BY <1>3, <4>1, <5>1
      <4>3. Len(g[k]) = x + y
        <5>1. g[k - 1] \in Seq([1 .. 3 -> Vertex]) /\ F[k] \in Seq([1 .. 3 -> Vertex])
          BY <1>2, <1>5, <4>1, ElementOfSeq
        <5>2. g[k] = g[k - 1] \o F[k]
          BY <1>5, <4>1
        <5>3. \A a, b \in Seq([1 .. 3 -> Vertex]) : Len(a \o b) = Len(a) + Len(b)
          OBVIOUS
        <5>4. Len(g[k]) = Len(g[k - 1]) + Len(F[k])
          BY <5>1, <5>2, <5>3
        <5> QED  BY <1>3, <4>1, <4>2, <5>4
      <4>4. h[k] = (x + y) % Word /\ h[k - 1] = x % Word
        BY <4>1, <4>2, <4>3
      <4>5. rhs[k] = (h[k - 1] + Len(fs[k]) - 2) % Word
        BY <1>1, <3>2
      <4>6. h[k - 1] + Len(fs[k]) - 2 = (x % Word) + y
        <5>1. Len(fs[k]) \in Nat
          BY <1>1, <4>1, ElementOfSeq
        <5>2. x % Word \in Nat
          BY <4>2, ModType
        <5> QED  BY <4>2, <4>4, <5>1, <5>2
      <4> QED  BY <4>2, <4>4, <4>5, <4>6, ModStep
    <3> QED  BY <3>1, <3>2
  <2>2. h = rhs
    BY <1>1, <2>1
  <2>3. Eq(h)
    BY <2>2
  <2> HIDE DEF Eq
  <2> QED  BY <2>3
<1>9. Eq(count)
  <2> HIDE DEF Eq
  <2> QED  BY <1>8
<1>10. \A k \in 0 .. n : k \in {j \in 0 .. n : count[j] = Len(g[j]) % Word}
  <2> DEFINE V == {j \in 0 .. n : count[j] = Len(g[j]) % Word}
  <2> HIDE DEF count
  <2>1. 0 \in V
    <3>1. count[0] = 0 /\ Len(g[0]) = 0 /\ 0 % Word = 0
      BY <1>1, <1>5, <1>7, <1>9
    <3> QED  BY <3>1
  <2>2. ASSUME NEW k \in 1 .. n, k - 1 \in V  PROVE  k \in V
    <3>1. k - 1 \in 0 .. n /\ k \in 0 .. n /\ k # 0
      OBVIOUS
    <3>2. PICK x \in Nat, y \in Nat : x = Len(g[k - 1]) /\ y = Len(fs[k]) - 2
      <4>1. Len(g[k - 1]) \in Nat
        BY <1>5, <3>1
      <4> QED  BY <1>3, <4>1
    <3>3. Len(g[k]) = x + y
      <4>1. g[k - 1] \in Seq([1 .. 3 -> Vertex]) /\ F[k] \in Seq([1 .. 3 -> Vertex])
        BY <1>2, <1>5, <3>1, ElementOfSeq
      <4>2. g[k] = g[k - 1] \o F[k]
        BY <1>5
      <4>3. \A a, b \in Seq([1 .. 3 -> Vertex]) : Len(a \o b) = Len(a) + Len(b)
        OBVIOUS
      <4>4. Len(g[k]) = Len(g[k - 1]) + Len(F[k])
        BY <4>1, <4>2, <4>3
      <4> QED  BY <1>3, <3>1, <3>2, <4>4
    <3>4. count[k] = (count[k - 1] + Len(fs[k]) - 2) % Word
      BY <1>1, <1>9, <3>1
    <3>5. count[k - 1] = x % Word
      BY <2>2, <3>2
    <3>6. count[k - 1] + Len(fs[k]) - 2 = (x % Word) + y
      <4>1. Len(fs[k]) \in Nat
        BY <1>1, ElementOfSeq
      <4>2. x % Word \in Nat
        BY <3>2, ModType
      <4> QED  BY <3>2, <3>5, <4>1, <4>2
    <3>7. count[k] = Len(g[k]) % Word
      BY <3>2, <3>3, <3>4, <3>6, ModStep
    <3> QED  BY <3>1, <3>7
  <2> HIDE DEF V
  <2>3. \A k \in 1 .. n : k - 1 \in V => k \in V
    BY <2>2
  <2>4. \A k \in 0 .. n : k \in V
    BY <1>1, <2>1, <2>3, UpTo, Zenon
  <2> QED  BY <2>4 DEF V
<1>11. TriCount(s) = count[n]
  BY <1>1 DEF TriCount
<1>12. count[n] = Len(g[n]) % Word
  <2> HIDE DEF count
  <2> QED  BY <1>1, <1>10
<1> QED  BY <1>6, <1>11, <1>12

\* THEOREM: the buffers of every subset are as large as what the converter
\* writes to them, whatever faces, objects and groups the file has, as long as
\* the faces are plain and a word can count the bytes.
THEOREM ImportBuffers == Spec => []BuffersFit
<1>1. ASSUME TypeOK, Laid  PROVE  BuffersFit
  <2> SUFFICES ASSUME \A k \in FaceLines : Plain(lines[k].face),
                      NEW p \in DOMAIN ConvertedParts,
                      NEW i \in DOMAIN ConvertedParts[p],
                      NEW u, u = ConvertedParts[p][i],
                      (3 * Len(u.tris)) * u.vertexSize < Word
               PROVE  /\ u.indices = 3 * Len(u.tris)
                      /\ u.bytes = (3 * Len(u.tris)) * u.vertexSize
    BY DEF BuffersFit
  <2>1. PICK j \in Nat, m \in Nat :
          /\ There(parts, j, m) /\ parts[j][m] \in Batch
          /\ ConvertedParts[p][i] = ConvertedSubset(parts[j][m])
    BY <1>1, ConvertedSource
  <2>2. PICK s \in Batch : s = parts[j][m]
    BY <2>1
  <2>3. Polygons(s)
    <3>1. PlainIn(lines)
      BY OfLines DEF PlainIn
    <3> QED  BY <1>1, <2>1, <2>2, <3>1 DEF Laid, Layout, AllPolygons
  <2>4. /\ u.indices = Indices(s) /\ u.bytes = Bytes(s)
        /\ u.vertexSize = VertexSize(s.form) /\ u.tris = Triangles(s)
    BY <2>1, <2>2 DEF ConvertedSubset
  <2>5. PICK n \in Nat : n = Len(Triangles(s))
    BY FansType, TrianglesAre
  <2>6. PICK z \in {12, 20, 24, 32} : z = VertexSize(s.form)
    BY DEF VertexSize
  <2>7. PICK w \in Nat \ {0} : w = Word
    BY ObjAssumption
  <2>8. (3 * n) * z < w
    BY <2>4, <2>5, <2>6, <2>7
  <2>9. n < w /\ 3 * n < w
    BY <2>8
  <2>10. TriCount(s) = n
    <3>1. n % w = n
      BY <2>9
    <3> QED  BY <2>3, <2>5, <2>7, <3>1, Counted
  <2>11. Indices(s) = 3 * n
    <3>1. (n * 3) % w = 3 * n
      BY <2>9
    <3> QED  BY <2>7, <2>10, <3>1 DEF Indices
  <2>12. Bytes(s) = (3 * n) * z
    <3>1. PICK y \in Nat : y = (3 * n) * z
      OBVIOUS
    <3>2. y % w = y
      BY <2>8, <3>1
    <3> QED  BY <2>6, <2>7, <2>11, <3>1, <3>2 DEF Bytes
  <2> QED  BY <2>4, <2>5, <2>6, <2>11, <2>12
<1> QED  BY <1>1, ObjTypes, LaidAlways, PTL

-----------------------------------------------------------------------------
(* The materials of the mtl file *)

MtlArgs == {MtlFile[k].arg : k \in DOMAIN MtlFile}
MtlRec  == [name : MtlArgs,
            tr   : {0} \union MtlArgs \union {1 - a : a \in MtlArgs},
            map  : {Unnamed} \union MtlArgs]

NamesOf(mats) == {mats[i].name : i \in DOMAIN mats}

\* The names that the first k lines of the file define.
DefinedBy(k) == {MtlFile[j].arg : j \in {j \in 1 .. k : MtlFile[j].kind = "newmtl"}}

LEMMA MtlValueType ==
  ASSUME NEW m \in MtlRec, NEW k \in DOMAIN MtlFile, MtlFile[k].kind # "newmtl"
  PROVE  MtlValue(m, MtlFile[k]) \in MtlRec /\ MtlValue(m, MtlFile[k]).name = m.name
<1>1. PICK l : l = MtlFile[k]
  OBVIOUS
<1>2. PICK T : T = {0} \union MtlArgs \union {1 - a : a \in MtlArgs}
  OBVIOUS
<1>3. l.arg \in MtlArgs /\ l.arg \in T /\ 1 - l.arg \in T
  BY <1>1, <1>2 DEF MtlArgs
<1>4. MtlRec = [name : MtlArgs, tr : T, map : {Unnamed} \union MtlArgs]
  BY <1>2 DEF MtlRec
<1>5. l.kind = "tr" \/ l.kind = "d" \/ l.kind = "map_Kd"
  BY <1>1, ObjAssumption DEF MtlKinds
<1>6. CASE l.kind = "tr"
  <2>1. MtlValue(m, l) = [m EXCEPT !.tr = l.arg]
    BY <1>6 DEF MtlValue
  <2> QED  BY <1>1, <1>3, <1>4, <2>1
<1>7. CASE l.kind = "d"
  <2>1. MtlValue(m, l) = [m EXCEPT !.tr = 1 - l.arg]
    BY <1>7 DEF MtlValue
  <2> QED  BY <1>1, <1>3, <1>4, <2>1
<1>8. CASE l.kind = "map_Kd"
  <2>1. MtlValue(m, l) = [m EXCEPT !.map = l.arg]
    BY <1>8 DEF MtlValue
  <2> QED  BY <1>1, <1>3, <1>4, <2>1
<1> QED  BY <1>5, <1>6, <1>7, <1>8

LEMMA MtlLineType ==
  ASSUME NEW mats \in Seq(MtlRec), NEW k \in DOMAIN MtlFile
  PROVE  /\ MtlLine(mats, MtlFile[k]) \in Seq(MtlRec)
         /\ NamesOf(MtlLine(mats, MtlFile[k]))
              = NamesOf(mats) \union (IF MtlFile[k].kind = "newmtl"
                                       THEN {MtlFile[k].arg} ELSE {})
<1>1. PICK l : l = MtlFile[k]
  OBVIOUS
<1>2. PICK n \in Nat : n = Len(mats) /\ DOMAIN mats = 1 .. n
  OBVIOUS
<1>3. CASE l.kind = "newmtl"
  <2>1. PICK m \in MtlRec : m = [name |-> l.arg, tr |-> 0, map |-> Unnamed]
    BY <1>1 DEF MtlRec, MtlArgs
  <2>2. PICK t : t = Append(mats, m)
    OBVIOUS
  <2>3. /\ t \in Seq(MtlRec) /\ Len(t) = n + 1 /\ t[n + 1] = m
        /\ \A i \in 1 .. n : t[i] = mats[i]
    BY <1>2, <2>1, <2>2, AppendProperties
  <2>4. DOMAIN t = 1 .. n + 1
    BY <2>3, LenProperties
  <2>5. \A i : i \in 1 .. n + 1 <=> (i \in 1 .. n \/ i = n + 1)
    BY <1>2
  <2>6. NamesOf(t) = NamesOf(mats) \union {m.name}
    BY <1>2, <2>3, <2>4, <2>5 DEF NamesOf
  <2>7. MtlLine(mats, l) = t /\ m.name = l.arg
    BY <1>3, <2>1, <2>2 DEF MtlLine
  <2> QED  BY <1>1, <1>3, <2>3, <2>6, <2>7
<1>4. CASE l.kind # "newmtl" /\ mats = <<>>
  BY <1>1, <1>4 DEF MtlLine
<1>5. CASE l.kind # "newmtl" /\ mats # <<>>
  <2>1. n \in 1 .. n /\ mats[n] \in MtlRec
    <3>1. n # 0
      BY <1>2, <1>5, EmptySeq
    <3>2. n \in 1 .. n
      BY <1>2, <3>1
    <3> QED  BY <1>2, <3>2, ElementOfSeq
  <2>2. PICK m \in MtlRec : m = MtlValue(mats[n], l) /\ m.name = mats[n].name
    BY <1>1, <1>5, <2>1, MtlValueType
  <2>3. PICK t : t = [mats EXCEPT ![n] = m]
    OBVIOUS
  <2>4. MtlLine(mats, l) = t
    BY <1>2, <1>5, <2>2, <2>3 DEF MtlLine
  <2>5. t \in Seq(MtlRec) /\ DOMAIN t = 1 .. n
    BY <1>2, <2>1, <2>2, <2>3
  <2>6. \A i \in 1 .. n : t[i].name = mats[i].name
    BY <1>2, <2>2, <2>3
  <2>7. NamesOf(t) = NamesOf(mats)
    BY <1>2, <2>5, <2>6 DEF NamesOf
  <2> QED  BY <1>1, <1>5, <2>4, <2>5, <2>7
<1> QED  BY <1>3, <1>4, <1>5

\* The file read defines the materials of its newmtl lines.
LEMMA MtlReadIs ==
  /\ MtlRead[Len(MtlFile)] \in Seq(MtlRec)
  /\ NamesOf(MtlRead[Len(MtlFile)]) = Defined
<1>1. PICK n \in Nat : n = Len(MtlFile) /\ DOMAIN MtlFile = 1 .. n
  BY ObjAssumption
<1> DEFINE Eq(f) == f = [k \in 0 .. n |->
                           IF k = 0 THEN <<>> ELSE MtlLine(f[k - 1], MtlFile[k])]
           step == [k \in 1 .. n |-> [x \in Seq(MtlRec) |-> MtlLine(x, MtlFile[k])]]
<1>2. \E f : Eq(f)
  <2>1. ASSUME NEW k \in 1 .. n, NEW x \in Seq(MtlRec)
        PROVE  step[k][x] = MtlLine(x, MtlFile[k]) /\ step[k][x] \in Seq(MtlRec)
    <3>1. MtlLine(x, MtlFile[k]) \in Seq(MtlRec)
      BY <1>1, MtlLineType
    <3> QED  BY <3>1
  <2> HIDE DEF step
  <2>e. <<>> \in Seq(MtlRec)
    OBVIOUS
  <2>2. PICK g : Solves(n, Seq(MtlRec), <<>>, step, g)
    <3>1. Stepper(n, Seq(MtlRec), step)
      BY <2>1 DEF Stepper
    <3> QED  BY <1>1, <2>e, <3>1, Recursion
  <2>3. /\ g \in [0 .. n -> Seq(MtlRec)] /\ g[0] = <<>>
        /\ \A k \in 1 .. n : g[k] = step[k][g[k - 1]]
    BY <2>2 DEF Solves
  <2> DEFINE rhs == [k \in 0 .. n |->
                       IF k = 0 THEN <<>> ELSE MtlLine(g[k - 1], MtlFile[k])]
  <2>4. ASSUME NEW k \in 0 .. n  PROVE  g[k] = rhs[k]
    <3>1. CASE k = 0
      BY <2>3, <3>1
    <3>2. CASE k # 0
      <4>1. k \in 1 .. n /\ k - 1 \in 0 .. n
        BY <3>2
      <4>2. g[k - 1] \in Seq(MtlRec)
        BY <2>3, <4>1
      <4>3. g[k] = MtlLine(g[k - 1], MtlFile[k])
        BY <2>1, <2>3, <4>1, <4>2
      <4> QED  BY <3>2, <4>3
    <3> QED  BY <3>1, <3>2
  <2>5. g = rhs
    BY <2>3, <2>4
  <2>6. Eq(g)
    BY <2>5
  <2> HIDE DEF Eq
  <2> QED  BY <2>6
<1>3. MtlRead = CHOOSE f : Eq(f)
  BY <1>1 DEF MtlRead
<1>4. Eq(MtlRead)
  <2> HIDE DEF Eq
  <2> QED  BY <1>2, <1>3
<1> DEFINE V == {k \in 0 .. n : /\ MtlRead[k] \in Seq(MtlRec)
                               /\ NamesOf(MtlRead[k]) = DefinedBy(k)}
<1>5. 0 \in V
  <2>1. MtlRead[0] = <<>>
    BY <1>1, <1>4
  <2>2. <<>> \in Seq(MtlRec) /\ DOMAIN <<>> = {}
    OBVIOUS
  <2>3. NamesOf(<<>>) = {}
    BY <2>2 DEF NamesOf
  <2>4. DefinedBy(0) = {}
    BY DEF DefinedBy
  <2>5. MtlRead[0] \in Seq(MtlRec) /\ NamesOf(MtlRead[0]) = DefinedBy(0)
    BY <2>1, <2>2, <2>3, <2>4
  <2>6. 0 \in 0 .. n
    BY <1>1
  <2> QED  BY <2>5, <2>6
<1>6. ASSUME NEW k \in 1 .. n, k - 1 \in V  PROVE  k \in V
  <2>1. k \in 0 .. n /\ k # 0 /\ k - 1 \in 0 .. n
    OBVIOUS
  <2>2. MtlRead[k] = MtlLine(MtlRead[k - 1], MtlFile[k])
    BY <1>4, <2>1
  <2>3. MtlRead[k - 1] \in Seq(MtlRec) /\ NamesOf(MtlRead[k - 1]) = DefinedBy(k - 1)
    BY <1>6
  <2>4. /\ MtlRead[k] \in Seq(MtlRec)
        /\ NamesOf(MtlRead[k])
             = DefinedBy(k - 1) \union (IF MtlFile[k].kind = "newmtl"
                                        THEN {MtlFile[k].arg} ELSE {})
    <3>1. k \in DOMAIN MtlFile
      BY <1>1
    <3>2. PICK x \in Seq(MtlRec) : x = MtlRead[k - 1] /\ NamesOf(x) = DefinedBy(k - 1)
      BY <2>3
    <3> QED  BY <2>2, <3>1, <3>2, MtlLineType
  <2>5. DefinedBy(k) = DefinedBy(k - 1) \union (IF MtlFile[k].kind = "newmtl"
                                                THEN {MtlFile[k].arg} ELSE {})
    <3>1. \A j : j \in 1 .. k <=> (j \in 1 .. k - 1 \/ j = k)
      OBVIOUS
    <3> QED  BY <3>1 DEF DefinedBy
  <2> QED  BY <2>1, <2>4, <2>5
<1> HIDE DEF V
<1>7. n \in V
  <2>1. \A k \in 1 .. n : k - 1 \in V => k \in V
    BY <1>6
  <2>2. \A k \in 0 .. n : k \in V
    BY <1>1, <1>5, <2>1, UpTo, Zenon
  <2> QED  BY <1>1, <2>2
<1>8. DefinedBy(n) = Defined
  BY <1>1 DEF DefinedBy, Defined
<1> QED  BY <1>1, <1>7, <1>8 DEF V

\* A one-to-one map onto a set counts it.
LEMMA OneToOne ==
  ASSUME NEW S, NEW T, NEW f \in [S -> T], IsFiniteSet(S),
         \A x, y \in S : f[x] = f[y] => x = y, \A y \in T : \E x \in S : f[x] = y
  PROVE  Cardinality(T) = Cardinality(S)
<1>1. f \in Injection(S, T)
  BY DEF Injection, IsInjective
<1>2. f \in Surjection(S, T)
  BY DEF Surjection
<1>3. ExistsBijection(S, T)
  BY <1>1, <1>2 DEF ExistsBijection, Bijection
<1> QED  BY <1>3, FS_Bijection

\* Of the materials, those with a name in U, and of two of a name the last.
Taken(U, mats) ==
  {k \in DOMAIN mats :
     /\ mats[k].name \in U
     /\ \A j \in DOMAIN mats : j > k => mats[j].name # mats[k].name}

\* Every name of U that there is is taken over, once.
LEMMA TakenOnce ==
  ASSUME NEW mats \in Seq(MtlRec), NEW U, U \subseteq NamesOf(mats)
  PROVE  /\ IsFiniteSet(Taken(U, mats))
         /\ \A u \in U : \E k \in Taken(U, mats) : mats[k].name = u
         /\ \A j, k \in Taken(U, mats) : mats[j].name = mats[k].name => j = k
<1>1. PICK n \in Nat : n = Len(mats) /\ DOMAIN mats = 1 .. n
  OBVIOUS
<1>2. PICK K : K = Taken(U, mats) /\ K \subseteq 1 .. n
  BY <1>1 DEF Taken
<1>3. IsFiniteSet(K)
  <2>1. IsFiniteSet(1 .. n)
    BY <1>1, FS_Interval
  <2> QED  BY <1>2, <2>1, FS_Subset
<1>4. ASSUME NEW u \in U  PROVE  \E k \in K : mats[k].name = u
  <2>1. PICK B : B = {i \in 1 .. n : mats[i].name = u}
    OBVIOUS
  <2>2. B # {} /\ \A i \in B : i \in Nat /\ i <= n
    BY <1>1, <1>4, <2>1 DEF NamesOf
  <2>3. PICK k \in B : \A i \in B : i <= k
    BY <1>1, <2>2, Greatest
  <2>4. \A j \in 1 .. n : j > k => mats[j].name # mats[k].name
    BY <2>1, <2>2, <2>3
  <2>5. k \in K
    BY <1>1, <1>2, <1>4, <2>1, <2>3, <2>4 DEF Taken
  <2> QED  BY <2>1, <2>3, <2>5
<1>5. ASSUME NEW j \in K, NEW k \in K, mats[j].name = mats[k].name  PROVE  j = k
  <2>1. j \in 1 .. n /\ k \in 1 .. n
    BY <1>2
  <2>2. ~ (j > k) /\ ~ (k > j)
    BY <1>1, <1>2, <1>5, <2>1 DEF Taken
  <2> QED  BY <2>1, <2>2
<1> QED  BY <1>2, <1>3, <1>4, <1>5

LEMMA ConvertedOnce ==
  ASSUME NEW mats \in Seq(MtlRec), NEW ps, Used(ps) \subseteq NamesOf(mats)
  PROVE  /\ {x.name : x \in ConvertedMaterials(ps, mats)} = Used(ps)
         /\ Cardinality(ConvertedMaterials(ps, mats)) = Cardinality(Used(ps))
<1>1. PICK U : U = Used(ps) /\ U \subseteq NamesOf(mats)
  OBVIOUS
<1>2. PICK K : K = Taken(U, mats)
  OBVIOUS
<1>3. /\ IsFiniteSet(K)
      /\ \A u \in U : \E k \in K : mats[k].name = u
      /\ \A j, k \in K : mats[j].name = mats[k].name => j = k
      /\ \A k \in K : mats[k].name \in U
  <2>1. \A k \in K : mats[k].name \in U
    BY <1>2 DEF Taken
  <2> QED  BY <1>1, <1>2, <2>1, TakenOnce
<1> DEFINE r == [k \in K |-> [name |-> mats[k].name, alpha |-> 1 - mats[k].tr,
                              map |-> mats[k].map]]
           name == [k \in K |-> mats[k].name]
           T == {r[k] : k \in K}
<1>4. ConvertedMaterials(ps, mats) = T
  BY <1>1, <1>2 DEF ConvertedMaterials, Taken
<1>5. \A k \in K : r[k].name = mats[k].name
  OBVIOUS
<1>6. Cardinality(T) = Cardinality(K)
  <2>1. r \in [K -> T]
    OBVIOUS
  <2> HIDE DEF r
  <2>2. \A j, k \in K : r[j] = r[k] => j = k
    BY <1>3, <1>5
  <2>3. \A y \in T : \E k \in K : r[k] = y
    OBVIOUS
  <2> HIDE DEF T
  <2> QED  BY <1>3, <2>1, <2>2, <2>3, OneToOne
<1>7. Cardinality(U) = Cardinality(K)
  <2>1. name \in [K -> U]
    BY <1>3
  <2>2. \A j, k \in K : name[j] = name[k] => j = k
    BY <1>3
  <2>3. \A y \in U : \E k \in K : name[k] = y
    BY <1>3
  <2> HIDE DEF name
  <2> QED  BY <1>3, <2>1, <2>2, <2>3, OneToOne
<1>8. {x.name : x \in T} = U
  <2> HIDE DEF r
  <2> QED  BY <1>3, <1>5
<1> HIDE DEF T
<1> QED  BY <1>1, <1>4, <1>6, <1>7, <1>8

\* THEOREM: where the file names its mtl file and every face has a material
\* defined there, the model has the material of each of its subsets, once,
\* and no other.
THEOREM ImportMaterials == Spec => []MaterialsFound
<1>1. ASSUME TypeOK, Laid  PROVE  MaterialsFound
  <2> SUFFICES ASSUME mtllib, \A k \in FaceLines : Material(k) \in Defined
               PROVE  LET m == Model(TRUE)
                      IN  /\ {x.name : x \in m.mats} = Used(m.parts)
                          /\ Cardinality(m.mats) = Cardinality(Used(m.parts))
    BY DEF MaterialsFound
  <2>1. PICK mats \in Seq(MtlRec) :
          mats = MtlRead[Len(MtlFile)] /\ NamesOf(mats) = Defined
    BY MtlReadIs
  <2>2. PICK ps : ps = ConvertedParts
    OBVIOUS
  <2>3. Used(ps) \subseteq Defined
    <3> SUFFICES ASSUME NEW p \in DOMAIN ps, NEW i \in DOMAIN ps[p]
                 PROVE  ps[p][i].mat \in Defined
      BY DEF Used
    <3>1. PICK j \in Nat, m \in Nat :
            /\ There(parts, j, m) /\ parts[j][m].faces # <<>>
            /\ ps[p][i] = ConvertedSubset(parts[j][m])
      BY <1>1, <2>2, ConvertedSource
    <3>2. PICK s : s = parts[j][m]
      OBVIOUS
    <3>3. ps[p][i].mat = s.mat
      BY <3>1, <3>2 DEF ConvertedSubset
    <3>4. PICK k \in FaceLines : Material(k) = Named(s.mat)
      BY <1>1, <3>1, <3>2, OfLines DEF Laid, Layout, Sourced
    <3>5. Named(s.mat) \in Defined
      BY <3>4
    <3>6. Default \notin Defined
      BY ObjAssumption DEF Defined
    <3> QED  BY <3>3, <3>5, <3>6 DEF Named
  <2>4. Model(TRUE).parts = ps /\ Model(TRUE).mats = ConvertedMaterials(ps, mats)
    BY <2>1, <2>2 DEF Model, Materials
  <2>5. /\ {x.name : x \in ConvertedMaterials(ps, mats)} = Used(ps)
        /\ Cardinality(ConvertedMaterials(ps, mats)) = Cardinality(Used(ps))
    BY <2>1, <2>3, ConvertedOnce
  <2> QED  BY <2>4, <2>5
<1> QED  BY <1>1, ObjTypes, LaidAlways, PTL

-----------------------------------------------------------------------------
(* The triangles of the parts *)

Point    == [v : Int, t : Int, n : Int]
Triangle == [object : Int, mat : MtlNames, corners : [1 .. 3 -> Point]]
Triple   == [1 .. 3 -> Vertex]

CornerOf(form, c) == [v |-> Fetch(c.v),
                      t |-> IF HasUv(form) THEN Fetch(c.t) ELSE Absent,
                      n |-> IF HasNormal(form) THEN Fetch(c.n) ELSE Absent]

\* One triple of vertices, and a sequence of them, of the object and material.
Drawn(o, m, form, x) == [object |-> o - 1, mat |-> m,
                         corners |-> [c \in 1 .. 3 |-> CornerOf(form, x[c])]]
AllDrawn(o, m, form, fans) == [k \in DOMAIN fans |-> Drawn(o, m, form, fans[k])]

LEMMA DrawnType ==
  ASSUME NEW o \in Int, NEW m \in MtlNames, NEW form, NEW x \in Triple
  PROVE  Drawn(o, m, form, x) \in Triangle
<1>1. ASSUME NEW k \in Int  PROVE  Fetch(k) \in Int
  BY DEF Fetch, Outside
<1>2. ASSUME NEW c \in Vertex  PROVE  CornerOf(form, c) \in Point
  BY <1>1, <1>2 DEF CornerOf, Vertex, Point, Absent
<1>3. \A c \in 1 .. 3 : x[c] \in Vertex
  BY DEF Triple
<1>4. [c \in 1 .. 3 |-> CornerOf(form, x[c])] \in [1 .. 3 -> Point]
  BY <1>2, <1>3
<1> QED  BY <1>4 DEF Drawn, Triangle

LEMMA AllDrawnType ==
  ASSUME NEW o \in Int, NEW m \in MtlNames, NEW form, NEW fans \in Seq(Triple)
  PROVE  /\ AllDrawn(o, m, form, fans) \in Seq(Triangle)
         /\ Len(AllDrawn(o, m, form, fans)) = Len(fans)
         /\ \A k \in 1 .. Len(fans) :
              AllDrawn(o, m, form, fans)[k] = Drawn(o, m, form, fans[k])
<1>1. PICK n \in Nat : n = Len(fans) /\ DOMAIN fans = 1 .. n
  OBVIOUS
<1>2. ASSUME NEW k \in 1 .. n  PROVE  Drawn(o, m, form, fans[k]) \in Triangle
  BY <1>1, ElementOfSeq, DrawnType
<1>3. AllDrawn(o, m, form, fans) = [k \in 1 .. n |-> Drawn(o, m, form, fans[k])]
  BY <1>1 DEF AllDrawn
<1> QED  BY <1>1, <1>2, <1>3

LEMMA DrawnConcat ==
  ASSUME NEW o \in Int, NEW m \in MtlNames, NEW form,
         NEW a \in Seq(Triple), NEW b \in Seq(Triple)
  PROVE  AllDrawn(o, m, form, a \o b)
           = AllDrawn(o, m, form, a) \o AllDrawn(o, m, form, b)
<1>1. PICK n, h \in Nat : n = Len(a) /\ h = Len(b)
  OBVIOUS
<1>2. PICK ab \in Seq(Triple) : ab = a \o b
  BY ConcatProperties
<1>3. /\ Len(ab) = n + h
      /\ \A i \in 1 .. n + h : ab[i] = IF i <= n THEN a[i] ELSE b[i - n]
  BY <1>1, <1>2, ConcatProperties
<1>4. PICK x \in Seq(Triangle) : x = AllDrawn(o, m, form, a)
  BY AllDrawnType
<1>5. PICK y \in Seq(Triangle) : y = AllDrawn(o, m, form, b)
  BY AllDrawnType
<1>6. PICK z \in Seq(Triangle) : z = AllDrawn(o, m, form, ab)
  BY <1>2, AllDrawnType
<1>7. Len(x) = n /\ \A i \in 1 .. n : x[i] = Drawn(o, m, form, a[i])
  BY <1>1, <1>4, AllDrawnType
<1>8. Len(y) = h /\ \A i \in 1 .. h : y[i] = Drawn(o, m, form, b[i])
  BY <1>1, <1>5, AllDrawnType
<1>9. Len(z) = n + h /\ \A i \in 1 .. n + h : z[i] = Drawn(o, m, form, ab[i])
  <2>1. /\ Len(z) = Len(ab)
        /\ \A i \in 1 .. Len(ab) : z[i] = Drawn(o, m, form, ab[i])
    BY ZenonT(40), <1>2, <1>6, AllDrawnType
  <2> QED  BY <1>3, <2>1
<1>10. PICK w \in Seq(Triangle) : w = x \o y
  BY <1>4, <1>5, ConcatProperties
<1>11. /\ Len(w) = n + h
       /\ \A i \in 1 .. n + h : w[i] = IF i <= n THEN x[i] ELSE y[i - n]
  <2>1. /\ Len(w) = Len(x) + Len(y)
        /\ \A i \in 1 .. Len(x) + Len(y) :
             w[i] = IF i <= Len(x) THEN x[i] ELSE y[i - Len(x)]
    BY <1>4, <1>5, <1>10, ConcatProperties
  <2> QED  BY <1>7, <1>8, <2>1
<1>12. ASSUME NEW i \in 1 .. n + h  PROVE  z[i] = w[i]
  <2>1. CASE i <= n
    <3>1. i \in 1 .. n
      BY <1>1, <2>1
    <3> QED  BY <1>3, <1>7, <1>9, <1>11, <2>1, <3>1
  <2>2. CASE ~ (i <= n)
    <3>1. i - n \in 1 .. h
      BY <1>1, <2>2
    <3> QED  BY <1>3, <1>8, <1>9, <1>11, <2>2, <3>1
  <2> QED  BY <2>1, <2>2
<1>13. z = w
  BY <1>6, <1>9, <1>10, <1>11, <1>12, SeqEqual
<1> QED  BY <1>2, <1>4, <1>5, <1>6, <1>10, <1>13

\* The triangles of a subset of part o, of a part, and of all parts.
SubsetTris(o, s) == AllDrawn(o, Named(s.mat), s.form, FlattenSeq(Fans(s)))
PartTris(o, q)   == FlattenSeq([i \in DOMAIN q |-> SubsetTris(o, q[i])])
AllTris(ps)      == FlattenSeq([p \in DOMAIN ps |-> PartTris(p, ps[p])])

LEMMA NamedType ==
  ASSUME NEW m \in MtlNames
  PROVE  Named(m) \in MtlNames
BY DEF Named, MtlNames

LEMMA SubsetTrisType ==
  ASSUME NEW o \in Int, NEW s \in Batch
  PROVE  /\ SubsetTris(o, s) \in Seq(Triangle)
         /\ s.faces = <<>> => SubsetTris(o, s) = <<>>
<1>1. Named(s.mat) \in MtlNames /\ FlattenSeq(Fans(s)) \in Seq(Triple)
  BY NamedType, FansType DEF Batch, Triple
<1>2. ASSUME s.faces = <<>>  PROVE  SubsetTris(o, s) = <<>>
  <2>1. Len(Fans(s)) = 0 /\ Fans(s) \in Seq(Seq(Triple))
    BY <1>2, FansType DEF Triple
  <2>2. Fans(s) = <<>>
    BY <2>1, EmptySeq
  <2>3. FlattenSeq(Fans(s)) = <<>>
    BY <2>2, FlattenEmpty
  <2>4. SubsetTris(o, s) \in Seq(Triangle) /\ Len(SubsetTris(o, s)) = Len(<<>>)
    BY <1>1, <2>3, AllDrawnType DEF SubsetTris
  <2> QED  BY <2>4, EmptySeq
<1> QED  BY <1>1, <1>2, AllDrawnType DEF SubsetTris

\* What a face adds, if it has the form of those before it.
LEMMA FacedTris ==
  ASSUME NEW o \in Int, NEW s \in Batch, NEW f \in Faces, NEW form,
         Faced(s, f).form = form, s.faces = <<>> \/ s.form = form
  PROVE  /\ AllDrawn(o, Named(s.mat), form, Fan(ParsedFace(f))) \in Seq(Triangle)
         /\ SubsetTris(o, Faced(s, f))
              = SubsetTris(o, s)
                  \o AllDrawn(o, Named(s.mat), form, Fan(ParsedFace(f)))
<1>1. PICK t \in Batch : /\ t = Faced(s, f) /\ t.mat = s.mat /\ t.form = form
                         /\ t.faces = Append(s.faces, ParsedFace(f))
  BY FacedType
<1>2. PICK x \in Seq(Triple) : x = Fan(ParsedFace(f))
  BY ParsedType, FanType DEF Triple
<1>3. PICK F \in Seq(Seq(Triple)) : F = Fans(s)
  BY FansType DEF Triple
<1>4. Fans(t) = Append(F, x)
  <2>1. PICK fs \in Seq(Seq(Vertex)), n \in Nat :
          fs = s.faces /\ n = Len(fs) /\ DOMAIN fs = 1 .. n
    BY DEF Batch
  <2>2. PICK face \in Seq(Vertex) : face = ParsedFace(f)
    BY ParsedType
  <2>3. PICK gs : gs = t.faces
    OBVIOUS
  <2>4. /\ gs \in Seq(Seq(Vertex)) /\ Len(gs) = n + 1 /\ gs[n + 1] = face
        /\ \A k \in 1 .. n : gs[k] = fs[k]
    BY <1>1, <2>1, <2>2, <2>3, AppendProperties
  <2>5. DOMAIN gs = 1 .. n + 1
    BY <2>4, LenProperties
  <2>6. /\ Len(F) = n /\ \A k \in 1 .. n : F[k] = Fan(fs[k])
    BY <1>3, <2>1, FansType
  <2>7. /\ Fans(t) \in Seq(Seq(Triple)) /\ Len(Fans(t)) = n + 1
        /\ \A k \in 1 .. n + 1 : Fans(t)[k] = Fan(gs[k])
    BY <1>1, <2>3, <2>4, <2>5, FansType DEF Triple
  <2>8. PICK G : G = Append(F, x)
    OBVIOUS
  <2>9. /\ G \in Seq(Seq(Triple)) /\ Len(G) = n + 1 /\ G[n + 1] = x
        /\ \A k \in 1 .. n : G[k] = F[k]
    BY <1>2, <1>3, <2>6, <2>8, AppendProperties
  <2>10. ASSUME NEW k \in 1 .. n + 1  PROVE  Fans(t)[k] = G[k]
    <3>1. CASE k = n + 1
      BY <1>2, <2>2, <2>4, <2>7, <2>9, <3>1
    <3>2. CASE k \in 1 .. n
      BY <2>4, <2>6, <2>7, <2>9, <3>2
    <3> QED  BY <2>1, <3>1, <3>2
  <2> QED  BY <2>7, <2>8, <2>9, <2>10, SeqEqual
<1>5. FlattenSeq(Fans(t)) = FlattenSeq(F) \o x /\ FlattenSeq(F) \in Seq(Triple)
  BY <1>2, <1>3, <1>4, FlattenAppend, FlattenType
<1>6. Named(s.mat) \in MtlNames
  BY NamedType DEF Batch
<1>7. SubsetTris(o, t)
        = AllDrawn(o, Named(s.mat), form, FlattenSeq(F))
            \o AllDrawn(o, Named(s.mat), form, x)
  <2>1. PICK a \in Seq(Triple) : a = FlattenSeq(F)
    BY <1>5
  <2>2. AllDrawn(o, Named(s.mat), form, a \o x)
          = AllDrawn(o, Named(s.mat), form, a) \o AllDrawn(o, Named(s.mat), form, x)
    BY ZenonT(40), <1>2, <1>6, <2>1, DrawnConcat
  <2>3. SubsetTris(o, t) = AllDrawn(o, Named(s.mat), form, a \o x)
    BY <1>1, <1>5, <2>1 DEF SubsetTris
  <2> QED  BY <2>1, <2>2, <2>3
<1>8. AllDrawn(o, Named(s.mat), form, FlattenSeq(F)) = SubsetTris(o, s)
  <2>1. CASE s.form = form
    BY <1>3, <2>1 DEF SubsetTris
  <2>2. CASE s.faces = <<>>
    <3>1. SubsetTris(o, s) = <<>> /\ SubsetTris(o, s) \in Seq(Triangle)
      BY <2>2, SubsetTrisType
    <3>2. Len(FlattenSeq(F)) = 0
      <4>1. Len(SubsetTris(o, s)) = Len(FlattenSeq(F))
        BY <1>3, <1>5, <1>6, AllDrawnType DEF SubsetTris
      <4> QED  BY <3>1, <4>1
    <3>3. /\ AllDrawn(o, Named(s.mat), form, FlattenSeq(F)) \in Seq(Triangle)
          /\ Len(AllDrawn(o, Named(s.mat), form, FlattenSeq(F))) = 0
      BY <1>5, <1>6, <3>2, AllDrawnType
    <3> QED  BY <3>1, <3>3, EmptySeq
  <2> QED  BY <2>1, <2>2
<1> QED  BY <1>1, <1>2, <1>6, <1>7, <1>8, AllDrawnType

\* A sequence with one more element.
LEMMA AppendIs ==
  ASSUME NEW A, NEW x \in Seq(A), NEW y \in Seq(A), NEW e \in A,
         Len(y) = Len(x) + 1, y[Len(x) + 1] = e, \A k \in 1 .. Len(x) : y[k] = x[k]
  PROVE  y = Append(x, e)
<1>1. PICK n \in Nat : n = Len(x)
  OBVIOUS
<1>2. PICK z : z = Append(x, e)
  OBVIOUS
<1>3. /\ z \in Seq(A) /\ Len(z) = n + 1 /\ z[n + 1] = e
      /\ \A k \in 1 .. n : z[k] = x[k]
  BY <1>1, <1>2, AppendProperties
<1>4. ASSUME NEW k \in 1 .. n + 1  PROVE  y[k] = z[k]
  <2>1. k \in 1 .. n \/ k = n + 1
    BY <1>1
  <2> QED  BY <1>1, <1>3, <2>1
<1>5. Len(y) = n + 1
  BY <1>1
<1>6. y = z
  BY <1>3, <1>4, <1>5, SeqEqual
<1> QED  BY <1>2, <1>6

\* Another subset, and another part.
LEMMA PartTrisAppend ==
  ASSUME NEW o \in Int, NEW u \in Seq(Batch), NEW s \in Batch
  PROVE  /\ PartTris(o, u) \in Seq(Triangle)
         /\ [i \in DOMAIN u |-> SubsetTris(o, u[i])] \in Seq(Seq(Triangle))
         /\ PartTris(o, Append(u, s)) = PartTris(o, u) \o SubsetTris(o, s)
<1> DEFINE Of(q) == [i \in DOMAIN q |-> SubsetTris(o, q[i])]
<1>1. ASSUME NEW q \in Seq(Batch)
      PROVE  /\ Of(q) \in Seq(Seq(Triangle)) /\ Len(Of(q)) = Len(q)
             /\ \A k \in 1 .. Len(q) : Of(q)[k] = SubsetTris(o, q[k])
  <2>1. PICK n \in Nat : n = Len(q) /\ DOMAIN q = 1 .. n
    OBVIOUS
  <2>2. ASSUME NEW k \in 1 .. n  PROVE  SubsetTris(o, q[k]) \in Seq(Triangle)
    BY <2>1, ElementOfSeq, SubsetTrisType
  <2>3. Of(q) = [k \in 1 .. n |-> SubsetTris(o, q[k])]
    BY <2>1
  <2> HIDE DEF Of
  <2> QED  BY <2>1, <2>2, <2>3
<1>2. PICK q \in Seq(Batch) : q = Append(u, s)
  BY AppendProperties
<1>3. PICK n \in Nat : n = Len(u)
  OBVIOUS
<1>4. Len(q) = n + 1 /\ q[n + 1] = s /\ \A k \in 1 .. n : q[k] = u[k]
  BY <1>2, <1>3, AppendProperties
<1>5. SubsetTris(o, s) \in Seq(Triangle)
  BY SubsetTrisType
<1>6. Of(q) = Append(Of(u), SubsetTris(o, s))
  <2>1. /\ Of(u) \in Seq(Seq(Triangle)) /\ Len(Of(u)) = n
        /\ \A k \in 1 .. n : Of(u)[k] = SubsetTris(o, u[k])
    BY <1>1, <1>3
  <2>2. /\ Of(q) \in Seq(Seq(Triangle)) /\ Len(Of(q)) = n + 1
        /\ \A k \in 1 .. n + 1 : Of(q)[k] = SubsetTris(o, q[k])
    BY <1>1, <1>2, <1>4
  <2> HIDE DEF Of
  <2>3. Of(q)[n + 1] = SubsetTris(o, s)
    BY <1>3, <1>4, <2>2
  <2>4. \A k \in 1 .. n : Of(q)[k] = Of(u)[k]
    BY <1>3, <1>4, <2>1, <2>2
  <2> QED  BY <1>5, <2>1, <2>2, <2>3, <2>4, AppendIs
<1>7. PartTris(o, q) = FlattenSeq(Of(q)) /\ PartTris(o, u) = FlattenSeq(Of(u))
  BY DEF PartTris
<1>8. Of(u) \in Seq(Seq(Triangle))
  BY <1>1
<1>9. FlattenSeq(Append(Of(u), SubsetTris(o, s))) = FlattenSeq(Of(u)) \o SubsetTris(o, s)
  BY <1>5, <1>8, FlattenAppend
<1> HIDE DEF Of
<1>10. PartTris(o, u) \in Seq(Triangle)
  BY <1>7, <1>8, FlattenType
<1>11. PartTris(o, Append(u, s)) = PartTris(o, u) \o SubsetTris(o, s)
  BY <1>2, <1>6, <1>7, <1>9
<1> QED  BY <1>8, <1>10, <1>11 DEF Of

LEMMA PartTrisType ==
  ASSUME NEW o \in Int, NEW u \in Seq(Batch)
  PROVE  /\ PartTris(o, u) \in Seq(Triangle)
         /\ [i \in DOMAIN u |-> SubsetTris(o, u[i])] \in Seq(Seq(Triangle))
<1>1. Subset(Unnamed) \in Batch
  BY SubsetType DEF MtlNames
<1> QED  BY <1>1, PartTrisAppend

LEMMA AllTrisAppend ==
  ASSUME NEW r \in Seq(Part), NEW q \in Part
  PROVE  /\ AllTris(r) \in Seq(Triangle)
         /\ [p \in DOMAIN r |-> PartTris(p, r[p])] \in Seq(Seq(Triangle))
         /\ AllTris(Append(r, q)) = AllTris(r) \o PartTris(Len(r) + 1, q)
<1> DEFINE Of(ps) == [p \in DOMAIN ps |-> PartTris(p, ps[p])]
<1>1. ASSUME NEW ps \in Seq(Part)
      PROVE  /\ Of(ps) \in Seq(Seq(Triangle)) /\ Len(Of(ps)) = Len(ps)
             /\ \A k \in 1 .. Len(ps) : Of(ps)[k] = PartTris(k, ps[k])
  <2>1. PICK n \in Nat : n = Len(ps) /\ DOMAIN ps = 1 .. n
    OBVIOUS
  <2>2. ASSUME NEW k \in 1 .. n  PROVE  PartTris(k, ps[k]) \in Seq(Triangle)
    <3>1. ps[k] \in Seq(Batch) /\ k \in Int
      BY <2>1, ElementOfSeq DEF Part
    <3> QED  BY <3>1, PartTrisType
  <2>3. Of(ps) = [k \in 1 .. n |-> PartTris(k, ps[k])]
    BY <2>1
  <2> HIDE DEF Of
  <2> QED  BY <2>1, <2>2, <2>3
<1>2. PICK ps \in Seq(Part) : ps = Append(r, q)
  BY AppendProperties
<1>3. PICK n \in Nat : n = Len(r)
  OBVIOUS
<1>4. Len(ps) = n + 1 /\ ps[n + 1] = q /\ \A k \in 1 .. n : ps[k] = r[k]
  BY <1>2, <1>3, AppendProperties
<1>5. PICK e \in Seq(Triangle) : e = PartTris(n + 1, q)
  <2>1. n + 1 \in Int /\ q \in Seq(Batch)
    BY <1>3 DEF Part
  <2> QED  BY <2>1, PartTrisType
<1>6. Of(ps) = Append(Of(r), e)
  <2>1. /\ Of(r) \in Seq(Seq(Triangle)) /\ Len(Of(r)) = n
        /\ \A k \in 1 .. n : Of(r)[k] = PartTris(k, r[k])
    BY <1>1, <1>3
  <2>2. /\ Of(ps) \in Seq(Seq(Triangle)) /\ Len(Of(ps)) = n + 1
        /\ \A k \in 1 .. n + 1 : Of(ps)[k] = PartTris(k, ps[k])
    BY <1>1, <1>2, <1>4
  <2> HIDE DEF Of
  <2>3. Of(ps)[n + 1] = e
    BY <1>3, <1>4, <1>5, <2>2
  <2>4. \A k \in 1 .. n : Of(ps)[k] = Of(r)[k]
    BY <1>3, <1>4, <2>1, <2>2
  <2> QED  BY <1>5, <2>1, <2>2, <2>3, <2>4, AppendIs
<1>7. AllTris(ps) = FlattenSeq(Of(ps)) /\ AllTris(r) = FlattenSeq(Of(r))
  BY DEF AllTris
<1>8. Of(r) \in Seq(Seq(Triangle))
  BY <1>1
<1>9. FlattenSeq(Append(Of(r), e)) = FlattenSeq(Of(r)) \o e
  BY <1>5, <1>8, FlattenAppend
<1> HIDE DEF Of
<1>10. AllTris(r) \in Seq(Triangle)
  BY <1>7, <1>8, FlattenType
<1>11. AllTris(Append(r, q)) = AllTris(r) \o PartTris(Len(r) + 1, q)
  BY <1>2, <1>3, <1>5, <1>6, <1>7, <1>9
<1> QED  BY <1>8, <1>10, <1>11 DEF Of

-----------------------------------------------------------------------------
(* The triangles that the lines mean *)

MeantTriangle(f, i, o, m) ==
  [object |-> o, mat |-> m,
   corners |-> <<MeantCorner(f, 1), MeantCorner(f, i + 1), MeantCorner(f, i + 2)>>]
FaceMeans(f, o, m) == [i \in 1 .. Len(f.index) - 2 |-> MeantTriangle(f, i, o, m)]
LineMeans(l, o, m) == IF l.kind = "f" THEN FaceMeans(l.face, o, m) ELSE <<>>
MeantOf(ls) ==
  FlattenSeq([k \in DOMAIN ls |->
                LineMeans(ls[k], ObjectIn(ls, k), MaterialIn(ls, k))])

LEMMA MeantIs == MeantTriangles = MeantOf(lines)
<1> DEFINE means == [k \in DOMAIN lines |->
                       LineMeans(lines[k], ObjectIn(lines, k), MaterialIn(lines, k))]
           meant == [k \in DOMAIN lines |->
                       IF k \in FaceLines
                         THEN LET f == lines[k].face
                              IN  [i \in 1 .. Len(f.index) - 2 |->
                                     [object |-> Object(k), mat |-> Material(k),
                                      corners |-> <<MeantCorner(f, 1),
                                                    MeantCorner(f, i + 1),
                                                    MeantCorner(f, i + 2)>>]]
                         ELSE <<>>]
<1>1. ASSUME NEW k \in DOMAIN lines  PROVE  means[k] = meant[k]
  <2>1. k \in FaceLines <=> lines[k].kind = "f"
    BY DEF FaceLines
  <2>2. ObjectIn(lines, k) = Object(k) /\ MaterialIn(lines, k) = Material(k)
    BY OfLines
  <2> QED  BY <2>1, <2>2 DEF LineMeans, FaceMeans, MeantTriangle
<1>2. means = meant
  BY <1>1
<1>3. MeantTriangles = FlattenSeq(meant)
  BY DEF MeantTriangles
<1>4. MeantOf(lines) = FlattenSeq(means)
  BY DEF MeantOf
<1> HIDE DEF means, meant
<1> QED  BY <1>2, <1>3, <1>4

LEMMA MaterialType ==
  ASSUME NEW ls \in Seq(Lines), NEW k \in 0 .. Len(ls)
  PROVE  MaterialIn(ls, k) \in Names \union {Default}
<1>1. CASE UsesIn(ls, k) = {}
  BY <1>1 DEF MaterialIn
<1>2. CASE UsesIn(ls, k) # {}
  <2>1. PICK U : U = UsesIn(ls, k) /\ U # {}
    BY <1>2
  <2>2. k \in Nat /\ \A j \in U : j \in Nat /\ j <= k
    BY <2>1 DEF UsesIn
  <2>3. PICK j : j = Latest(U)
    OBVIOUS
  <2>4. j \in U
    <3>1. \E i \in U : \A h \in U : h <= i
      BY <2>1, <2>2, Greatest
    <3> QED  BY <2>3, <3>1 DEF Latest
  <2>5. j \in 1 .. Len(ls) /\ ls[j].kind = "usemtl"
    <3>1. j \in 1 .. k /\ ls[j].kind = "usemtl"
      BY <2>1, <2>4 DEF UsesIn
    <3> QED  BY <3>1
  <2>6. ls[j] \in Lines
    BY <2>5, ElementOfSeq
  <2>7. ls[j].name \in Names
    BY <2>5, <2>6, LineTypes
  <2>8. MaterialIn(ls, k) = ls[j].name
    BY <2>1, <2>3 DEF MaterialIn
  <2> QED  BY <2>7, <2>8
<1> QED  BY <1>1, <1>2

LEMMA MeantCornerType ==
  ASSUME NEW f \in Faces, NEW i \in 1 .. Len(f.index)
  PROVE  MeantCorner(f, i) \in Point
<1>1. f.index \in Seq(Int \ {0})
  BY ObjAssumption
<1>2. f.index[i] \in Int
  BY <1>1, ElementOfSeq
<1>3. Meant(f.index[i]) \in Int
  BY <1>2, ObjAssumption DEF Meant
<1> QED  BY <1>3 DEF MeantCorner, Point, Absent

LEMMA LineMeansType ==
  ASSUME NEW l \in Lines, NEW o \in Int, NEW m \in MtlNames
  PROVE  LineMeans(l, o, m) \in Seq(Triangle)
<1>1. CASE l.kind # "f"
  BY <1>1 DEF LineMeans
<1>2. CASE l.kind = "f"
  <2>1. PICK f \in Faces : f = l.face
    BY <1>2, LineTypes
  <2>2. PICK n \in Nat : n = Len(f.index)
    BY ObjAssumption
  <2>3. ASSUME NEW i \in 1 .. n - 2  PROVE  MeantTriangle(f, i, o, m) \in Triangle
    <3>1. 1 \in 1 .. n /\ i + 1 \in 1 .. n /\ i + 2 \in 1 .. n
      BY <2>2
    <3>2. PICK a, b, c \in Point : /\ a = MeantCorner(f, 1)
                                   /\ b = MeantCorner(f, i + 1)
                                   /\ c = MeantCorner(f, i + 2)
      BY <2>1, <2>2, <3>1, MeantCornerType
    <3>3. <<a, b, c>> \in [1 .. 3 -> Point]
      BY <3>2
    <3> QED  BY <3>2, <3>3 DEF MeantTriangle, Triangle
  <2>4. PICK c \in Nat : 1 .. n - 2 = 1 .. c
    <3>1. CASE n >= 2
      <4>1. n - 2 \in Nat
        BY <2>2, <3>1
      <4> QED  BY <4>1
    <3>2. CASE n < 2
      <4>1. 1 .. n - 2 = 1 .. 0
        BY <2>2, <3>2
      <4> QED  BY <4>1
    <3> QED  BY <2>2, <3>1, <3>2
  <2>5. FaceMeans(f, o, m) = [i \in 1 .. c |-> MeantTriangle(f, i, o, m)]
    BY <2>2, <2>4 DEF FaceMeans
  <2>6. FaceMeans(f, o, m) \in Seq(Triangle)
    BY <2>3, <2>4, <2>5
  <2> QED  BY <1>2, <2>1, <2>6 DEF LineMeans
<1> QED  BY <1>1, <1>2

\* Another line.
LEMMA MeantAppend ==
  ASSUME NEW ls \in Seq(Lines), NEW l \in Lines
  PROVE  /\ MeantOf(ls) \in Seq(Triangle)
         /\ MeantOf(Append(ls, l))
              = MeantOf(ls)
                  \o LineMeans(l, ObjectIn(Append(ls, l), Len(ls) + 1),
                                  MaterialIn(Append(ls, l), Len(ls) + 1))
<1> DEFINE Of(x) == [k \in DOMAIN x |->
                       LineMeans(x[k], ObjectIn(x, k), MaterialIn(x, k))]
<1>1. ASSUME NEW x \in Seq(Lines)
      PROVE  /\ Of(x) \in Seq(Seq(Triangle)) /\ Len(Of(x)) = Len(x)
             /\ \A k \in 1 .. Len(x) :
                  Of(x)[k] = LineMeans(x[k], ObjectIn(x, k), MaterialIn(x, k))
  <2>1. PICK n \in Nat : n = Len(x) /\ DOMAIN x = 1 .. n
    OBVIOUS
  <2>2. ASSUME NEW k \in 1 .. n
        PROVE  LineMeans(x[k], ObjectIn(x, k), MaterialIn(x, k)) \in Seq(Triangle)
    <3>1. k \in 0 .. Len(x) /\ x[k] \in Lines
      BY <2>1, ElementOfSeq
    <3>2. ObjectIn(x, k) \in Int
      <4>1. ObjectIn(x, k) \in Nat
        BY <3>1, ObjectCount
      <4> QED  BY <4>1
    <3>3. MaterialIn(x, k) \in MtlNames
      BY <3>1, MaterialType, NamedCurrent
    <3> QED  BY <3>1, <3>2, <3>3, LineMeansType
  <2>3. Of(x) = [k \in 1 .. n |->
                   LineMeans(x[k], ObjectIn(x, k), MaterialIn(x, k))]
    BY <2>1
  <2> HIDE DEF Of
  <2> QED  BY <2>1, <2>2, <2>3
<1>2. PICK t \in Seq(Lines) : t = Append(ls, l)
  BY AppendProperties
<1>3. PICK n \in Nat : n = Len(ls)
  OBVIOUS
<1>4. Len(t) = n + 1 /\ t[n + 1] = l /\ \A k \in 1 .. n : t[k] = ls[k]
  BY <1>2, <1>3, AppendProperties
<1>5. PICK e : e = LineMeans(l, ObjectIn(t, n + 1), MaterialIn(t, n + 1))
  OBVIOUS
<1>6. Of(t) = Append(Of(ls), e) /\ e \in Seq(Triangle)
  <2>1. /\ Of(ls) \in Seq(Seq(Triangle)) /\ Len(Of(ls)) = n
        /\ \A k \in 1 .. n :
             Of(ls)[k] = LineMeans(ls[k], ObjectIn(ls, k), MaterialIn(ls, k))
    BY <1>1, <1>3
  <2>2. /\ Of(t) \in Seq(Seq(Triangle)) /\ Len(Of(t)) = n + 1
        /\ \A k \in 1 .. n + 1 :
             Of(t)[k] = LineMeans(t[k], ObjectIn(t, k), MaterialIn(t, k))
    BY <1>1, <1>2, <1>4
  <2> HIDE DEF Of
  <2>3. Of(t)[n + 1] = e
    BY <1>3, <1>4, <1>5, <2>2
  <2>4. ASSUME NEW k \in 1 .. n  PROVE  Of(t)[k] = Of(ls)[k]
    <3>1. k \in 0 .. n /\ k \in 1 .. n + 1
      BY <1>3
    <3>2. MaterialIn(t, k) = MaterialIn(ls, k) /\ ObjectIn(t, k) = ObjectIn(ls, k)
      BY <1>2, <1>3, <3>1, EarlierLine
    <3> QED  BY <1>4, <2>1, <2>2, <3>1, <3>2
  <2>5. e \in Seq(Triangle)
    <3>1. n + 1 \in 1 .. Len(Of(t))
      BY <1>3, <2>2
    <3> QED  BY <2>2, <2>3, <3>1, ElementOfSeq
  <2>6. PICK x \in Seq(Seq(Triangle)), y \in Seq(Seq(Triangle)) :
          x = Of(ls) /\ y = Of(t)
    BY <2>1, <2>2
  <2>7. /\ Len(y) = Len(x) + 1 /\ y[Len(x) + 1] = e
        /\ \A k \in 1 .. Len(x) : y[k] = x[k]
    BY <1>3, <2>1, <2>2, <2>3, <2>4, <2>6
  <2>8. y = Append(x, e)
    BY <2>5, <2>6, <2>7, AppendIs
  <2> QED  BY <2>5, <2>6, <2>8
<1>7. MeantOf(t) = FlattenSeq(Of(t)) /\ MeantOf(ls) = FlattenSeq(Of(ls))
  BY DEF MeantOf
<1>8. Of(ls) \in Seq(Seq(Triangle))
  BY <1>1
<1> HIDE DEF Of
<1>9. FlattenSeq(Append(Of(ls), e)) = FlattenSeq(Of(ls)) \o e
  BY <1>6, <1>8, FlattenAppend
<1>10. MeantOf(ls) \in Seq(Triangle)
  BY <1>7, <1>8, FlattenType
<1> QED  BY <1>2, <1>3, <1>5, <1>6, <1>7, <1>9, <1>10

\* The loader's indices of a plain face are the ones it means, unless it has
\* normals and no texture coordinates.
LEMMA MeantVertex ==
  ASSUME NEW f \in Faces, Plain(f), f.form # "v//n", NEW i \in 1 .. Len(f.index)
  PROVE  CornerOf(f.form, ParsedFace(f)[i]) = MeantCorner(f, i)
<1>1. f.index \in Seq(Int \ {0})
  BY ObjAssumption
<1>2. PICK k \in 1 .. NumVertices : k = f.index[i] /\ NumVertices \in Nat
  BY <1>1, ObjAssumption DEF Plain
<1>3. k \in Int /\ ~ (k < 0) /\ k - 1 \in 0 .. NumVertices - 1
  BY <1>2
<1>4. VertIndex(k) = k - 1 /\ UvIndex(k) = k - 1 /\ Fetch(k - 1) = k - 1 /\ Meant(k) = k - 1
  BY <1>3 DEF VertIndex, UvIndex, Fetch, Meant
<1>5. HasNormal(f.form) => HasUv(f.form)
  BY DEF HasNormal, HasUv
<1>6. ParsedFace(f)[i] = [v |-> VertIndex(k),
                          t |-> IF HasUv(f.form) THEN UvIndex(k) ELSE -1,
                          n |-> IF HasNormal(f.form)
                                  THEN NormalIndex(f.form, k) ELSE -1]
  <2>1. Count(f) = Len(f.index)
    BY CountType
  <2> QED  BY <1>2, <2>1 DEF ParsedFace
<1> QED  BY <1>2, <1>4, <1>5, <1>6 DEF CornerOf, MeantCorner, NormalIndex

LEMMA MeantFace ==
  ASSUME NEW f \in Faces, Plain(f), f.form # "v//n", NEW o \in Int, NEW m \in MtlNames
  PROVE  AllDrawn(o, m, f.form, Fan(ParsedFace(f))) = FaceMeans(f, o - 1, m)
<1>1. f.index \in Seq(Int \ {0})
  BY ObjAssumption
<1>2. PICK n \in Nat : n = Len(f.index) /\ n > 2
  BY <1>1 DEF Plain
<1>3. PICK x \in Seq(Vertex) : x = ParsedFace(f) /\ Len(x) = n
  BY <1>2, ParsedType, CountType
<1>4. PICK c \in Nat : c = n - 2
  <2>1. n - 2 \in Nat
    BY <1>2
  <2> QED  BY <2>1
<1>5. Fan(x) = [i \in 1 .. c |-> <<x[1], x[i + 1], x[i + 2]>>]
  BY <1>2, <1>3, <1>4 DEF Fan
<1>6. ASSUME NEW i \in 1 .. c
      PROVE  Drawn(o, m, f.form, Fan(x)[i]) = MeantTriangle(f, i, o - 1, m)
  <2>1. 1 \in 1 .. n /\ i + 1 \in 1 .. n /\ i + 2 \in 1 .. n
    BY <1>2, <1>4
  <2>2. /\ CornerOf(f.form, x[1]) = MeantCorner(f, 1)
        /\ CornerOf(f.form, x[i + 1]) = MeantCorner(f, i + 1)
        /\ CornerOf(f.form, x[i + 2]) = MeantCorner(f, i + 2)
    BY <1>2, <1>3, <2>1, MeantVertex
  <2>3. PICK a, b, d : a = x[1] /\ b = x[i + 1] /\ d = x[i + 2]
    OBVIOUS
  <2>4. Fan(x)[i] = <<a, b, d>>
    BY <1>5, <2>3
  <2>5. PICK A, B, D \in Point : /\ A = MeantCorner(f, 1)
                                 /\ B = MeantCorner(f, i + 1)
                                 /\ D = MeantCorner(f, i + 2)
    BY <1>2, <2>1, MeantCornerType
  <2>6. [j \in 1 .. 3 |-> CornerOf(f.form, <<a, b, d>>[j])] = <<A, B, D>>
    <3> DEFINE g == [j \in 1 .. 3 |-> CornerOf(f.form, <<a, b, d>>[j])]
    <3>1. g[1] = A /\ g[2] = B /\ g[3] = D
      BY <2>2, <2>3, <2>5
    <3>2. g \in Seq(Point) /\ Len(g) = 3
      <4>1. \A j \in 1 .. 3 : j = 1 \/ j = 2 \/ j = 3
        OBVIOUS
      <4>2. \A j \in 1 .. 3 : g[j] \in Point
        <5> HIDE DEF g
        <5> QED  BY <2>5, <3>1, <4>1
      <4> QED  BY <4>2
    <3>3. <<A, B, D>> \in Seq(Point) /\ Len(<<A, B, D>>) = 3
      BY <2>5
    <3>4. \A j \in 1 .. 3 : g[j] = <<A, B, D>>[j]
      <4>1. \A j \in 1 .. 3 : j = 1 \/ j = 2 \/ j = 3
        OBVIOUS
      <4> HIDE DEF g
      <4> QED  BY <3>1, <4>1
    <3> HIDE DEF g
    <3>5. g = <<A, B, D>>
      BY <3>2, <3>3, <3>4, SeqEqual
    <3> QED  BY <3>5 DEF g
  <2> QED  BY <2>4, <2>5, <2>6 DEF Drawn, MeantTriangle
<1>7. DOMAIN Fan(x) = 1 .. c
  BY <1>5
<1>8. AllDrawn(o, m, f.form, Fan(x)) = [i \in 1 .. c |-> MeantTriangle(f, i, o - 1, m)]
  BY <1>6, <1>7 DEF AllDrawn
<1> QED  BY <1>2, <1>3, <1>4, <1>8 DEF FaceMeans

-----------------------------------------------------------------------------
(* The parts have the triangles the lines mean *)

Readable(ls) == \A k \in FaceLinesIn(ls) : /\ Plain(ls[k].face)
                                           /\ ls[k].face.form # "v//n"
UniformIn(ls) == \A j, k \in FaceLinesIn(ls) :
                   j < k /\ SameSubsetIn(ls, j, k) =>
                     ls[j].face.form = ls[k].face.form

Told(ls, ps) == Readable(ls) /\ UniformIn(ls) => AllTris(ps) = MeantOf(ls)

\* What is asked of a file is asked of its beginnings.
LEMMA Beginning ==
  ASSUME NEW ls \in Seq(Lines), NEW l \in Lines,
         Readable(Append(ls, l)), UniformIn(Append(ls, l))
  PROVE  /\ Readable(ls) /\ UniformIn(ls) /\ PlainIn(ls)
         /\ l.kind = "f" =>
              /\ Plain(l.face) /\ l.face.form # "v//n"
              /\ \A k \in FaceLinesIn(ls) :
                   SameSubsetIn(ls, k, Len(ls)) => ls[k].face.form = l.face.form
<1>1. PICK n \in Nat : n = Len(ls) /\ DOMAIN ls = 1 .. n
  OBVIOUS
<1>2. PICK t : t = Append(ls, l)
  OBVIOUS
<1>3. /\ t[n + 1] = l /\ \A k \in 1 .. n : t[k] = ls[k]
      /\ FaceLinesIn(t) = FaceLinesIn(ls) \union (IF l.kind = "f" THEN {n + 1} ELSE {})
  BY <1>1, <1>2, LastLine
<1>4. \A k \in FaceLinesIn(ls) : k \in 1 .. n /\ k \in FaceLinesIn(t) /\ t[k] = ls[k]
  <2>1. \A k \in FaceLinesIn(ls) : k \in 1 .. n
    BY <1>1 DEF FaceLinesIn
  <2> QED  BY <1>3, <2>1
<1>5. Readable(ls) /\ PlainIn(ls)
  BY <1>2, <1>4 DEF Readable, PlainIn
<1>6. UniformIn(ls)
  <2> SUFFICES ASSUME NEW j \in FaceLinesIn(ls), NEW k \in FaceLinesIn(ls),
                      j < k, SameSubsetIn(ls, j, k)
               PROVE  ls[j].face.form = ls[k].face.form
    BY DEF UniformIn
  <2>1. SameSubsetIn(t, j, k)
    <3>1. j \in 1 .. n /\ k \in 1 .. n
      BY <1>4
    <3>2. \A i \in j .. k : i \in 1 .. n
      BY <1>1, <3>1
    <3> QED  BY <1>3, <3>2 DEF SameSubsetIn
  <2> QED  BY <1>2, <1>4, <2>1 DEF UniformIn
<1>7. ASSUME l.kind = "f"
      PROVE  /\ Plain(l.face) /\ l.face.form # "v//n"
             /\ \A k \in FaceLinesIn(ls) :
                  SameSubsetIn(ls, k, n) => ls[k].face.form = l.face.form
  <2>1. n + 1 \in FaceLinesIn(t)
    BY <1>3, <1>7
  <2>2. ASSUME NEW k \in FaceLinesIn(ls), SameSubsetIn(ls, k, n)
        PROVE  ls[k].face.form = l.face.form
    <3>1. k \in 1 .. n /\ k < n + 1
      BY <1>1, <1>4
    <3>2. \A i \in k .. n + 1 : (i \in k .. n /\ i \in 1 .. n) \/ i = n + 1
      BY <1>1, <3>1
    <3>3. SameSubsetIn(t, k, n + 1)
      BY <1>3, <1>7, <2>2, <3>2 DEF SameSubsetIn
    <3> QED  BY <1>2, <1>3, <1>4, <2>1, <3>1, <3>3 DEF UniformIn
  <2> QED  BY <1>2, <1>3, <2>1, <2>2 DEF Readable
<1> QED  BY <1>1, <1>5, <1>6, <1>7

LEMMA Regroup ==
  ASSUME NEW a \in Seq(Triangle), NEW b \in Seq(Triangle), NEW c \in Seq(Triangle)
  PROVE  (a \o b) \o c = a \o (b \o c)
BY ConcatAssociative

LEMMA ToldInit == Told(<<>>, <<<<Subset(Unnamed)>>>>)
<1>1. PICK s \in Batch : s = Subset(Unnamed)
  BY SubsetType DEF MtlNames
<1>2. PICK u \in Seq(Batch), r \in Seq(Part) : u = <<>> /\ r = <<>> /\ Len(r) = 0
  <2>1. <<>> \in Seq(Batch) /\ <<>> \in Seq(Part) /\ Len(<<>>) = 0
    OBVIOUS
  <2> QED  BY <2>1
<1>3. PICK q \in Part : q = <<s>> /\ q = Append(u, s)
  <2>1. <<s>> \in Seq(Batch) /\ <<s>> # <<>> /\ <<s>> = Append(<<>>, s)
    BY <1>1
  <2> QED  BY <1>2, <2>1 DEF Part
<1>4. <<q>> = Append(r, q)
  <2>1. <<q>> = Append(<<>>, q)
    BY <1>3
  <2> QED  BY <1>2, <2>1
<1>5. DOMAIN <<>> = {}
  OBVIOUS
<1>6. PartTris(1, u) = <<>> /\ AllTris(r) = <<>> /\ MeantOf(<<>>) = <<>>
  <2>1. [i \in {} |-> SubsetTris(1, u[i])] = <<>>
    OBVIOUS
  <2>2. [p \in {} |-> PartTris(p, r[p])] = <<>>
    OBVIOUS
  <2>3. \A x : [k \in {} |-> LineMeans(x[k], ObjectIn(x, k), MaterialIn(x, k))] = <<>>
    OBVIOUS
  <2> QED  BY <1>2, <1>5, <2>1, <2>2, <2>3, FlattenEmpty DEF PartTris, AllTris, MeantOf
<1>7. SubsetTris(1, s) = <<>>
  BY <1>1, SubsetFields, SubsetTrisType
<1>8. PartTris(1, q) = <<>> \o <<>>
  <2>1. PartTris(1, Append(u, s)) = PartTris(1, u) \o SubsetTris(1, s)
    <3>1. 1 \in Int
      OBVIOUS
    <3> QED  BY <1>1, <1>2, <3>1, PartTrisAppend
  <2> QED  BY <1>3, <1>6, <1>7, <2>1
<1>9. AllTris(<<q>>) = <<>> \o PartTris(1, q)
  <2>1. AllTris(Append(r, q)) = AllTris(r) \o PartTris(Len(r) + 1, q)
    BY <1>2, <1>3, AllTrisAppend
  <2>2. Len(r) + 1 = 1
    BY <1>2
  <2> QED  BY <1>4, <1>6, <2>1, <2>2
<1>10. <<>> \o <<>> = <<>>
  OBVIOUS
<1> QED  BY <1>1, <1>3, <1>6, <1>8, <1>9, <1>10 DEF Told

\* The parts are told from the lines before and after one more.
LEMMA ToldStep ==
  ASSUME NEW ls \in Seq(Lines), NEW ps \in PartsSet,
         NEW cur \in Names \union {Default}, NEW l \in Lines,
         NEW ps2, NEW cur2, Reads(ps, cur, l, ps2, cur2),
         Layout(ls, ps, cur), Told(ls, ps)
  PROVE  Told(Append(ls, l), ps2)
<1> SUFFICES ASSUME Readable(Append(ls, l)), UniformIn(Append(ls, l))
             PROVE  AllTris(ps2) = MeantOf(Append(ls, l))
  BY DEF Told
<1>1. /\ Readable(ls) /\ UniformIn(ls) /\ PlainIn(ls)
      /\ l.kind = "f" =>
           /\ Plain(l.face) /\ l.face.form # "v//n"
           /\ \A k \in FaceLinesIn(ls) :
                SameSubsetIn(ls, k, Len(ls)) => ls[k].face.form = l.face.form
  BY Beginning
<1>2. AllTris(ps) = MeantOf(ls)
  BY <1>1 DEF Told
<1>3. PICK n \in Nat : n = Len(ls)
  OBVIOUS
<1>4. PICK t : t = Append(ls, l)
  OBVIOUS
<1>5. /\ MeantOf(ls) \in Seq(Triangle)
      /\ MeantOf(t) = MeantOf(ls) \o LineMeans(l, ObjectIn(t, n + 1), MaterialIn(t, n + 1))
  BY <1>3, <1>4, MeantAppend
<1>6. /\ MaterialIn(t, n + 1) = IF l.kind = "usemtl" THEN l.name ELSE MaterialIn(ls, n)
      /\ ObjectIn(t, n + 1) = IF l.kind = "o" THEN ObjectIn(ls, n) + 1
                                              ELSE ObjectIn(ls, n)
  BY <1>3, <1>4, LastLine
<1>8. \A a \in Seq(Triangle) : a \o <<>> = a
  BY ConcatEmptySeq
<1>9. PICK r \in Seq(Part), u \in Seq(Batch), s \in Batch :
        /\ Append(u, s) \in Part
        /\ ps = Append(r, Append(u, s))
        /\ \/ /\ l.kind = "f" /\ cur2 = cur
              /\ ps2 = Append(r, Append(u, Faced(s, l.face)))
           \/ /\ l.kind = "o" /\ cur2 = cur
              /\ ps2 = Append(ps, <<Subset(cur)>>)
           \/ /\ \/ l.kind = "g" /\ cur2 = cur
                 \/ l.kind = "usemtl" /\ cur2 = l.name
              /\ ps2 = Append(r, Append(Append(u, s), Subset(cur2)))
           \/ l.kind = "mtllib" /\ cur2 = cur /\ ps2 = ps
  BY DEF Reads
<1>10. PICK q \in Part : q = Append(u, s)
  BY <1>9
<1>11. /\ ps = Append(r, q) /\ Len(ps) = Len(r) + 1 /\ ps[Len(r) + 1] = q
       /\ Len(q) = Len(u) + 1 /\ q[Len(u) + 1] = s
  BY <1>9, <1>10, ReplaceLast
<1>12. Current(ps) = s
  BY <1>11 DEF Current
<1>13. PICK o \in Int : o = Len(r) + 1
  OBVIOUS
<1>14. cur \in MtlNames /\ Named(s.mat) = cur /\ cur = MaterialIn(ls, n)
       /\ o - 1 = ObjectIn(ls, n)
  <2>1. /\ cur = MaterialIn(ls, n) /\ Named(s.mat) = cur
        /\ Len(ps) = ObjectIn(ls, n) + 1 /\ ObjectIn(ls, n) \in Nat
    <3>1. n \in 0 .. Len(ls)
      BY <1>3
    <3> QED  BY <1>3, <1>12, <3>1, ObjectCount DEF Layout, InForce
  <2> QED  BY <1>11, <1>13, <2>1, NamedCurrent
<1>15. /\ AllTris(r) \in Seq(Triangle)
       /\ AllTris(ps) = AllTris(r) \o PartTris(o, q)
       /\ PartTris(o, u) \in Seq(Triangle) /\ PartTris(o, q) \in Seq(Triangle)
       /\ PartTris(o, q) = PartTris(o, u) \o SubsetTris(o, s)
       /\ SubsetTris(o, s) \in Seq(Triangle)
  <2>1. AllTris(r) \in Seq(Triangle) /\ AllTris(Append(r, q)) = AllTris(r) \o PartTris(o, q)
    BY <1>9, <1>10, <1>13, AllTrisAppend
  <2>2. PartTris(o, u) \in Seq(Triangle) /\ PartTris(o, q) \in Seq(Triangle)
    BY <1>9, <1>10, <1>13, PartTrisType DEF Part
  <2>3. PartTris(o, Append(u, s)) = PartTris(o, u) \o SubsetTris(o, s)
    BY <1>9, <1>13, PartTrisAppend
  <2> QED  BY <1>9, <1>10, <1>11, <1>13, <2>1, <2>2, <2>3, SubsetTrisType
<1>16. CASE l.kind = "f" /\ cur2 = cur
              /\ ps2 = Append(r, Append(u, Faced(s, l.face)))
  <2>1. PICK f \in Faces : f = l.face /\ Plain(f) /\ f.form # "v//n"
    BY <1>1, <1>16, LineTypes
  <2>2. PICK x \in Batch : x = Faced(s, f) /\ x.form = f.form
    <3>1. Count(f) > 0
      <4>1. Count(f) = Len(f.index) /\ Count(f) \in Nat /\ Len(f.index) > 2
        BY <2>1, CountType DEF Plain
      <4> QED  BY <4>1
    <3> QED  BY <1>9, <2>1, <3>1, FacedType DEF Inspected
  <2>3. s.faces = <<>> \/ s.form = f.form
    <3>1. ASSUME s.faces # <<>>  PROVE  s.form = f.form
      <4>1. PICK k \in FaceLinesIn(ls) : /\ SameSubsetIn(ls, k, Len(ls))
                                         /\ s.form = ls[k].face.form
        BY <1>1, <1>12, <3>1 DEF Layout, OneForm
      <4> QED  BY <1>1, <1>16, <2>1, <4>1
    <3> QED  BY <3>1
  <2>4. PICK d \in Seq(Triangle) :
          /\ d = AllDrawn(o, Named(s.mat), f.form, Fan(ParsedFace(f)))
          /\ SubsetTris(o, x) = SubsetTris(o, s) \o d
    <3>1. /\ AllDrawn(o, Named(s.mat), f.form, Fan(ParsedFace(f))) \in Seq(Triangle)
          /\ SubsetTris(o, Faced(s, f))
               = SubsetTris(o, s)
                   \o AllDrawn(o, Named(s.mat), f.form, Fan(ParsedFace(f)))
      <4>1. Faced(s, f).form = f.form
        BY <2>2
      <4> QED  BY ZenonT(40), <1>9, <1>13, <2>1, <2>3, <4>1, FacedTris
    <3> QED  BY <2>2, <3>1
  <2>5. d = LineMeans(l, ObjectIn(t, n + 1), MaterialIn(t, n + 1))
    <3>1. d = FaceMeans(f, o - 1, cur)
      BY <1>13, <1>14, <2>1, <2>4, MeantFace
    <3> QED  BY <1>6, <1>14, <1>16, <2>1, <3>1 DEF LineMeans
  <2>6. PICK y \in Part : y = Append(u, x)
    BY <1>9, <2>2, InSubsets
  <2>7. AllTris(ps2) = AllTris(r) \o PartTris(o, y)
    <3>1. AllTris(Append(r, y)) = AllTris(r) \o PartTris(o, y)
      BY <1>9, <1>13, <2>6, AllTrisAppend
    <3> QED  BY <1>16, <2>1, <2>2, <2>6, <3>1
  <2>8. PartTris(o, y) = PartTris(o, u) \o (SubsetTris(o, s) \o d)
    <3>1. PartTris(o, Append(u, x)) = PartTris(o, u) \o SubsetTris(o, x)
      BY <1>9, <1>13, <2>2, PartTrisAppend
    <3> QED  BY <2>4, <2>6, <3>1
  <2>9. PartTris(o, y) = PartTris(o, q) \o d
    <3>1. PICK a \in Seq(Triangle), b \in Seq(Triangle) :
            a = PartTris(o, u) /\ b = SubsetTris(o, s)
      BY <1>15
    <3>2. (a \o b) \o d = a \o (b \o d)
      BY <2>4, <3>1, Regroup
    <3> QED  BY <1>15, <2>8, <3>1, <3>2
  <2>10. AllTris(ps2) = AllTris(ps) \o d
    <3>1. PICK a \in Seq(Triangle), b \in Seq(Triangle) :
            a = AllTris(r) /\ b = PartTris(o, q)
      BY <1>15
    <3>2. (a \o b) \o d = a \o (b \o d)
      BY ZenonT(40), <2>4, <3>1, Regroup
    <3> QED  BY <1>15, <2>7, <2>9, <3>1, <3>2
  <2> QED  BY <1>2, <1>4, <1>5, <2>5, <2>10
<1>17. ASSUME l.kind # "f"  PROVE  MeantOf(t) = MeantOf(ls)
  BY <1>5, <1>8, <1>17 DEF LineMeans
<1>18. ASSUME NEW m \in MtlNames, NEW v \in Seq(Batch), NEW p \in Int
       PROVE  PartTris(p, Append(v, Subset(m))) = PartTris(p, v)
  <2>1. PICK x \in Batch : x = Subset(m) /\ x.faces = <<>>
    BY <1>18, SubsetType, SubsetFields
  <2>2. PartTris(p, Append(v, x)) = PartTris(p, v) \o SubsetTris(p, x)
    BY <1>18, <2>1, PartTrisAppend
  <2>3. SubsetTris(p, x) = <<>> /\ PartTris(p, v) \in Seq(Triangle)
    BY <1>18, <2>1, SubsetTrisType, PartTrisType
  <2> QED  BY <1>8, <2>1, <2>2, <2>3
<1>19. CASE l.kind = "o" /\ cur2 = cur /\ ps2 = Append(ps, <<Subset(cur)>>)
  <2>1. PICK z \in Batch : z = Subset(cur)
    BY <1>14, SubsetType
  <2>2. PICK e \in Seq(Batch) : e = <<>>
    <3>1. <<>> \in Seq(Batch)
      OBVIOUS
    <3> QED  BY <3>1
  <2>3. PICK y \in Part : y = <<z>> /\ y = Append(e, z)
    <3>1. <<z>> \in Part
      BY <1>14, <2>1, SubsetType
    <3>2. <<z>> = Append(<<>>, z)
      OBVIOUS
    <3> QED  BY <2>2, <3>1, <3>2
  <2>4. PICK p \in Int : p = Len(ps) + 1
    BY <1>11, <1>13
  <2>5. PartTris(p, y) = PartTris(p, e)
    BY ZenonT(40), <1>14, <1>18, <2>1, <2>2, <2>3, <2>4
  <2>6. PartTris(p, e) = <<>>
    <3>1. DOMAIN <<>> = {} /\ [i \in {} |-> SubsetTris(p, e[i])] = <<>>
      OBVIOUS
    <3> QED  BY <2>2, <3>1, FlattenEmpty DEF PartTris
  <2>7. AllTris(ps2) = AllTris(ps) \o PartTris(p, y)
    <3>1. ps \in Seq(Part)
      BY DEF PartsSet
    <3>2. AllTris(Append(ps, y)) = AllTris(ps) \o PartTris(p, y)
      BY <2>3, <2>4, <3>1, AllTrisAppend
    <3> QED  BY <1>19, <2>1, <2>3, <3>2
  <2>8. AllTris(ps2) = AllTris(ps)
    BY <1>2, <1>5, <1>8, <2>5, <2>6, <2>7
  <2> QED  BY <1>2, <1>4, <1>17, <1>19, <2>8
<1>20. CASE /\ \/ l.kind = "g" /\ cur2 = cur
               \/ l.kind = "usemtl" /\ cur2 = l.name
            /\ ps2 = Append(r, Append(Append(u, s), Subset(cur2)))
  <2>1. cur2 \in MtlNames
    BY <1>14, <1>20, LineTypes DEF MtlNames
  <2>2. PICK y \in Part : y = Append(q, Subset(cur2))
    BY <1>10, <2>1, SubsetType, InSubsets DEF Part
  <2>3. PartTris(o, y) = PartTris(o, q)
    BY <1>10, <1>13, <1>18, <2>1, <2>2 DEF Part
  <2>4. AllTris(ps2) = AllTris(r) \o PartTris(o, y)
    <3>1. AllTris(Append(r, y)) = AllTris(r) \o PartTris(o, y)
      BY <1>9, <1>13, <2>2, AllTrisAppend
    <3> QED  BY <1>10, <1>20, <2>2, <3>1
  <2>5. AllTris(ps2) = AllTris(ps)
    BY <1>15, <2>3, <2>4
  <2> QED  BY <1>2, <1>4, <1>17, <1>20, <2>5
<1>21. CASE l.kind = "mtllib" /\ cur2 = cur /\ ps2 = ps
  BY <1>2, <1>4, <1>17, <1>21
<1> QED  BY <1>9, <1>16, <1>19, <1>20, <1>21

-----------------------------------------------------------------------------
(* The triangles of the model are those of the parts *)

\* The triangles of a converted subset, and of a converted part, of object o.
SubsetModel(y, o) == [t \in DOMAIN y.tris |-> [object |-> o, mat |-> Named(y.mat),
                                               corners |-> y.tris[t]]]
PartModel(x, o)   == FlattenSeq([i \in DOMAIN x |-> SubsetModel(x[i], o)])

LEMMA SubsetModelled ==
  ASSUME NEW o \in Int, NEW s \in Batch
  PROVE  SubsetModel(ConvertedSubset(s), o - 1) = SubsetTris(o, s)
<1>1. PICK fans \in Seq(Triple) : fans = FlattenSeq(Fans(s))
  BY FansType DEF Triple
<1>2. Triangles(s) = [k \in DOMAIN fans |-> [c \in 1 .. 3 |-> Corner(s, fans[k][c])]]
  BY <1>1, TrianglesAre
<1>3. \A c : Corner(s, c) = CornerOf(s.form, c)
  BY DEF Corner, CornerOf
<1>4. SubsetTris(o, s)
        = [k \in DOMAIN fans |->
             [object |-> o - 1, mat |-> Named(s.mat),
              corners |-> [c \in 1 .. 3 |-> CornerOf(s.form, fans[k][c])]]]
  BY <1>1 DEF SubsetTris, AllDrawn, Drawn
<1>5. PICK ts : ts = Triangles(s)
  OBVIOUS
<1>6. /\ DOMAIN ts = DOMAIN fans
      /\ \A k \in DOMAIN fans :
           ts[k] = [c \in 1 .. 3 |-> CornerOf(s.form, fans[k][c])]
  BY <1>2, <1>3, <1>5
<1>7. SubsetModel(ConvertedSubset(s), o - 1)
        = [k \in DOMAIN fans |-> [object |-> o - 1, mat |-> Named(s.mat),
                                  corners |-> ts[k]]]
  BY <1>5, <1>6 DEF SubsetModel, ConvertedSubset
<1> QED  BY <1>4, <1>6, <1>7

LEMMA PartModelled ==
  ASSUME NEW o \in Int, NEW q \in Part
  PROVE  PartModel(ConvertedPart(q), o - 1) = PartTris(o, q)
<1>1. PICK n \in Nat : n = Len(q) /\ DOMAIN q = 1 .. n
  BY DEF Part
<1>2. PICK W : W = WithFaces(q) /\ W \subseteq 1 .. n
  BY <1>1 DEF WithFaces
<1>3. PICK us : us = [k \in DOMAIN q |-> ConvertedSubset(q[k])]
  OBVIOUS
<1>4. PICK x : x = ConvertedPart(q) /\ x = Kept(us, W)
  BY <1>2, <1>3 DEF ConvertedPart
<1>5. PICK ss : ss = [i \in DOMAIN q |-> SubsetTris(o, q[i])]
  OBVIOUS
<1>6. ss \in Seq(Seq(Triangle)) /\ Len(ss) = n
  <2>1. ss \in Seq(Seq(Triangle))
    BY <1>5, PartTrisType DEF Part
  <2> QED  BY <1>1, <1>5, <2>1
<1>7. PICK c \in Nat : c = Cardinality(W)
  BY <1>1, <1>2, KeptElements
<1>8. /\ DOMAIN x = 1 .. c
      /\ \A i \in 1 .. c : Nth(W, i) \in W /\ x[i] = us[Nth(W, i)]
  BY <1>1, <1>2, <1>4, <1>7, KeptElements
<1>9. Kept(ss, W) = [i \in 1 .. c |-> ss[Nth(W, i)]]
  BY <1>7 DEF Kept
<1>10. ASSUME NEW i \in 1 .. c
       PROVE  SubsetModel(x[i], o - 1) = ss[Nth(W, i)]
  <2>1. PICK k \in 1 .. n : k = Nth(W, i) /\ x[i] = us[k]
    BY <1>2, <1>8
  <2>2. q[k] \in Batch /\ us[k] = ConvertedSubset(q[k]) /\ ss[k] = SubsetTris(o, q[k])
    BY <1>1, <1>3, <1>5, <2>1, ElementOfSeq DEF Part
  <2> QED  BY <2>1, <2>2, SubsetModelled
<1>11. [i \in DOMAIN x |-> SubsetModel(x[i], o - 1)] = Kept(ss, W)
  BY <1>8, <1>9, <1>10
<1>12. \A i \in 1 .. n : i \notin W => ss[i] = <<>>
  <2>1. ASSUME NEW i \in 1 .. n, i \notin W  PROVE  ss[i] = <<>>
    <3>1. q[i] \in Batch /\ ss[i] = SubsetTris(o, q[i])
      BY <1>1, <1>5, ElementOfSeq DEF Part
    <3>2. q[i].faces = <<>>
      BY <1>1, <1>2, <2>1 DEF WithFaces
    <3> QED  BY <3>1, <3>2, SubsetTrisType
  <2> QED  BY <2>1
<1>13. FlattenSeq(Kept(ss, W)) = FlattenSeq(ss)
  BY <1>2, <1>6, <1>12, FlattenKept
<1> QED  BY <1>4, <1>5, <1>11, <1>13 DEF PartModel, PartTris

\* The objects with faces are those of the parts that are kept.
LEMMA ObjectsKept ==
  ASSUME TypeOK, Laid
  PROVE  /\ \A o \in Objects : o + 1 \in NotEmpty /\ o \in Nat
         /\ \A p \in NotEmpty : p - 1 \in Objects /\ p \in 1 .. Len(parts)
<1>1. PICK n \in Nat : n = Len(parts) /\ DOMAIN parts = 1 .. n
  BY DEF TypeOK, PartsSet
<1>2. ASSUME NEW o \in Objects  PROVE  o + 1 \in NotEmpty /\ o \in Nat
  <2>1. PICK k \in FaceLines : o = Object(k)
    BY DEF Objects
  <2>2. PICK p \in Nat, i \in Nat : /\ There(parts, p, i) /\ parts[p][i].faces # <<>>
                                    /\ p = o + 1
    BY <2>1, OfLines DEF Laid, Layout, Placed
  <2>3. o \in Nat
    <3>1. lines \in Seq(Lines) /\ k \in 1 .. Len(lines)
      BY DEF TypeOK, FaceLines
    <3>2. k \in 0 .. Len(lines)
      BY <3>1
    <3> QED  BY <2>1, <3>1, <3>2, ObjectCount, OfLines
  <2>4. p \in NotEmpty
    BY <2>2 DEF There, NotEmpty, WithFaces
  <2> QED  BY <2>2, <2>3, <2>4
<1>3. ASSUME NEW p \in NotEmpty  PROVE  p - 1 \in Objects /\ p \in 1 .. n
  <2>1. p \in 1 .. n
    BY <1>1 DEF NotEmpty
  <2>2. parts[p] \in Seq(Batch)
    BY <1>1, <2>1, ElementOfSeq DEF TypeOK, PartsSet, Part
  <2>3. PICK i \in DOMAIN parts[p] : parts[p][i].faces # <<>>
    BY DEF NotEmpty, WithFaces
  <2>4. i \in Nat /\ p \in Nat /\ There(parts, p, i)
    BY <1>1, <2>1, <2>2, <2>3 DEF There
  <2>5. PICK k \in FaceLines : p = Object(k) + 1
    BY <2>3, <2>4, OfLines DEF Laid, Layout, Sourced
  <2>6. Object(k) \in Nat
    <3>1. lines \in Seq(Lines) /\ k \in 1 .. Len(lines)
      BY DEF TypeOK, FaceLines
    <3>2. k \in 0 .. Len(lines)
      BY <3>1
    <3> QED  BY <3>1, <3>2, ObjectCount, OfLines
  <2> QED  BY <2>1, <2>5, <2>6 DEF Objects
<1> QED  BY <1>1, <1>2, <1>3

\* The p-th part that is kept is of the p-th object with faces.
LEMMA NthObject ==
  ASSUME TypeOK, Laid, NEW p \in 1 .. Cardinality(NotEmpty)
  PROVE  /\ Nth(NotEmpty, p) \in NotEmpty
         /\ Nth(Objects, p) = Nth(NotEmpty, p) - 1
<1>1. PICK n \in Nat : n = Len(parts)
  BY DEF TypeOK, PartsSet
<1>2. PICK S, O : S = NotEmpty /\ O = Objects
  OBVIOUS
<1>3. /\ \A o \in O : o + 1 \in S /\ o \in Nat
      /\ \A k \in S : k - 1 \in O /\ k \in 1 .. n
  BY <1>1, <1>2, ObjectsKept
<1>4. S \subseteq 1 .. n /\ O \subseteq 0 .. n
  <2>1. \A o \in O : o + 1 \in 1 .. n /\ o \in Nat
    BY <1>3
  <2>2. \A o \in O : o \in 0 .. n
    BY <1>1, <2>1
  <2> QED  BY <1>3, <2>2
<1>5. PICK j \in S : j = Nth(S, p) /\ Rank(S, j) = p
  BY <1>1, <1>2, <1>4, NthThere
<1>6. j \in 1 .. n /\ j \in Nat /\ j - 1 \in Nat /\ j - 1 \in O
  <2>1. j \in 1 .. n /\ j - 1 \in O
    BY <1>3, <1>5
  <2> QED  BY <1>1, <2>1
<1>7. Rank(O, j - 1) = Rank(S, j)
  <2> DEFINE A == {o \in O : o <= j - 1}
             B == {k \in S : k <= j}
             f == [o \in A |-> o + 1]
  <2>1. IsFiniteSet(A)
    BY <1>1, <1>4, <1>6, RankFinite
  <2>2. \A o \in A : o \in Nat /\ o + 1 \in B
    BY <1>3, <1>6
  <2>3. f \in [A -> B]
    BY <2>2
  <2>4. \A x, y \in A : f[x] = f[y] => x = y
    BY <2>2
  <2>5. \A y \in B : \E x \in A : f[x] = y
    <3>1. ASSUME NEW y \in B  PROVE  \E x \in A : f[x] = y
      <4>1. y \in S /\ y <= j /\ y \in 1 .. n /\ y - 1 \in O
        BY <1>3
      <4>2. y - 1 \in A /\ (y - 1) + 1 = y
        BY <1>1, <1>6, <4>1
      <4> QED  BY <4>2
    <3> QED  BY <3>1
  <2>6. Cardinality(B) = Cardinality(A)
    <3> HIDE DEF f, A, B
    <3> QED  BY <2>1, <2>3, <2>4, <2>5, OneToOne
  <2> QED  BY <2>6 DEF Rank
<1>8. Nth(O, Rank(O, j - 1)) = j - 1
  BY <1>1, <1>4, <1>6, NthIs
<1> QED  BY <1>2, <1>5, <1>7, <1>8

LEMMA Modelled ==
  ASSUME TypeOK, Laid
  PROVE  ModelTriangles = AllTris(parts)
<1>1. PICK n \in Nat : n = Len(parts) /\ DOMAIN parts = 1 .. n
  BY DEF TypeOK, PartsSet
<1>2. PICK S : S = NotEmpty /\ S \subseteq 1 .. n
  BY <1>1 DEF NotEmpty
<1>3. PICK cs : cs = [k \in DOMAIN parts |-> ConvertedPart(parts[k])]
  OBVIOUS
<1>4. PICK x : x = ConvertedParts /\ x = Kept(cs, S)
  BY <1>2, <1>3 DEF ConvertedParts
<1>5. PICK ss : ss = [p \in DOMAIN parts |-> PartTris(p, parts[p])]
  OBVIOUS
<1>6. ss \in Seq(Seq(Triangle)) /\ Len(ss) = n
  <2>1. <<Subset(Unnamed)>> \in Part /\ parts \in Seq(Part)
    BY SubsetType DEF MtlNames, TypeOK, PartsSet
  <2>2. ss \in Seq(Seq(Triangle))
    BY <1>5, <2>1, AllTrisAppend
  <2> QED  BY <1>1, <1>5, <2>2
<1>7. PICK c \in Nat : c = Cardinality(S)
  BY <1>1, <1>2, KeptElements
<1>8. /\ DOMAIN x = 1 .. c
      /\ \A p \in 1 .. c : Nth(S, p) \in S /\ x[p] = cs[Nth(S, p)]
  <2>1. /\ DOMAIN Kept(cs, S) = 1 .. Cardinality(S)
        /\ \A p \in 1 .. Cardinality(S) : /\ Nth(S, p) \in S
                                          /\ Kept(cs, S)[p] = cs[Nth(S, p)]
    BY ZenonT(40), <1>1, <1>2, KeptElements
  <2> QED  BY <1>4, <1>7, <2>1
<1>9. Kept(ss, S) = [p \in 1 .. c |-> ss[Nth(S, p)]]
  BY <1>7 DEF Kept
<1>10. ASSUME NEW k \in 1 .. n
       PROVE  /\ parts[k] \in Part /\ cs[k] = ConvertedPart(parts[k])
              /\ ss[k] = PartTris(k, parts[k])
  BY <1>1, <1>3, <1>5, ElementOfSeq DEF TypeOK, PartsSet
<1>11. ASSUME NEW p \in 1 .. c
       PROVE  PartModel(x[p], Nth(Objects, p)) = ss[Nth(S, p)]
  <2>1. PICK k \in 1 .. n : k = Nth(S, p) /\ x[p] = cs[k]
    BY <1>2, <1>8
  <2>2. Nth(Objects, p) = k - 1 /\ k \in Int
    BY <1>2, <1>7, <2>1, NthObject
  <2> QED  BY <1>10, <2>1, <2>2, PartModelled
<1>12. ModelTriangles
         = FlattenSeq([p \in DOMAIN x |-> PartModel(x[p], Nth(Objects, p))])
  BY <1>4 DEF ModelTriangles, PartModel, SubsetModel, Named
<1>13. [p \in DOMAIN x |-> PartModel(x[p], Nth(Objects, p))] = Kept(ss, S)
  BY <1>8, <1>9, <1>11
<1>14. \A p \in 1 .. n : p \notin S => ss[p] = <<>>
  <2>1. ASSUME NEW p \in 1 .. n, p \notin S  PROVE  ss[p] = <<>>
    <3>1. PICK q \in Part : q = parts[p] /\ ss[p] = PartTris(p, q)
      BY <1>10, <2>1
    <3>2. WithFaces(q) = {}
      BY <1>1, <1>2, <2>1, <3>1 DEF NotEmpty
    <3>3. PICK h \in Nat : h = Len(q) /\ DOMAIN q = 1 .. h
      BY <3>1 DEF Part
    <3>4. PICK us : us = [i \in DOMAIN q |-> SubsetTris(p, q[i])]
      OBVIOUS
    <3>5. us \in Seq(Seq(Triangle)) /\ Len(us) = h
      <4>1. us \in Seq(Seq(Triangle))
        BY <3>1, <3>4, PartTrisType DEF Part
      <4> QED  BY <3>3, <3>4, <4>1
    <3>6. \A i \in 1 .. h : us[i] = <<>>
      <4>1. ASSUME NEW i \in 1 .. h  PROVE  us[i] = <<>>
        <5>1. q[i] \in Batch /\ us[i] = SubsetTris(p, q[i])
          BY <3>1, <3>3, <3>4, ElementOfSeq DEF Part
        <5>2. q[i].faces = <<>>
          BY <3>2, <3>3 DEF WithFaces
        <5> QED  BY <5>1, <5>2, SubsetTrisType
      <4> QED  BY <4>1
    <3>7. FlattenSeq(Kept(us, {})) = FlattenSeq(us)
      BY <3>5, <3>6, FlattenKept
    <3>8. Kept(us, {}) = <<>>
      <4>1. Cardinality({}) = 0
        BY FS_EmptySet
      <4> QED  BY <4>1 DEF Kept
    <3> QED  BY <3>1, <3>4, <3>7, <3>8, FlattenEmpty DEF PartTris
  <2> QED  BY <2>1
<1>15. FlattenSeq(Kept(ss, S)) = FlattenSeq(ss)
  BY <1>1, <1>2, <1>6, <1>14, FlattenKept
<1> QED  BY <1>5, <1>12, <1>13, <1>15 DEF AllTris

\* THEOREM: a file whose faces are plain, of one form within a subset, and
\* without normals where there are no texture coordinates, becomes the
\* triangles it describes: in their order, each in its object, with the
\* material in force at its line, and with the corners of its vertices.
THEOREM ImportIsFaithful == Spec => []ImportFaithful
<1>1. Init => Told(lines, parts)
  BY ToldInit DEF Init
<1>2. ASSUME TypeOK, Laid, Told(lines, parts), [Next]_vars
      PROVE  Told(lines, parts)'
  <2>1. CASE UNCHANGED vars
    BY <1>2, <2>1 DEF vars
  <2>2. CASE NextImport
    BY <2>2, ToldInit DEF NextImport
  <2>3. CASE ReadLine
    <3>1. PICK l \in Lines : /\ lines' = Append(lines, l)
                             /\ Reads(parts, curMtl, l, parts', curMtl')
      BY <1>2, <2>3, ReadLineReads
    <3>2. Told(Append(lines, l), parts')
      BY <1>2, <3>1, ToldStep DEF TypeOK, Laid
    <3> QED  BY <3>1, <3>2
  <2> QED  BY <1>2, <2>1, <2>2, <2>3 DEF Next
<1>3. ASSUME TypeOK, Laid, Told(lines, parts)  PROVE  ImportFaithful
  <2> SUFFICES ASSUME \A k \in FaceLines : /\ Plain(lines[k].face)
                                           /\ lines[k].face.form # "v//n",
                      Uniform
               PROVE  ModelTriangles = MeantTriangles
    BY DEF ImportFaithful
  <2>1. Readable(lines)
    BY OfLines DEF Readable
  <2>2. UniformIn(lines)
    BY OfLines DEF Uniform, UniformIn
  <2> QED  BY <1>3, <2>1, <2>2, Modelled, MeantIs DEF Told
<1> QED  BY <1>1, <1>2, <1>3, ObjTypes, LaidAlways, PTL DEF Spec
=============================================================================
