-------------------------- MODULE StopWindowLemmas --------------------------
(***************************************************************************)
(* Least elements, bounds, and what FlattenSeq joins: facts about natural  *)
(* numbers and sequences that the proofs of every component need.  Then    *)
(* what the operators of StopWindow return, for every alphabet, every list *)
(* of stop sequences and every text.                                       *)
(***************************************************************************)
EXTENDS StopWindow, SequencesExt, SequenceTheorems, FiniteSetTheorems, WellFoundedInduction,
        TLAPS

(* Every non-empty set of naturals has a least element: the intervals that *)
(* end in its members are finite sets, and one of them is minimal.         *)
LEMMA LeastNat ==
  ASSUME NEW T, T \subseteq Nat, T # {}
  PROVE  \E x \in T : \A y \in T : x <= y
<1> DEFINE I == {1 .. n : n \in T}
           R == StrictSubsetOrdering(Nat)
<1>1. I \subseteq FiniteSubsetsOf(Nat)
  <2> SUFFICES ASSUME NEW n \in T PROVE 1 .. n \in FiniteSubsetsOf(Nat)
    OBVIOUS
  <2>1. IsFiniteSet(1 .. n)
    BY FS_Interval
  <2> QED
    BY <2>1 DEF FiniteSubsetsOf
<1>2. PICK x \in I : \A y \in I : ~(<<y, x>> \in R)
  <2>1. I # {}
    OBVIOUS
  <2>2. IsWellFoundedOn(R, FiniteSubsetsOf(Nat))
    BY FS_StrictSubsetOrderingWellFounded
  <2> HIDE DEF I, R
  <2> QED
    BY <1>1, <2>1, <2>2, WFMin
<1>3. PICK n \in T : x = 1 .. n
  BY <1>2
<1>4. ASSUME NEW m \in T PROVE n <= m
  <2>1. SUFFICES ASSUME m < n PROVE FALSE
    BY <1>4, <1>3
  <2>2. 1 .. m \subseteq Nat /\ 1 .. n \subseteq Nat /\ 1 .. m \subseteq 1 .. n /\ 1 .. m # 1 .. n
    BY <2>1, <1>4
  <2>3. <<1 .. m, 1 .. n>> \in R
    BY <2>2 DEF StrictSubsetOrdering
  <2> QED
    BY <1>2, <1>3, <2>3
<1> QED
  BY <1>4

(* A finite sequence of naturals is bounded *)
LEMMA BoundedSequence ==
  ASSUME NEW N \in Nat, NEW f \in [1 .. N -> Nat]
  PROVE  \E n \in Nat : \A k \in 1 .. N : f[k] <= n
<1> DEFINE Bounded(j) == \E n \in Nat : \A k \in 1 .. j : f[k] <= n
           Bad == {j \in 0 .. N : ~Bounded(j)}
<1>1. SUFFICES ASSUME Bad # {} PROVE FALSE
  <2>1. N \in 0 .. N
    OBVIOUS
  <2>2. Bounded(N)
    BY <1>1, <2>1
  <2> QED
    BY <2>2
<1>2. PICK j \in Bad : \A i \in Bad : j <= i
  <2>1. Bad \subseteq Nat
    OBVIOUS
  <2> HIDE DEF Bad
  <2> QED
    BY <1>1, <2>1, LeastNat
<1>3. j \in 0 .. N /\ ~Bounded(j)
  BY <1>2
<1>4. Bounded(0)
  <2>1. \A k \in 1 .. 0 : f[k] <= 0
    OBVIOUS
  <2> QED
    BY <2>1, 0 \in Nat
<1>5. j # 0
  BY <1>3, <1>4
<1> HIDE DEF Bounded
<1>6. Bounded(j - 1)
  BY <1>2, <1>3, <1>5
<1> USE DEF Bounded
<1>7. PICK n \in Nat : \A k \in 1 .. j - 1 : f[k] <= n
  BY <1>6
<1>8. f[j] \in Nat
  BY <1>3, <1>5
<1> DEFINE m == n + f[j]
<1>9. m \in Nat /\ m >= n /\ m >= f[j]
  BY <1>8
<1> HIDE DEF m
<1>10. ASSUME NEW k \in 1 .. j PROVE f[k] <= m
  <2>1. CASE k = j
    BY <1>9, <2>1
  <2>2. CASE k # j
    <3>1. k \in 1 .. j - 1 /\ f[k] \in Nat
      BY <1>3, <2>2
    <3> QED
      BY <1>7, <1>9, <3>1
  <2> QED
    BY <2>1, <2>2
<1>11. Bounded(j)
  BY <1>9, <1>10
<1> QED
  BY <1>3, <1>11

-----------------------------------------------------------------------------
(* f[n] joins the first n sequences of q *)
Joins(q, f, X) ==
  /\ f \in [0 .. Len(q) -> Seq(X)]
  /\ f[0] = <<>>
  /\ \A n \in 1 .. Len(q) : f[n] = f[n - 1] \o q[n]

(* The recursive function of FlattenSeq *)
Flattens(q, m, f) ==
  f = [i \in 1 .. m |-> IF i = 1 THEN q[i] ELSE f[i - 1] \o q[i]]

LEMMA FlattensExists ==
  ASSUME NEW q, NEW N \in Nat
  PROVE  \E f : Flattens(q, N, f)
<1> DEFINE Bad == {m \in 0 .. N : ~\E f : Flattens(q, m, f)}
<1>1. SUFFICES ASSUME Bad # {} PROVE FALSE
  <2>1. N \in 0 .. N
    OBVIOUS
  <2> QED
    BY <1>1, <2>1
<1>2. PICK m \in Bad : \A k \in Bad : m <= k
  <2>1. Bad \subseteq Nat
    OBVIOUS
  <2> HIDE DEF Bad
  <2> QED
    BY <1>1, <2>1, LeastNat
<1>3. CASE m = 0
  <2>1. PICK f : f = [i \in 1 .. 0 |-> <<>>]
    OBVIOUS
  <2>2. 1 .. 0 = {}
    OBVIOUS
  <2>3. Flattens(q, 0, f)
    BY <2>1, <2>2 DEF Flattens
  <2> QED
    BY <1>2, <1>3, <2>3
<1>4. CASE m # 0
  <2>1. PICK p \in Nat : p = m - 1 /\ m = p + 1 /\ p \in 0 .. N
    BY <1>2, <1>4
  <2>2. p \notin Bad
    <3> HIDE DEF Bad
    <3> QED
      BY <1>2, <2>1
  <2>3. PICK f : Flattens(q, p, f)
    BY <2>1, <2>2
  <2>4. PICK last : last = IF p = 0 THEN q[1] ELSE f[p] \o q[p + 1]
    OBVIOUS
  <2>5. PICK g : g = [i \in 1 .. p + 1 |-> IF i = p + 1 THEN last ELSE f[i]]
    OBVIOUS
  <2>6. \A i \in 1 .. p : g[i] = f[i]
    BY <2>5
  <2>7. ASSUME NEW i \in 1 .. p + 1
        PROVE  g[i] = IF i = 1 THEN q[i] ELSE g[i - 1] \o q[i]
    <3>1. CASE i = p + 1
      <4>1. g[i] = last /\ i - 1 = p /\ (i = 1 <=> p = 0)
        BY <2>5, <3>1
      <4>2. CASE p = 0
        BY <2>4, <4>1, <4>2
      <4>3. CASE p # 0
        <5>1. p \in 1 .. p
          BY <4>3
        <5>2. g[i - 1] = f[p]
          BY <2>6, <4>1, <5>1
        <5> QED
          BY <2>4, <3>1, <4>1, <4>3, <5>2
      <4> QED
        BY <4>2, <4>3
    <3>2. CASE i # p + 1
      <4>1. i \in 1 .. p /\ (i # 1 => i - 1 \in 1 .. p)
        BY <3>2
      <4>2. f[i] = IF i = 1 THEN q[i] ELSE f[i - 1] \o q[i]
        BY <2>3, <4>1 DEF Flattens
      <4> QED
        BY <2>6, <4>1, <4>2
    <3> QED
      BY <3>1, <3>2
  <2>8. g = [i \in 1 .. p + 1 |-> IF i = 1 THEN q[i] ELSE g[i - 1] \o q[i]]
    BY <2>5, <2>7
  <2>9. Flattens(q, m, g)
    BY <2>1, <2>8 DEF Flattens
  <2> QED
    BY <1>2, <2>9
<1> QED
  BY <1>3, <1>4

(* FlattenSeq joins its sequences one by one *)
LEMMA FlattenJoins ==
  ASSUME NEW X, NEW q \in Seq(Seq(X))
  PROVE  \E f : Joins(q, f, X) /\ FlattenSeq(q) = f[Len(q)]
<1>1. PICK L \in Nat : L = Len(q)
  OBVIOUS
<1>2. \A i \in 1 .. L : q[i] \in Seq(X)
  BY <1>1
<1>3. <<>> \in Seq(X)
  BY EmptySeq
<1>4. CASE L = 0
  <2>1. PICK f : f = [n \in 0 .. 0 |-> <<>>]
    OBVIOUS
  <2>2. Joins(q, f, X)
    BY <1>1, <1>3, <1>4, <2>1 DEF Joins
  <2>3. q = <<>>
    BY <1>1, <1>4, EmptySeq
  <2>4. FlattenSeq(q) = <<>>
    BY <1>1, <1>4, <2>3 DEF FlattenSeq
  <2>5. f[Len(q)] = <<>>
    BY <1>1, <1>4, <2>1
  <2> QED
    BY <2>2, <2>4, <2>5
<1>5. CASE L # 0
  <2>1. PICK g : Flattens(q, L, g) /\ FlattenSeq(q) = g[L]
    <3>1. \E g : Flattens(q, L, g)
      BY FlattensExists
    <3>2. PICK g : g = CHOOSE h : Flattens(q, L, h)
      OBVIOUS
    <3>3. Flattens(q, L, g)
      BY <3>1, <3>2
    <3>4. FlattenSeq(q) = g[L]
      BY <1>1, <1>5, <3>2 DEF FlattenSeq, Flattens
    <3> QED
      BY <3>3, <3>4
  <2>2. \A i \in 1 .. L : g[i] = IF i = 1 THEN q[i] ELSE g[i - 1] \o q[i]
    BY <2>1 DEF Flattens
  <2>3. PICK f : f = [n \in 0 .. L |-> IF n = 0 THEN <<>> ELSE g[n]]
    OBVIOUS
  <2>4. f[0] = <<>> /\ \A n \in 1 .. L : f[n] = g[n]
    BY <2>3
  <2>5. ASSUME NEW n \in 1 .. L PROVE f[n] = f[n - 1] \o q[n]
    <3>1. CASE n = 1
      <4>1. f[n] = q[n] /\ f[n - 1] = <<>>
        BY <2>2, <2>4, <3>1
      <4>2. q[n] = <<>> \o q[n]
        BY <1>2, ConcatEmptySeq
      <4> QED
        BY <4>1, <4>2
    <3>2. CASE n # 1
      <4>1. n - 1 \in 1 .. L
        BY <3>2
      <4> QED
        BY <2>2, <2>4, <3>2, <4>1
    <3> QED
      BY <3>1, <3>2
  <2> DEFINE Bad == {n \in 0 .. L : f[n] \notin Seq(X)}
  <2>6. Bad = {}
    <3>1. SUFFICES ASSUME Bad # {} PROVE FALSE
      OBVIOUS
    <3>2. PICK m \in Bad : \A k \in Bad : m <= k
      <4>1. Bad \subseteq Nat
        OBVIOUS
      <4> HIDE DEF Bad
      <4> QED
        BY <3>1, <4>1, LeastNat
    <3>3. m \in 0 .. L /\ f[m] \notin Seq(X)
      BY <3>2
    <3>4. m # 0
      BY <1>3, <2>4, <3>3
    <3>5. PICK p \in Nat : p = m - 1 /\ p \in 0 .. L /\ m \in 1 .. L /\ p < m
      BY <3>3, <3>4
    <3>6. f[p] \in Seq(X)
      BY <3>2, <3>5
    <3>7. f[m] = f[p] \o q[m]
      BY <2>5, <3>5
    <3>8. q[m] \in Seq(X)
      BY <1>2, <3>5
    <3> QED
      BY <3>3, <3>6, <3>7, <3>8, ConcatProperties
  <2>7. f \in [0 .. L -> Seq(X)]
    BY <2>3, <2>6
  <2>8. Joins(q, f, X)
    BY <1>1, <2>4, <2>5, <2>7 DEF Joins
  <2>9. FlattenSeq(q) = f[Len(q)]
    BY <1>1, <1>5, <2>1, <2>4
  <2> QED
    BY <2>8, <2>9
<1> QED
  BY <1>4, <1>5

(* What sequences that begin alike join to *)
Alike(q, p, n) ==
  /\ Len(q) \in Nat /\ Len(p) \in Nat
  /\ n \in Nat /\ n <= Len(q) /\ n <= Len(p)
  /\ \A k \in 1 .. n : p[k] = q[k]

LEMMA SameJoins ==
  ASSUME NEW X, NEW q, NEW f, Joins(q, f, X), NEW p, NEW g, Joins(p, g, X),
         NEW n, Alike(q, p, n)
  PROVE  f[n] = g[n]
<1>0. /\ Len(q) \in Nat /\ Len(p) \in Nat
      /\ n \in Nat /\ n <= Len(q) /\ n <= Len(p)
      /\ \A k \in 1 .. n : p[k] = q[k]
  BY DEF Alike
<1> DEFINE Bad == {m \in 0 .. n : f[m] # g[m]}
<1>1. SUFFICES ASSUME Bad # {} PROVE FALSE
  <2>1. n \in 0 .. n
    BY <1>0
  <2> QED
    BY <1>1, <2>1
<1>2. PICK m \in Bad : \A k \in Bad : m <= k
  <2>1. Bad \subseteq Nat
    OBVIOUS
  <2> HIDE DEF Bad
  <2> QED
    BY <1>1, <2>1, LeastNat
<1>3. m \in 0 .. n /\ f[m] # g[m]
  BY <1>2
<1>4. m # 0
  BY <1>3 DEF Joins
<1>5. PICK p0 \in Nat : p0 = m - 1 /\ p0 \in 0 .. n /\ m \in 1 .. n /\ p0 < m
  BY <1>0, <1>3, <1>4
<1>6. f[p0] = g[p0]
  BY <1>2, <1>5
<1>7. m \in 1 .. Len(q) /\ m \in 1 .. Len(p)
  BY <1>0, <1>5
<1>8. f[m] = f[p0] \o q[m] /\ g[m] = g[p0] \o p[m]
  BY <1>5, <1>7 DEF Joins
<1> QED
  BY <1>0, <1>3, <1>5, <1>6, <1>8

LEMMA FlattenAppend ==
  ASSUME NEW X, NEW q \in Seq(Seq(X)), NEW x \in Seq(X)
  PROVE  /\ FlattenSeq(q) \in Seq(X)
         /\ FlattenSeq(Append(q, x)) = FlattenSeq(q) \o x
<1>1. PICK L \in Nat : L = Len(q)
  OBVIOUS
<1>2. PICK p \in Seq(Seq(X)) : p = Append(q, x)
  BY AppendProperties
<1>3. Len(p) = L + 1 /\ p[L + 1] = x /\ \A k \in 1 .. L : p[k] = q[k]
  BY <1>1, <1>2, AppendProperties
<1>4. PICK f : Joins(q, f, X) /\ FlattenSeq(q) = f[L]
  BY <1>1, FlattenJoins
<1>5. PICK g : Joins(p, g, X) /\ FlattenSeq(p) = g[L + 1]
  BY <1>3, FlattenJoins
<1>6. f[L] = g[L]
  <2>1. Alike(q, p, L)
    BY <1>1, <1>3 DEF Alike
  <2> QED
    BY <1>4, <1>5, <2>1, SameJoins
<1>7. g[L + 1] = g[L] \o x
  <2>1. PICK n : n = L + 1 /\ n \in 1 .. Len(p) /\ n - 1 = L
    BY <1>3
  <2>2. g[n] = g[n - 1] \o p[n]
    BY <1>5, <2>1 DEF Joins
  <2> QED
    BY <1>3, <2>1, <2>2
<1>8. f[L] \in Seq(X)
  BY <1>1, <1>4 DEF Joins
<1> QED
  BY <1>2, <1>4, <1>5, <1>6, <1>7, <1>8

(* Empty sequences at the end change nothing *)
LEMMA FlattenPad ==
  ASSUME NEW X, NEW q \in Seq(Seq(X)), NEW p \in Seq(Seq(X)), Len(q) <= Len(p),
         \A k \in 1 .. Len(q) : p[k] = q[k],
         \A k \in Len(q) + 1 .. Len(p) : p[k] = <<>>
  PROVE  FlattenSeq(p) = FlattenSeq(q)
<1>1. PICK L \in Nat : L = Len(q)
  OBVIOUS
<1>2. PICK N \in Nat : N = Len(p)
  OBVIOUS
<1>3. PICK f : Joins(q, f, X) /\ FlattenSeq(q) = f[L]
  BY <1>1, FlattenJoins
<1>4. PICK g : Joins(p, g, X) /\ FlattenSeq(p) = g[N]
  BY <1>2, FlattenJoins
<1>5. f[L] = g[L]
  <2>1. Alike(q, p, L)
    BY <1>1, <1>2 DEF Alike
  <2> QED
    BY <1>3, <1>4, <2>1, SameJoins
<1> DEFINE Bad == {m \in L .. N : g[m] # g[L]}
<1>6. Bad = {}
  <2>1. SUFFICES ASSUME Bad # {} PROVE FALSE
    OBVIOUS
  <2>2. PICK m \in Bad : \A k \in Bad : m <= k
    <3>1. Bad \subseteq Nat
      OBVIOUS
    <3> HIDE DEF Bad
    <3> QED
      BY <2>1, <3>1, LeastNat
  <2>3. m \in L .. N /\ g[m] # g[L]
    BY <2>2
  <2>4. PICK n \in Nat : n = m - 1 /\ n \in L .. N /\ m \in 1 .. N /\ m \in L + 1 .. N /\ n < m
    BY <2>3
  <2>5. g[n] = g[L]
    BY <2>2, <2>4
  <2>6. g[m] = g[n] \o <<>>
    BY <1>1, <1>2, <1>4, <2>4 DEF Joins
  <2>7. g[n] \in Seq(X)
    <3>1. n \in 0 .. Len(p)
      BY <1>2, <2>4
    <3> QED
      BY <1>4, <3>1 DEF Joins
  <2> QED
    BY <2>3, <2>5, <2>6, <2>7, ConcatEmptySeq
<1>7. N \in L .. N
  BY <1>1, <1>2
<1>8. g[N] = g[L]
  BY <1>6, <1>7
<1> QED
  BY <1>3, <1>4, <1>5, <1>8

(* What begins like q joins to a continuation of what q joins to *)
LEMMA FlattenPrefix ==
  ASSUME NEW X, NEW q \in Seq(Seq(X)), NEW p \in Seq(Seq(X)), Len(q) <= Len(p),
         \A k \in 1 .. Len(q) : p[k] = q[k]
  PROVE  \E z \in Seq(X) : FlattenSeq(p) = FlattenSeq(q) \o z
<1>1. PICK L \in Nat : L = Len(q)
  OBVIOUS
<1>2. PICK N \in Nat : N = Len(p)
  OBVIOUS
<1>3. PICK f : Joins(q, f, X) /\ FlattenSeq(q) = f[L]
  BY <1>1, FlattenJoins
<1>4. PICK g : Joins(p, g, X) /\ FlattenSeq(p) = g[N]
  BY <1>2, FlattenJoins
<1>5. f[L] = g[L]
  <2>1. Alike(q, p, L)
    BY <1>1, <1>2 DEF Alike
  <2> QED
    BY <1>3, <1>4, <2>1, SameJoins
<1>6. g[L] \in Seq(X)
  BY <1>1, <1>2, <1>4 DEF Joins
<1> DEFINE Bad == {m \in L .. N : ~\E z \in Seq(X) : g[m] = g[L] \o z}
<1>7. Bad = {}
  <2>1. SUFFICES ASSUME Bad # {} PROVE FALSE
    OBVIOUS
  <2>2. PICK m \in Bad : \A k \in Bad : m <= k
    <3>1. Bad \subseteq Nat
      OBVIOUS
    <3> HIDE DEF Bad
    <3> QED
      BY <2>1, <3>1, LeastNat
  <2>3. m \in L .. N /\ ~\E z \in Seq(X) : g[m] = g[L] \o z
    BY <2>2
  <2>4. m # L
    <3>1. <<>> \in Seq(X) /\ g[L] = g[L] \o <<>>
      BY <1>6, EmptySeq, ConcatEmptySeq
    <3> QED
      BY <2>3, <3>1
  <2>5. PICK n \in Nat : n = m - 1 /\ n \in L .. N /\ m \in 1 .. N /\ n < m
    BY <2>3, <2>4
  <2>6. PICK z \in Seq(X) : g[n] = g[L] \o z
    <3>1. n \notin Bad
      <4> HIDE DEF Bad
      <4> QED
        BY <2>2, <2>5
    <3> QED
      BY <2>5, <3>1
  <2>7. PICK x \in Seq(X) : x = p[m]
    BY <1>2, <2>5
  <2>8. g[m] = g[n] \o x
    BY <1>2, <1>4, <2>5, <2>7 DEF Joins
  <2>9. PICK y \in Seq(X) : y = g[L]
    BY <1>6
  <2>10. (y \o z) \o x = y \o (z \o x) /\ z \o x \in Seq(X)
    BY ConcatAssociative, ConcatProperties
  <2>11. g[m] = g[L] \o (z \o x)
    BY <2>6, <2>8, <2>9, <2>10
  <2> QED
    BY <2>3, <2>10, <2>11
<1>8. N \in L .. N
  BY <1>1, <1>2
<1>9. PICK z \in Seq(X) : g[N] = g[L] \o z
  BY <1>7, <1>8
<1> QED
  BY <1>3, <1>4, <1>5, <1>9

-----------------------------------------------------------------------------
(* What the elements of a sequence contribute, and one after another *)
Each(G, o) == [k \in DOMAIN o |-> G[o[k]]]

Along(G, o) == FlattenSeq(Each(G, o))

LEMMA EachShape ==
  ASSUME NEW S, NEW G, NEW o \in Seq(S)
  PROVE  /\ DOMAIN Each(G, o) = 1 .. Len(o)
         /\ Len(Each(G, o)) = Len(o)
         /\ \A k \in 1 .. Len(o) : Each(G, o)[k] = G[o[k]]
<1>1. PICK n \in Nat : n = Len(o) /\ DOMAIN o = 1 .. n
  OBVIOUS
<1>2. PICK q : q = [k \in 1 .. n |-> G[o[k]]]
  OBVIOUS
<1>3. q = Each(G, o)
  BY <1>1, <1>2 DEF Each
<1>4. DOMAIN q = 1 .. n /\ Len(q) = n /\ \A k \in 1 .. n : q[k] = G[o[k]]
  BY <1>2
<1> QED
  BY <1>1, <1>3, <1>4

LEMMA EachType ==
  ASSUME NEW X, NEW S, NEW G \in [S -> Seq(X)], NEW o \in Seq(S)
  PROVE  Each(G, o) \in Seq(Seq(X))
<1>1. PICK n \in Nat : n = Len(o)
  OBVIOUS
<1>2. PICK q : q = Each(G, o)
  OBVIOUS
<1>3. \A k \in 1 .. n : o[k] \in S
  BY <1>1
<1>4. q \in [1 .. n -> Seq(X)]
  BY <1>1, <1>2, <1>3 DEF Each
<1>5. q \in Seq(Seq(X))
  BY <1>4
<1> QED
  BY <1>2, <1>5

LEMMA AlongType ==
  ASSUME NEW X, NEW S, NEW G \in [S -> Seq(X)], NEW o \in Seq(S)
  PROVE  Along(G, o) \in Seq(X)
<1>1. PICK q : q = Each(G, o)
  OBVIOUS
<1>2. q \in Seq(Seq(X))
  BY <1>1, EachType
<1>3. <<>> \in Seq(X)
  BY EmptySeq
<1> QED
  BY <1>1, <1>2, <1>3, FlattenAppend DEF Along

LEMMA AlongAppend ==
  ASSUME NEW X, NEW S, NEW G \in [S -> Seq(X)], NEW o \in Seq(S), NEW f \in S
  PROVE  Along(G, Append(o, f)) = Along(G, o) \o G[f]
<1>1. PICK p \in Seq(S) : p = Append(o, f)
  BY AppendProperties
<1>2. PICK n \in Nat : n = Len(o)
  OBVIOUS
<1>3. Len(p) = n + 1 /\ p[n + 1] = f /\ \A k \in 1 .. n : p[k] = o[k]
  BY <1>1, <1>2, AppendProperties
<1>4. PICK q : q = Each(G, o)
  OBVIOUS
<1>5. PICK r : r = Each(G, p)
  OBVIOUS
<1>6. q \in Seq(Seq(X)) /\ Len(q) = n /\ \A k \in 1 .. n : q[k] = G[o[k]]
  <2>1. q \in Seq(Seq(X))
    BY <1>4, EachType
  <2> QED
    BY <1>2, <1>4, <2>1, EachShape
<1>7. r \in Seq(Seq(X)) /\ Len(r) = n + 1 /\ \A k \in 1 .. n + 1 : r[k] = G[p[k]]
  <2>1. r \in Seq(Seq(X))
    BY <1>5, EachType
  <2>2. Len(r) = Len(p) /\ \A k \in 1 .. Len(p) : r[k] = G[p[k]]
    BY <1>5, EachShape
  <2> QED
    BY <1>3, <2>1, <2>2
<1>8. PICK x \in Seq(X) : x = G[f]
  OBVIOUS
<1>9. r = Append(q, x)
  <2>0. PICK a \in Seq(Seq(X)) : a = Append(q, x)
    BY <1>6, AppendProperties
  <2>1. a = Append(q, x) /\ Len(a) = n + 1 /\ a[n + 1] = x /\ \A k \in 1 .. n : a[k] = q[k]
    BY <1>6, <2>0, AppendProperties
  <2>2. \A k \in 1 .. n + 1 : r[k] = a[k]
    <3>1. \A k \in 1 .. n : r[k] = a[k]
      <4> TAKE k \in 1 .. n
      <4>1. k \in 1 .. n + 1
        OBVIOUS
      <4> QED
        BY <1>3, <1>6, <1>7, <2>1, <4>1
    <3>2. n + 1 \in 1 .. n + 1
      OBVIOUS
    <3>3. r[n + 1] = a[n + 1]
      BY <1>3, <1>7, <1>8, <2>1, <3>2
    <3>4. \A k \in 1 .. n + 1 : k \in 1 .. n \/ k = n + 1
      OBVIOUS
    <3> QED
      BY <3>1, <3>3, <3>4
  <2>3. r = a
    BY <1>7, <2>1, <2>2, SeqEqual
  <2> QED
    BY <2>1, <2>3
<1>10. FlattenSeq(Append(q, x)) = FlattenSeq(q) \o x
  BY <1>6, FlattenAppend
<1> QED
  BY <1>1, <1>4, <1>5, <1>8, <1>9, <1>10 DEF Along

(* Elements that contribute nothing change nothing *)
Adds(G, e) == \E k \in 1 .. Len(e) : G[e[k]] # <<>>

LEMMA AlongQuiet ==
  ASSUME NEW X, NEW S, NEW G \in [S -> Seq(X)], NEW o \in Seq(S), NEW e \in Seq(S),
         ~Adds(G, e)
  PROVE  Along(G, o \o e) = Along(G, o)
<1>0. \A k \in 1 .. Len(e) : G[e[k]] = <<>>
  BY DEF Adds
<1>1. PICK p \in Seq(S) : p = o \o e
  BY ConcatProperties
<1>2. PICK n \in Nat : n = Len(o)
  OBVIOUS
<1>3. PICK m \in Nat : m = Len(e)
  OBVIOUS
<1>4. Len(p) = n + m /\ \A k \in 1 .. n + m : p[k] = IF k <= n THEN o[k] ELSE e[k - n]
  BY <1>1, <1>2, <1>3, ConcatProperties
<1>5. PICK q : q = Each(G, o)
  OBVIOUS
<1>6. PICK r : r = Each(G, p)
  OBVIOUS
<1>7. q \in Seq(Seq(X)) /\ Len(q) = n /\ \A k \in 1 .. n : q[k] = G[o[k]]
  <2>1. q \in Seq(Seq(X))
    BY <1>5, EachType
  <2> QED
    BY <1>2, <1>5, <2>1, EachShape
<1>8. r \in Seq(Seq(X)) /\ Len(r) = n + m /\ \A k \in 1 .. n + m : r[k] = G[p[k]]
  <2>1. r \in Seq(Seq(X))
    BY <1>6, EachType
  <2>2. Len(r) = Len(p) /\ \A k \in 1 .. Len(p) : r[k] = G[p[k]]
    BY <1>6, EachShape
  <2> QED
    BY <1>4, <2>1, <2>2
<1>9. \A k \in 1 .. n : r[k] = q[k]
  <2> TAKE k \in 1 .. n
  <2>1. k \in 1 .. n + m /\ k <= n
    OBVIOUS
  <2> QED
    BY <1>4, <1>7, <1>8, <2>1, ZenonT(60)
<1>10. \A k \in n + 1 .. n + m : r[k] = <<>>
  <2> TAKE k \in n + 1 .. n + m
  <2>1. k \in 1 .. n + m /\ ~(k <= n) /\ k - n \in 1 .. Len(e)
    BY <1>3
  <2> QED
    BY <1>0, <1>4, <1>8, <2>1
<1>11. FlattenSeq(r) = FlattenSeq(q)
  <2>1. /\ Len(q) <= Len(r)
        /\ \A k \in 1 .. Len(q) : r[k] = q[k]
        /\ \A k \in Len(q) + 1 .. Len(r) : r[k] = <<>>
    BY <1>7, <1>8, <1>9, <1>10
  <2>2. q \in Seq(Seq(X)) /\ r \in Seq(Seq(X))
    BY <1>7, <1>8
  <2> QED
    BY <2>1, <2>2, FlattenPad
<1> QED
  BY <1>1, <1>5, <1>6, <1>11 DEF Along
(* What the beginning of a sequence contributes begins what all of it does *)
Leads(o, p) == Len(o) <= Len(p) /\ \A k \in 1 .. Len(o) : p[k] = o[k]

Prolongs(y, x, X) == \E z \in Seq(X) : y = x \o z

LEMMA AlongPrefix ==
  ASSUME NEW X, NEW S, NEW G \in [S -> Seq(X)], NEW o \in Seq(S), NEW p \in Seq(S),
         Leads(o, p)
  PROVE  Prolongs(Along(G, p), Along(G, o), X)
<1>0. Len(o) <= Len(p) /\ \A k \in 1 .. Len(o) : p[k] = o[k]
  BY DEF Leads
<1>1. PICK q : q = Each(G, o)
  OBVIOUS
<1>2. PICK r : r = Each(G, p)
  OBVIOUS
<1>3. q \in Seq(Seq(X)) /\ Len(q) = Len(o) /\ \A k \in 1 .. Len(o) : q[k] = G[o[k]]
  <2>1. q \in Seq(Seq(X))
    BY <1>1, EachType
  <2>2. Len(q) = Len(o) /\ \A k \in 1 .. Len(o) : q[k] = G[o[k]]
    BY <1>1, EachShape
  <2> QED
    BY <2>1, <2>2
<1>4. r \in Seq(Seq(X)) /\ Len(r) = Len(p) /\ \A k \in 1 .. Len(p) : r[k] = G[p[k]]
  <2>1. r \in Seq(Seq(X))
    BY <1>2, EachType
  <2>2. Len(r) = Len(p) /\ \A k \in 1 .. Len(p) : r[k] = G[p[k]]
    BY <1>2, EachShape
  <2> QED
    BY <2>1, <2>2
<1>5. \A k \in 1 .. Len(q) : r[k] = q[k]
  <2>1. PICK n \in Nat : n = Len(o)
    OBVIOUS
  <2>2. PICK m \in Nat : m = Len(p)
    OBVIOUS
  <2>3. n <= m /\ \A k \in 1 .. n : p[k] = o[k]
    BY <1>0, <2>1, <2>2
  <2>4. ASSUME NEW k \in 1 .. n PROVE r[k] = q[k]
    <3>1. k \in 1 .. m
      BY <2>3
    <3>2. q[k] = G[o[k]] /\ r[k] = G[p[k]]
      BY <1>3, <1>4, <2>1, <2>2, <3>1
    <3> QED
      BY <2>3, <3>2
  <2> QED
    BY <1>3, <2>1, <2>4
<1>6. \E z \in Seq(X) : FlattenSeq(r) = FlattenSeq(q) \o z
  <2>1. Len(q) <= Len(r)
    BY <1>0, <1>3, <1>4
  <2> QED
    BY <1>3, <1>4, <1>5, <2>1, FlattenPrefix
<1> QED
  BY <1>1, <1>2, <1>6 DEF Along, Prolongs

(* Nothing is read off nothing *)
LEMMA EmptyAlong ==
  ASSUME NEW G
  PROVE  Along(G, <<>>) = <<>>
<1>1. PICK e \in Seq({}) : e = <<>> /\ Len(e) = 0
  BY EmptySeq
<1>2. PICK q : q = Each(G, e)
  OBVIOUS
<1>3. q = <<>>
  BY <1>1, <1>2 DEF Each
<1>4. Len(q) = 0
  BY <1>1, <1>3
<1> QED
  BY <1>1, <1>2, <1>3, <1>4 DEF Along, FlattenSeq

-----------------------------------------------------------------------------
(* Joining functions that agree where both are defined *)
LEMMA JoinOneMore ==
  ASSUME NEW X, NEW n \in Nat, NEW g \in [1 .. n -> Seq(X)], NEW h \in [1 .. n + 1 -> Seq(X)],
         \A k \in 1 .. n : h[k] = g[k]
  PROVE  /\ FlattenSeq(g) \in Seq(X)
         /\ FlattenSeq(h) = FlattenSeq(g) \o h[n + 1]
<1>1. g \in Seq(Seq(X)) /\ Len(g) = n /\ h \in Seq(Seq(X)) /\ Len(h) = n + 1
  OBVIOUS
<1>2. PICK x \in Seq(X) : x = h[n + 1]
  OBVIOUS
<1>3. PICK p \in Seq(Seq(X)) : p = Append(g, x)
  BY <1>1, AppendProperties
<1>4. Len(p) = n + 1 /\ p[n + 1] = x /\ \A k \in 1 .. n : p[k] = g[k]
  BY <1>1, <1>3, AppendProperties
<1>5. \A k \in 1 .. n + 1 : k \in 1 .. n \/ k = n + 1
  OBVIOUS
<1>6. \A k \in 1 .. n + 1 : h[k] = p[k]
  BY <1>2, <1>4, <1>5
<1>7. h = p
  BY <1>1, <1>4, <1>6, SeqEqual
<1>8. FlattenSeq(g) \in Seq(X) /\ FlattenSeq(Append(g, x)) = FlattenSeq(g) \o x
  BY <1>1, FlattenAppend
<1> QED
  BY <1>2, <1>3, <1>7, <1>8

LEMMA JoinEmpty ==
  ASSUME NEW X, NEW m \in Nat, NEW h \in [1 .. m -> Seq(X)], \A k \in 1 .. m : h[k] = <<>>
  PROVE  FlattenSeq(h) = <<>>
<1>1. PICK g \in Seq(Seq(X)) : g = <<>> /\ Len(g) = 0
  BY EmptySeq
<1>2. h \in Seq(Seq(X)) /\ Len(h) = m
  OBVIOUS
<1>3. FlattenSeq(h) = FlattenSeq(g)
  <2>1. /\ Len(g) <= Len(h) /\ \A k \in 1 .. Len(g) : h[k] = g[k]
        /\ \A k \in Len(g) + 1 .. Len(h) : h[k] = <<>>
    BY <1>1, <1>2
  <2> QED
    BY <1>1, <1>2, <2>1, FlattenPad
<1>4. FlattenSeq(g) = <<>>
  <2>1. PICK G : G = [x \in {} |-> x]
    OBVIOUS
  <2>2. PICK e : e = Each(G, g)
    OBVIOUS
  <2>3. e = g
    BY <1>1, <2>2 DEF Each
  <2>4. Along(G, g) = <<>>
    BY <1>1, EmptyAlong
  <2> QED
    BY <2>2, <2>3, <2>4 DEF Along
<1> QED
  BY <1>3, <1>4

-----------------------------------------------------------------------------
(* A set of sequences that has the empty one and, with a sequence, all     *)
(* those that are one longer, has them all                                 *)
LEMMA SeqInduction ==
  ASSUME NEW S, NEW G, <<>> \in G,
         \A q \in Seq(S) : q \in G => \A x \in S : Append(q, x) \in G
  PROVE  Seq(S) \subseteq G
<1> DEFINE Bad == {n \in Nat : \E q \in Seq(S) : Len(q) = n /\ q \notin G}
<1>1. SUFFICES ASSUME Bad # {} PROVE FALSE
  <2>1. ASSUME NEW q \in Seq(S), q \notin G PROVE Len(q) \in Bad
    BY <2>1, LenProperties
  <2> QED
    BY <1>1, <2>1
<1>2. PICK n \in Bad : \A k \in Bad : n <= k
  <2>1. Bad \subseteq Nat
    OBVIOUS
  <2> HIDE DEF Bad
  <2> QED
    BY <1>1, <2>1, LeastNat
<1>3. PICK q \in Seq(S) : Len(q) = n /\ q \notin G
  BY <1>2
<1>4. PICK p \in Seq(S), x \in S : q = Append(p, x)
  BY <1>3, SequenceEmptyOrAppend
<1>5. PICK m \in Nat : m = Len(p) /\ n = m + 1
  BY <1>3, <1>4, AppendProperties, LenProperties
<1>6. p \in G
  BY <1>2, <1>5
<1> QED
  BY <1>3, <1>4, <1>6

-----------------------------------------------------------------------------
(* The same facts in terms the provers do not look into: what they do not  *)
(* rewrite, they match                                                     *)
Of(q, S) == q \in Seq(S)

MapsTo(G, S, X) == G \in [S -> Seq(X)]

Cat(p, q) == p \o q
One(x) == <<x>>
Nil == <<>>

LEMMA CatOf ==
  ASSUME NEW S, NEW p, NEW q, Of(p, S), Of(q, S)
  PROVE  Of(Cat(p, q), S)
BY ConcatProperties DEF Of, Cat

LEMMA NilOf ==
  ASSUME NEW S
  PROVE  Of(Nil, S)
BY EmptySeq DEF Of, Nil

LEMMA OneOf ==
  ASSUME NEW S, NEW x \in S
  PROVE  Of(One(x), S) /\ Of(Nil, S)
BY EmptySeq DEF Of, One, Nil

LEMMA CatAssoc ==
  ASSUME NEW S, NEW p, NEW q, NEW r, Of(p, S), Of(q, S), Of(r, S)
  PROVE  Cat(Cat(p, q), r) = Cat(p, Cat(q, r))
BY ConcatAssociative DEF Of, Cat

LEMMA CatNil ==
  ASSUME NEW S, NEW q, Of(q, S)
  PROVE  Cat(q, Nil) = q /\ Cat(Nil, q) = q
BY ConcatEmptySeq DEF Of, Cat, Nil

LEMMA NilOrLonger ==
  ASSUME NEW S, NEW q, Of(q, S), q # Nil
  PROVE  \E p, x : Of(p, S) /\ x \in S /\ q = Cat(p, One(x))
<1>1. q \in Seq(S) /\ q # <<>>
  BY DEF Of, Nil
<1>2. PICK p \in Seq(S), x \in S : q = Append(p, x)
  BY <1>1, SequenceEmptyOrAppend
<1>3. Append(p, x) = p \o <<x>>
  BY <1>2, AppendIsConcat
<1> QED
  BY <1>2, <1>3 DEF Of, Cat, One

LEMMA OfInduction ==
  ASSUME NEW S, NEW G, Nil \in G,
         \A q : Of(q, S) /\ q \in G => \A x \in S : Cat(q, One(x)) \in G
  PROVE  \A q : Of(q, S) => q \in G
<1>1. ASSUME NEW q \in Seq(S), q \in G, NEW x \in S PROVE Append(q, x) \in G
  <2>1. Append(q, x) = q \o <<x>>
    BY <1>1, AppendIsConcat
  <2> QED
    BY <1>1, <2>1 DEF Of, Cat, One
<1>2. <<>> \in G
  BY DEF Nil
<1>3. Seq(S) \subseteq G
  BY <1>1, <1>2, SeqInduction
<1> QED
  BY <1>3 DEF Of

LEMMA AlongOne ==
  ASSUME NEW X, NEW S, NEW G \in [S -> Seq(X)], NEW q \in Seq(S), NEW x \in S
  PROVE  Along(G, Cat(q, One(x))) = Cat(Along(G, q), G[x])
<1>1. Append(q, x) = q \o <<x>>
  BY AppendIsConcat
<1>2. Along(G, Append(q, x)) = Along(G, q) \o G[x]
  BY AlongAppend
<1> QED
  BY <1>1, <1>2 DEF Cat, One

LEMMA AlongLonger ==
  ASSUME NEW X, NEW S, NEW G, NEW q, NEW x, MapsTo(G, S, X), Of(q, S), x \in S
  PROVE  Along(G, Cat(q, One(x))) = Cat(Along(G, q), G[x])
BY AlongOne DEF MapsTo, Of

LEMMA AlongOf ==
  ASSUME NEW X, NEW S, NEW G, NEW q, MapsTo(G, S, X), Of(q, S)
  PROVE  Of(Along(G, q), X)
BY AlongType DEF MapsTo, Of

LEMMA MapsToOf ==
  ASSUME NEW X, NEW S, NEW G, NEW x, MapsTo(G, S, X), x \in S
  PROVE  Of(G[x], X)
BY DEF MapsTo, Of

LEMMA AlongNil ==
  ASSUME NEW G
  PROVE  Along(G, Nil) = Nil
BY EmptyAlong DEF Nil

LEMMA AlongCat ==
  ASSUME NEW X, NEW S, NEW G, NEW p, NEW q, MapsTo(G, S, X), Of(p, S), Of(q, S)
  PROVE  Along(G, Cat(p, q)) = Cat(Along(G, p), Along(G, q))
<1> DEFINE Good == {r \in Seq(S) : Along(G, Cat(p, r)) = Cat(Along(G, p), Along(G, r))}
<1>0. Of(Along(G, p), X)
  BY AlongOf
<1>1. Nil \in Good
  <2>1. Nil \in Seq(S)
    BY OneOf, EmptySeq DEF Nil
  <2>2. Cat(p, Nil) = p
    BY CatNil
  <2>3. Along(G, Nil) = Nil
    BY AlongNil
  <2>4. Cat(Along(G, p), Nil) = Along(G, p)
    BY <1>0, CatNil
  <2> QED
    BY <2>1, <2>2, <2>3, <2>4
<1>2. ASSUME NEW r, Of(r, S), r \in Good, NEW x \in S PROVE Cat(r, One(x)) \in Good
  <2>1. Along(G, Cat(p, r)) = Cat(Along(G, p), Along(G, r))
    BY <1>2
  <2>2. Of(One(x), S)
    BY OneOf
  <2>3. Of(Cat(r, One(x)), S) /\ Of(Cat(p, r), S)
    BY <1>2, <2>2, CatOf
  <2> HIDE DEF Good
  <2>4. Along(G, Cat(r, One(x))) = Cat(Along(G, r), G[x])
    BY <1>2, AlongLonger
  <2>5. Along(G, Cat(Cat(p, r), One(x))) = Cat(Along(G, Cat(p, r)), G[x])
    BY <1>2, <2>3, AlongLonger
  <2>6. Cat(Cat(p, r), One(x)) = Cat(p, Cat(r, One(x)))
    BY <1>2, <2>2, CatAssoc
  <2>7. Of(Along(G, r), X) /\ Of(G[x], X)
    BY <1>2, AlongOf, MapsToOf
  <2>8. Cat(Cat(Along(G, p), Along(G, r)), G[x]) = Cat(Along(G, p), Cat(Along(G, r), G[x]))
    BY <1>0, <2>7, CatAssoc
  <2>9. Along(G, Cat(p, Cat(r, One(x)))) = Cat(Along(G, p), Along(G, Cat(r, One(x))))
    BY <2>1, <2>4, <2>5, <2>6, <2>8
  <2>10. Cat(r, One(x)) \in Seq(S)
    BY <2>3 DEF Of
  <2> QED
    BY <2>9, <2>10 DEF Good
<1>3. q \in Good
  <2> HIDE DEF Good
  <2> QED
    BY <1>1, <1>2, OfInduction
<1> QED
  BY <1>3

LEMMA OfWider ==
  ASSUME NEW S, NEW T, S \subseteq T, NEW q, Of(q, S)
  PROVE  Of(q, T)
<1>1. PICK n \in Nat : DOMAIN q = 1 .. n /\ n = Len(q)
  BY DEF Of
<1>2. \A k \in 1 .. n : q[k] \in T
  BY <1>1 DEF Of
<1>3. q = [k \in 1 .. n |-> q[k]]
  BY <1>1 DEF Of
<1> QED
  BY <1>1, <1>2, <1>3 DEF Of

LEMMA AlongSingle ==
  ASSUME NEW X, NEW S, NEW G, NEW x, MapsTo(G, S, X), x \in S
  PROVE  Along(G, One(x)) = G[x]
<1>1. Of(Nil, S) /\ Of(One(x), S) /\ Of(G[x], X)
  BY OneOf, MapsToOf
<1>2. Along(G, Cat(Nil, One(x))) = Cat(Along(G, Nil), G[x])
  BY <1>1, AlongLonger
<1>3. Cat(Nil, One(x)) = One(x) /\ Cat(Nil, G[x]) = G[x]
  BY <1>1, CatNil
<1> QED
  BY <1>2, <1>3, AlongNil

(* What contributes nothing, and what contributes itself *)
LEMMA AlongNone ==
  ASSUME NEW X, NEW S, NEW G, NEW q, MapsTo(G, S, X),
         NEW T, T \subseteq S, Of(q, T), \A x \in T : G[x] = Nil
  PROVE  Along(G, q) = Nil
<1> DEFINE Good == {r \in Seq(T) : Along(G, r) = Nil}
<1>1. Nil \in Good
  <2>1. Nil \in Seq(T)
    BY EmptySeq DEF Nil
  <2> QED
    BY <2>1, AlongNil
<1>2. ASSUME NEW r, Of(r, T), r \in Good, NEW x \in T PROVE Cat(r, One(x)) \in Good
  <2>1. Along(G, r) = Nil /\ G[x] = Nil /\ x \in S
    BY <1>2
  <2>2. Of(r, S)
    BY <1>2, OfWider
  <2>3. Of(Cat(r, One(x)), T) /\ Of(Nil, T)
    BY <1>2, OneOf, CatOf
  <2> HIDE DEF Good
  <2>4. Along(G, Cat(r, One(x))) = Cat(Along(G, r), G[x])
    BY <2>1, <2>2, AlongLonger
  <2>5. Cat(Nil, Nil) = Nil
    BY <2>3, CatNil
  <2>6. Cat(r, One(x)) \in Seq(T) /\ Along(G, Cat(r, One(x))) = Nil
    BY <2>1, <2>3, <2>4, <2>5 DEF Of
  <2> QED
    BY <2>6 DEF Good
<1>3. q \in Good
  <2> HIDE DEF Good
  <2> QED
    BY <1>1, <1>2, OfInduction
<1> QED
  BY <1>3

LEMMA AlongSame ==
  ASSUME NEW X, NEW S, NEW G, NEW q, MapsTo(G, S, X),
         NEW T, T \subseteq S, Of(q, T), \A x \in T : G[x] = One(x)
  PROVE  Along(G, q) = q
<1> DEFINE Good == {r \in Seq(T) : Along(G, r) = r}
<1>1. Nil \in Good
  <2>1. Nil \in Seq(T)
    BY EmptySeq DEF Nil
  <2> QED
    BY <2>1, AlongNil
<1>2. ASSUME NEW r, Of(r, T), r \in Good, NEW x \in T PROVE Cat(r, One(x)) \in Good
  <2>1. Along(G, r) = r /\ G[x] = One(x) /\ x \in S
    BY <1>2
  <2>2. Of(r, S)
    BY <1>2, OfWider
  <2>3. Of(Cat(r, One(x)), T)
    BY <1>2, OneOf, CatOf
  <2> HIDE DEF Good
  <2>4. Along(G, Cat(r, One(x))) = Cat(Along(G, r), G[x])
    BY <2>1, <2>2, AlongLonger
  <2>6. Cat(r, One(x)) \in Seq(T) /\ Along(G, Cat(r, One(x))) = Cat(r, One(x))
    BY <2>1, <2>3, <2>4 DEF Of
  <2> QED
    BY <2>6 DEF Good
<1>3. q \in Good
  <2> HIDE DEF Good
  <2> QED
    BY <1>1, <1>2, OfInduction
<1> QED
  BY <1>3

(* G contributes one element for one, the g of it *)
OneEach(G, g, T, X) == \A x \in T : g[x] \in X /\ G[x] = One(g[x])

Mirrors(p, q, g) == Len(p) = Len(q) /\ \A k \in 1 .. Len(q) : p[k] = g[q[k]]

LEMMA MirrorsLonger ==
  ASSUME NEW X, NEW T, NEW g, NEW p, NEW q, Of(q, T), Of(p, X), Mirrors(p, q, g),
         NEW x \in T, g[x] \in X
  PROVE  Mirrors(Cat(p, One(g[x])), Cat(q, One(x)), g)
<1>1. PICK n \in Nat : n = Len(q)
  BY DEF Of
<1>2. p \in Seq(X) /\ q \in Seq(T) /\ Len(p) = n /\ \A k \in 1 .. n : p[k] = g[q[k]]
  BY <1>1 DEF Of, Mirrors
<1>3. PICK y \in X : y = g[x]
  OBVIOUS
<1>4. /\ Len(Append(p, y)) = n + 1 /\ Append(p, y)[n + 1] = y
      /\ \A k \in 1 .. n : Append(p, y)[k] = p[k]
      /\ Append(p, y) = p \o <<y>>
  BY <1>2, AppendProperties, AppendIsConcat
<1>5. /\ Len(Append(q, x)) = n + 1 /\ Append(q, x)[n + 1] = x
      /\ \A k \in 1 .. n : Append(q, x)[k] = q[k]
      /\ Append(q, x) = q \o <<x>>
  BY <1>1, <1>2, AppendProperties, AppendIsConcat
<1>6. PICK a, b : a = Append(p, y) /\ b = Append(q, x)
  OBVIOUS
<1>7. \A k \in 1 .. n + 1 : a[k] = g[b[k]]
  <2>1. \A k \in 1 .. n + 1 : k \in 1 .. n \/ k = n + 1
    OBVIOUS
  <2> QED
    BY <1>2, <1>3, <1>4, <1>5, <1>6, <2>1
<1>8. Len(a) = n + 1 /\ Len(b) = n + 1
  BY <1>4, <1>5, <1>6
<1> QED
  BY <1>3, <1>4, <1>5, <1>6, <1>7, <1>8 DEF Mirrors, Cat, One

LEMMA AlongEach ==
  ASSUME NEW X, NEW S, NEW G, NEW q, MapsTo(G, S, X),
         NEW T, NEW g, T \subseteq S, Of(q, T),
         NEW Y, OneEach(G, g, T, Y)
  PROVE  Of(Along(G, q), Y) /\ Mirrors(Along(G, q), q, g)
<1> DEFINE Good == {r \in Seq(T) : Of(Along(G, r), Y) /\ Mirrors(Along(G, r), r, g)}
<1>1. Nil \in Good
  <2>1. Nil \in Seq(T) /\ Len(Nil) = 0
    BY EmptySeq DEF Nil
  <2>2. Of(Nil, Y)
    BY EmptySeq DEF Nil, Of
  <2>3. Mirrors(Nil, Nil, g)
    BY <2>1 DEF Mirrors
  <2> QED
    BY <2>1, <2>2, <2>3, AlongNil
<1>2. ASSUME NEW r, Of(r, T), r \in Good, NEW x \in T PROVE Cat(r, One(x)) \in Good
  <2>1. Of(Along(G, r), Y) /\ Mirrors(Along(G, r), r, g) /\ x \in S
    BY <1>2
  <2>2. g[x] \in Y /\ G[x] = One(g[x])
    BY DEF OneEach
  <2>3. Of(r, S)
    BY <1>2, OfWider
  <2>4. Of(Cat(r, One(x)), T)
    BY <1>2, OneOf, CatOf
  <2> HIDE DEF Good
  <2>5. Along(G, Cat(r, One(x))) = Cat(Along(G, r), One(g[x]))
    BY <2>1, <2>2, <2>3, AlongLonger
  <2>6. Mirrors(Cat(Along(G, r), One(g[x])), Cat(r, One(x)), g)
    BY <1>2, <2>1, <2>2, MirrorsLonger
  <2>7. Of(Cat(Along(G, r), One(g[x])), Y)
    BY <2>1, <2>2, OneOf, CatOf
  <2>8. Cat(r, One(x)) \in Seq(T)
    BY <2>4 DEF Of
  <2>9. Of(Along(G, Cat(r, One(x))), Y) /\ Mirrors(Along(G, Cat(r, One(x))), Cat(r, One(x)), g)
    BY <2>5, <2>6, <2>7
  <2> QED
    BY <2>8, <2>9 DEF Good
<1>3. q \in Good
  <2> HIDE DEF Good
  <2> QED
    BY <1>1, <1>2, OfInduction
<1> QED
  BY <1>3

(* c is p and then q *)
Adjoins(c, p, q) ==
  /\ Len(p) \in Nat /\ Len(q) \in Nat
  /\ DOMAIN p = 1 .. Len(p) /\ DOMAIN q = 1 .. Len(q)
  /\ DOMAIN c = 1 .. Len(p) + Len(q) /\ Len(c) = Len(p) + Len(q)
  /\ \A k \in 1 .. Len(p) : c[k] = p[k]
  /\ \A k \in Len(p) + 1 .. Len(p) + Len(q) : c[k] = q[k - Len(p)]

LEMMA CatShape ==
  ASSUME NEW S, NEW p, NEW q, Of(p, S), Of(q, S)
  PROVE  Adjoins(Cat(p, q), p, q)
<1>1. PICK m \in Nat, n \in Nat : m = Len(p) /\ n = Len(q)
  BY DEF Of
<1>2. p \in Seq(S) /\ q \in Seq(S)
  BY DEF Of
<1>3. /\ Len(p \o q) = m + n
      /\ \A k \in 1 .. m + n : (p \o q)[k] = IF k <= m THEN p[k] ELSE q[k - m]
  BY <1>1, <1>2, ConcatProperties
<1>4. p \o q \in Seq(S)
  BY <1>2, ConcatProperties
<1>5. \A k \in 1 .. m : k \in 1 .. m + n /\ k <= m /\ p[k] \in S
  BY <1>1, <1>2
<1>6. \A k \in m + 1 .. m + n : k \in 1 .. m + n /\ ~(k <= m) /\ q[k - m] \in S
  BY <1>1, <1>2
<1>7. DOMAIN p = 1 .. m /\ DOMAIN q = 1 .. n /\ DOMAIN (p \o q) = 1 .. m + n
  BY <1>1, <1>2, <1>3, <1>4
<1> QED
  BY <1>1, <1>3, <1>5, <1>6, <1>7 DEF Cat, Adjoins

(* A first part of one kind and a second of others *)
LEMMA CatOrdered ==
  ASSUME NEW S, NEW p, NEW q, Of(p, S), Of(q, S), NEW T,
         Of(p, T), NEW U, Of(q, U), T \cap U = {}
  PROVE  \A i, j \in DOMAIN Cat(p, q) : Cat(p, q)[i] \in T /\ Cat(p, q)[j] \notin T => i < j
<1>1. PICK c : c = Cat(p, q)
  OBVIOUS
<1>0. Adjoins(c, p, q)
  BY <1>1, CatShape
<1>5. PICK m \in Nat, n \in Nat :
        /\ DOMAIN c = 1 .. m + n /\ DOMAIN p = 1 .. m /\ DOMAIN q = 1 .. n
        /\ \A k \in 1 .. m : c[k] = p[k]
        /\ \A k \in m + 1 .. m + n : c[k] = q[k - m]
  BY <1>0 DEF Adjoins
<1>2. \A k \in 1 .. m : c[k] \in T
  BY <1>5 DEF Of
<1>3. \A k \in m + 1 .. m + n : c[k] \notin T
  <2>1. \A k \in 1 .. n : q[k] \in U
    BY <1>5 DEF Of
  <2> QED
    BY <1>5, <2>1
<1>4. \A k \in 1 .. m + n : k \in 1 .. m \/ k \in m + 1 .. m + n
  OBVIOUS
<1> QED
  BY <1>1, <1>2, <1>3, <1>4, <1>5

(* C is what H makes of what G makes of an element *)
Through(C, G, H, S) == \A x \in S : C[x] = Along(H, G[x])

LEMMA AlongAlong ==
  ASSUME NEW S, NEW T, NEW X, NEW G, NEW H, NEW C, MapsTo(G, S, T), MapsTo(H, T, X),
         MapsTo(C, S, X), Through(C, G, H, S), NEW q, Of(q, S)
  PROVE  Along(H, Along(G, q)) = Along(C, q)
<1> DEFINE Good == {r \in Seq(S) : Along(H, Along(G, r)) = Along(C, r)}
<1>1. Nil \in Good
  <2>1. Nil \in Seq(S)
    BY EmptySeq DEF Nil
  <2> QED
    BY <2>1, AlongNil
<1>2. ASSUME NEW r, Of(r, S), r \in Good, NEW x \in S PROVE Cat(r, One(x)) \in Good
  <2>1. Along(H, Along(G, r)) = Along(C, r) /\ C[x] = Along(H, G[x])
    BY <1>2 DEF Through
  <2>3. Of(Cat(r, One(x)), S)
    BY <1>2, OneOf, CatOf
  <2> HIDE DEF Good
  <2>4. Along(G, Cat(r, One(x))) = Cat(Along(G, r), G[x])
    BY <1>2, AlongLonger
  <2>5. Along(C, Cat(r, One(x))) = Cat(Along(C, r), C[x])
    BY <1>2, AlongLonger
  <2>6. Of(Along(G, r), T)
    BY <1>2, AlongOf
  <2>7. Of(G[x], T)
    BY MapsToOf
  <2>8. Along(H, Cat(Along(G, r), G[x])) = Cat(Along(H, Along(G, r)), Along(H, G[x]))
    BY <2>6, <2>7, AlongCat
  <2>9. Cat(r, One(x)) \in Seq(S)
    BY <2>3 DEF Of
  <2> QED
    BY <2>1, <2>4, <2>5, <2>8, <2>9 DEF Good
<1>3. q \in Good
  <2> HIDE DEF Good
  <2> QED
    BY <1>1, <1>2, OfInduction
<1> QED
  BY <1>3

(* How a definition that maps or joins is read off *)
LEMMA AlongIs ==
  ASSUME NEW G, NEW q, NEW h, h = [k \in DOMAIN q |-> G[q[k]]]
  PROVE  FlattenSeq(h) = Along(G, q)
BY DEF Along, Each

LEMMA EachIs ==
  ASSUME NEW X, NEW S, NEW G, NEW q, MapsTo(G, S, X),
         NEW T, NEW g, T \subseteq S, Of(q, T),
         NEW Y, OneEach(G, g, T, Y),
         NEW h, h = [k \in DOMAIN q |-> g[q[k]]]
  PROVE  h = Along(G, q)
<1>1. PICK a : a = Along(G, q)
  OBVIOUS
<1>2. Of(a, Y) /\ Mirrors(a, q, g)
  BY <1>1, AlongEach
<1>3. PICK n \in Nat : n = Len(q) /\ DOMAIN q = 1 .. n /\ \A k \in 1 .. n : q[k] \in T
  BY DEF Of
<1>4. a \in Seq(Y) /\ Len(a) = n /\ \A k \in 1 .. n : a[k] = g[q[k]]
  BY <1>2, <1>3 DEF Of, Mirrors
<1>5. h \in [1 .. n -> Y]
  BY <1>3 DEF OneEach
<1>6. h \in Seq(Y) /\ Len(h) = n /\ \A k \in 1 .. n : h[k] = a[k]
  BY <1>3, <1>4, <1>5
<1>7. h = a
  BY <1>4, <1>6, SeqEqual
<1> QED
  BY <1>1, <1>7

-----------------------------------------------------------------------------
LEMMA LiveSeqs ==
  /\ Live \subseteq 1 .. Len(StopSeqs)
  /\ \A k \in Live : StopSeqs[k] \in Texts /\ Len(StopSeqs[k]) \in Nat \ {0}
  BY StopSeqsAssumption DEF Live, Texts

LEMMA LengthsBounded ==
  \E n \in Nat : \A k \in 1 .. Len(StopSeqs) : Len(StopSeqs[k]) <= n
<1> DEFINE f == [k \in 1 .. Len(StopSeqs) |-> Len(StopSeqs[k])]
<1>1. Len(StopSeqs) \in Nat /\ f \in [1 .. Len(StopSeqs) -> Nat]
  BY StopSeqsAssumption
<1>2. \A k \in 1 .. Len(StopSeqs) : f[k] = Len(StopSeqs[k])
  OBVIOUS
<1> HIDE DEF f
<1>3. PICK n \in Nat : \A k \in 1 .. Len(StopSeqs) : f[k] <= n
  BY <1>1, BoundedSequence
<1> QED
  BY <1>2, <1>3

(* If there is a window, some usable sequence is MaxLen characters long     *)
(* and none is longer                                                      *)
LEMMA MaxLenIsMax ==
  ASSUME HasWindow
  PROVE  /\ MaxLen \in Nat \ {0}
         /\ \A k \in Live : Len(StopSeqs[k]) <= MaxLen
         /\ \E k \in Live : Len(StopSeqs[k]) = MaxLen
<1> DEFINE Lens == {Len(StopSeqs[k]) : k \in Live}
           Bounds == {n \in Nat : \A l \in Lens : l <= n}
<1>1. Lens \subseteq Nat \ {0} /\ Lens # {}
  BY LiveSeqs DEF HasWindow
<1>2. PICK b \in Bounds : \A c \in Bounds : b <= c
  <2>1. Bounds # {}
    BY LengthsBounded, LiveSeqs
  <2>2. Bounds \subseteq Nat
    OBVIOUS
  <2> HIDE DEF Bounds
  <2> QED
    BY <2>1, <2>2, LeastNat
<1>3. b \in Lens
  <2> HIDE DEF Lens
  <2>1. SUFFICES ASSUME b \notin Lens PROVE FALSE
    OBVIOUS
  <2>2. b # 0
    <3>1. PICK l \in Lens : TRUE
      BY <1>1
    <3>2. l \in Nat \ {0} /\ l <= b
      BY <1>1, <1>2, <3>1
    <3> QED
      BY <3>2
  <2>3. b - 1 \in Bounds
    BY <1>1, <1>2, <2>1, <2>2
  <2> QED
    BY <1>2, <2>3
<1>4. \E n \in Lens : \A k \in Live : Len(StopSeqs[k]) <= n
  BY <1>2, <1>3
<1>5. MaxLen \in Lens /\ \A k \in Live : Len(StopSeqs[k]) <= MaxLen
  BY <1>4 DEF MaxLen, HasWindow
<1>6. \E k \in Live : Len(StopSeqs[k]) = MaxLen
  BY <1>5
<1> QED
  BY <1>1, <1>5, <1>6

LEMMA MaxLenNat == MaxLen \in Nat
  BY MaxLenIsMax DEF MaxLen

(* Of a buffer everything is released except the last MaxLen - 1           *)
(* characters, or the whole of it if it is shorter than that.              *)
LEMMA SplitBounds ==
  ASSUME NEW buf \in Texts, HasWindow
  PROVE  /\ Split(buf) \in 0 .. Len(buf)
         /\ Len(buf) - Split(buf) <= MaxLen - 1
         /\ Split(buf) > 0 => Len(buf) - Split(buf) = MaxLen - 1
<1>1. MaxLen \in Nat \ {0} /\ Len(buf) \in Nat
  BY MaxLenIsMax DEF Texts
<1> QED
  BY <1>1 DEF Split

LEMMA SplitInside ==
  ASSUME NEW buf \in Texts
  PROVE  Split(buf) \in 0 .. Len(buf)
<1>1. MaxLen \in Nat /\ Len(buf) \in Nat
  BY MaxLenNat DEF Texts
<1> QED
  BY <1>1 DEF Split

-----------------------------------------------------------------------------
(* What fires is a usable sequence, and the text before it is released *)
LEMMA FirstFiredIsLive ==
  ASSUME NEW buf \in Texts, Fired(buf) # {}
  PROVE  FirstFired(buf) \in Live /\ Occurs(StopSeqs[FirstFired(buf)], buf)
<1>1. Fired(buf) \subseteq Nat
  <2>1. Live \subseteq 1 .. Len(StopSeqs) /\ Len(StopSeqs) \in Nat
    BY LiveSeqs, StopSeqsAssumption
  <2>2. Live \subseteq Nat
    BY <2>1
  <2> QED
    BY <2>2, Zenon DEF Fired
<1>2. PICK k \in Fired(buf) : \A j \in Fired(buf) : k <= j
  BY <1>1, LeastNat
<1>3. FirstFired(buf) \in Fired(buf)
  BY <1>2 DEF FirstFired
<1> QED
  BY <1>3 DEF Fired

LEMMA FindInside ==
  ASSUME NEW buf \in Texts, NEW s \in Texts, Occurs(s, buf)
  PROVE  Find(s, buf) \in 1 .. Len(buf) /\ OccursAt(s, buf, Find(s, buf))
<1> DEFINE T == {p \in 1 .. Len(buf) : OccursAt(s, buf, p)}
<1>1. T \subseteq Nat /\ T # {}
  BY DEF Occurs, Texts
<1>2. PICK p \in T : \A q \in T : p <= q
  BY <1>1, LeastNat
<1>3. p \in 1 .. Len(buf) /\ OccursAt(s, buf, p)
      /\ \A q \in 1 .. Len(buf) : OccursAt(s, buf, q) => p <= q
  BY <1>2
<1> QED
  BY <1>3 DEF Find

(* A part of a text is a text *)
LEMMA PartOfText ==
  ASSUME NEW buf \in Texts, NEW m \in 1 .. Len(buf) + 1, NEW n \in 0 .. Len(buf)
  PROVE  /\ SubSeq(buf, m, n) \in Texts
         /\ Len(SubSeq(buf, m, n)) = IF m <= n THEN n - m + 1 ELSE 0
         /\ \A i \in 1 .. n - m + 1 : SubSeq(buf, m, n)[i] = buf[m + i - 1]
<1>1. Len(buf) \in Nat /\ m \in Int /\ n \in Int /\ \A i \in m .. n : buf[i] \in Char
  BY DEF Texts
<1> QED
  BY <1>1, SubSeqProperties DEF Texts

(* The buffer that feed looks at, once the window follows the block *)
LEMMA RetargetType ==
  ASSUME NEW w \in Windows, NEW idx \in Nat, NEW kind \in {"text", "thinking"}
  PROVE  /\ Retarget(w, idx, kind) \in Windows
         /\ Retarget(w, idx, kind).block = idx
         /\ Retarget(w, idx, kind).matched = w.matched
         /\ Retarget(w, idx, kind).tail = IF w.block = idx THEN w.tail ELSE <<>>
  BY EmptySeq DEF Retarget, Windows, Texts

LEMMA TextLen ==
  ASSUME NEW buf \in Texts
  PROVE  Len(buf) \in Nat
  BY DEF Texts

(* The buffer that feed looks at is a text *)
LEMMA BufferType ==
  ASSUME NEW w \in Windows, NEW idx \in Nat, NEW kind \in {"text", "thinking"},
         NEW incoming \in Texts
  PROVE  Retarget(w, idx, kind).tail \o incoming \in Texts
<1>1. PICK t \in Texts : t = Retarget(w, idx, kind).tail
  BY RetargetType DEF Windows
<1>2. t \o incoming \in Texts
  BY <1>1, ConcatProperties DEF Texts
<1> QED
  BY <1>1, <1>2

(* buf is the buffer that a call of feed looks at, nothing having fired *)
Buffered(w, idx, kind, incoming, buf) ==
  /\ w \in Windows
  /\ idx \in Nat
  /\ kind \in {"text", "thinking"}
  /\ incoming \in Texts
  /\ buf \in Texts
  /\ w.matched = <<>>
  /\ buf = Retarget(w, idx, kind).tail \o incoming

(* A feed that fires releases the text before the sequence and keeps       *)
(* nothing.                                                                *)
HasFired(r, idx, buf) ==
  /\ r.win \in Windows
  /\ r.win.block = idx
  /\ r.win.tail = <<>>
  /\ r.win.matched # <<>>
  /\ r.win.matched = StopSeqs[FirstFired(buf)]
  /\ FirstFired(buf) \in Live
  /\ r.emit \in Texts
  /\ \E n \in 0 .. Len(buf) : r.emit = SubSeq(buf, 1, n)

LEMMA FeedFires ==
  ASSUME NEW w, NEW idx, NEW kind, NEW incoming, NEW buf,
         Buffered(w, idx, kind, incoming, buf), Fired(buf) # {}
  PROVE  HasFired(Feed(w, idx, kind, incoming), idx, buf)
<1>0. /\ w \in Windows /\ idx \in Nat /\ kind \in {"text", "thinking"}
      /\ incoming \in Texts /\ buf \in Texts /\ w.matched = <<>>
      /\ buf = Retarget(w, idx, kind).tail \o incoming
  BY DEF Buffered
<1>1. PICK v \in Windows : /\ v = Retarget(w, idx, kind)
                           /\ v.block = idx /\ v.matched = <<>>
  <2>1. /\ Retarget(w, idx, kind) \in Windows
        /\ Retarget(w, idx, kind).block = idx
        /\ Retarget(w, idx, kind).matched = w.matched
    BY <1>0, RetargetType, ZenonT(40)
  <2> QED
    BY <1>0, <2>1, Zenon
<1>2. PICK s : s = StopSeqs[FirstFired(buf)]
  OBVIOUS
<1>3. FirstFired(buf) \in Live /\ s \in Texts /\ s # <<>> /\ Occurs(s, buf)
  BY <1>0, <1>2, FirstFiredIsLive, LiveSeqs DEF Live
<1>4. PICK n : n = Find(s, buf) - 1
  OBVIOUS
<1>5. n \in 0 .. Len(buf) /\ Len(buf) \in Nat
  <2>1. Find(s, buf) \in 1 .. Len(buf) /\ Len(buf) \in Nat
    BY <1>0, <1>3, FindInside, TextLen
  <2> QED
    BY <2>1, <1>4
<1>6. SubSeq(buf, 1, n) \in Texts
  <2>1. 1 \in 1 .. Len(buf) + 1
    BY <1>5
  <2> QED
    BY <1>0, <2>1, <1>5, PartOfText
<1>7. PICK u : u = [v EXCEPT !.tail = <<>>, !.matched = s]
  OBVIOUS
<1>8. PICK e : e = SubSeq(buf, 1, n)
  OBVIOUS
<1>9. /\ u \in Windows /\ u.block = idx /\ u.tail = <<>> /\ u.matched = s
  BY <1>1, <1>3, <1>7, EmptySeq DEF Windows, Texts
<1>10. Feed(w, idx, kind, incoming) = [win |-> u, emit |-> e]
  BY <1>0, <1>1, <1>2, <1>4, <1>7, <1>8, Zenon DEF Feed
<1>11. /\ Feed(w, idx, kind, incoming).win = u
       /\ Feed(w, idx, kind, incoming).emit = e
  BY <1>10
<1> QED
  BY <1>2, <1>3, <1>5, <1>6, <1>8, <1>9, <1>11 DEF HasFired

(* A feed that does not fire divides the buffer at Split *)
HasPassed(r, idx, buf) ==
  /\ r.win \in Windows
  /\ r.win.block = idx
  /\ r.win.tail = SubSeq(buf, Split(buf) + 1, Len(buf))
  /\ r.win.matched = <<>>
  /\ r.emit \in Texts
  /\ r.emit = SubSeq(buf, 1, Split(buf))

LEMMA FeedPasses ==
  ASSUME NEW w, NEW idx, NEW kind, NEW incoming, NEW buf,
         Buffered(w, idx, kind, incoming, buf), Fired(buf) = {}
  PROVE  HasPassed(Feed(w, idx, kind, incoming), idx, buf)
<1>0. /\ w \in Windows /\ idx \in Nat /\ kind \in {"text", "thinking"}
      /\ incoming \in Texts /\ buf \in Texts /\ w.matched = <<>>
      /\ buf = Retarget(w, idx, kind).tail \o incoming
  BY DEF Buffered
<1>1. PICK v \in Windows : /\ v = Retarget(w, idx, kind)
                           /\ v.block = idx /\ v.matched = <<>>
  <2>1. /\ Retarget(w, idx, kind) \in Windows
        /\ Retarget(w, idx, kind).block = idx
        /\ Retarget(w, idx, kind).matched = w.matched
    BY <1>0, RetargetType, ZenonT(40)
  <2> QED
    BY <1>0, <2>1, Zenon
<1>2. Split(buf) \in 0 .. Len(buf) /\ Len(buf) \in Nat
  BY <1>0, SplitInside, TextLen
<1>3. PICK n \in 0 .. Len(buf) : n = Split(buf)
  BY <1>2
<1>4. 1 \in 1 .. Len(buf) + 1 /\ n + 1 \in 1 .. Len(buf) + 1
      /\ Len(buf) \in 0 .. Len(buf)
  BY <1>2
<1>5. SubSeq(buf, 1, n) \in Texts /\ SubSeq(buf, n + 1, Len(buf)) \in Texts
  BY <1>0, <1>4, PartOfText
<1>6. Feed(w, idx, kind, incoming) =
        [win  |-> [v EXCEPT !.tail = SubSeq(buf, n + 1, Len(buf))],
         emit |-> SubSeq(buf, 1, n)]
  BY <1>0, <1>1, <1>3 DEF Feed
<1>7. PICK t \in Texts : t = SubSeq(buf, n + 1, Len(buf))
  BY <1>5
<1>8. PICK u : u = [v EXCEPT !.tail = t]
  OBVIOUS
<1>9. /\ u \in Windows /\ u.block = idx /\ u.tail = t /\ u.matched = <<>>
  BY <1>1, <1>8 DEF Windows
<1>10. /\ Feed(w, idx, kind, incoming).win = u
       /\ Feed(w, idx, kind, incoming).emit = SubSeq(buf, 1, n)
  BY <1>6, <1>7, <1>8
<1> QED
  BY <1>3, <1>5, <1>7, <1>9, <1>10 DEF HasPassed

(* feed turns windows and texts into windows and texts *)
LEMMA FeedType ==
  ASSUME NEW w \in Windows, NEW idx \in Nat, NEW kind \in {"text", "thinking"},
         NEW incoming \in Texts
  PROVE  /\ Feed(w, idx, kind, incoming).win \in Windows
         /\ Feed(w, idx, kind, incoming).emit \in Texts
<1>1. CASE w.matched = <<>>
  <2>1. PICK buf : Buffered(w, idx, kind, incoming, buf)
    BY <1>1, BufferType, Zenon DEF Buffered
  <2> QED
    BY <2>1, FeedFires, FeedPasses DEF HasFired, HasPassed
<1>2. CASE w.matched # <<>>
  BY <1>2, EmptySeq DEF Feed, Texts
<1> QED
  BY <1>1, <1>2

(* The kind of the window is the one it had or that of the text fed last *)
LEMMA FeedKind ==
  ASSUME NEW w \in Windows, NEW idx \in Nat, NEW kind \in {"text", "thinking"},
         NEW incoming \in Texts
  PROVE  Feed(w, idx, kind, incoming).win.kind \in {w.kind, kind}
<1>1. PICK v \in Windows : v = Retarget(w, idx, kind)
  BY RetargetType, Zenon
<1>2. v.kind \in {w.kind, kind}
  BY <1>1 DEF Retarget, Windows
<1>3. \A t, m : [v EXCEPT !.tail = t].kind = v.kind
              /\ [v EXCEPT !.tail = t, !.matched = m].kind = v.kind
  BY DEF Windows
<1>4. Feed(w, idx, kind, incoming).win.kind \in {w.kind, v.kind}
  BY <1>1, <1>3 DEF Feed
<1> QED
  BY <1>2, <1>4

-----------------------------------------------------------------------------
(* Texts put together and taken apart *)
LEMMA ConcatText ==
  ASSUME NEW x \in Texts, NEW y \in Texts
  PROVE  /\ x \o y \in Texts
         /\ Len(x \o y) = Len(x) + Len(y)
         /\ \A i \in 1 .. Len(x) + Len(y) :
              (x \o y)[i] = IF i <= Len(x) THEN x[i] ELSE y[i - Len(x)]
  BY ConcatProperties DEF Texts

LEMMA Assoc ==
  ASSUME NEW x \in Texts, NEW y \in Texts, NEW z \in Texts
  PROVE  (x \o y) \o z = x \o (y \o z)
  BY ConcatAssociative DEF Texts

LEMMA Halves ==
  ASSUME NEW buf \in Texts, NEW n \in 0 .. Len(buf)
  PROVE  SubSeq(buf, 1, n) \o SubSeq(buf, n + 1, Len(buf)) = buf
<1>1. Len(buf) \in Nat /\ buf \in Seq(Char)
  BY DEF Texts
<1>2. 1 \in 1 .. Len(buf) + 1 /\ n \in 1 - 1 .. Len(buf) /\ Len(buf) \in n .. Len(buf)
  BY <1>1
<1>3. SubSeq(buf, 1, n) \o SubSeq(buf, n + 1, Len(buf)) = SubSeq(buf, 1, Len(buf))
  BY <1>1, <1>2, ConcatAdjacentSubSeq, Zenon
<1>4. SubSeq(buf, 1, Len(buf)) = buf
  BY <1>1, SubSeqFull, Zenon
<1> QED
  BY <1>3, <1>4

(* A text with a buffer after it, the buffer in two parts *)
LEMMA Regroup ==
  ASSUME NEW x \in Texts, NEW buf \in Texts, NEW n \in 0 .. Len(buf)
  PROVE  /\ x \o SubSeq(buf, 1, n) \in Texts
         /\ SubSeq(buf, n + 1, Len(buf)) \in Texts
         /\ (x \o SubSeq(buf, 1, n)) \o SubSeq(buf, n + 1, Len(buf)) = x \o buf
<1>1. 1 \in 1 .. Len(buf) + 1 /\ n + 1 \in 1 .. Len(buf) + 1 /\ Len(buf) \in 0 .. Len(buf)
  BY TextLen
<1>2. PICK h : h = SubSeq(buf, 1, n)
  OBVIOUS
<1>3. PICK k : k = SubSeq(buf, n + 1, Len(buf))
  OBVIOUS
<1>4. h \in Texts /\ k \in Texts
  BY <1>1, <1>2, <1>3, PartOfText
<1>5. h \o k = buf
  BY <1>2, <1>3, Halves
<1>6. x \o h \in Texts
  BY <1>4, ConcatText
<1>7. (x \o h) \o k = x \o (h \o k)
  BY <1>4, Assoc, ZenonT(40)
<1>8. (x \o h) \o k = x \o buf
  BY <1>5, <1>7, Zenon
<1> QED
  BY <1>2, <1>3, <1>4, <1>6, <1>8, ZenonT(40)

(* An occurrence, character by character *)
LEMMA OccursPointwise ==
  ASSUME NEW s \in Texts, NEW b \in Texts, NEW p \in 1 .. Len(b), s # <<>>
  PROVE  OccursAt(s, b, p) <=> /\ p + Len(s) - 1 <= Len(b)
                               /\ \A i \in 1 .. Len(s) : b[p + i - 1] = s[i]
<1>1. Len(b) \in Nat /\ Len(s) \in Nat \ {0} /\ p \in Nat \ {0}
  BY EmptySeq DEF Texts
<1>2. ASSUME p + Len(s) - 1 <= Len(b)
      PROVE  SubSeq(b, p, p + Len(s) - 1) = s <=>
               \A i \in 1 .. Len(s) : b[p + i - 1] = s[i]
  <2>1. PICK n : n = p + Len(s) - 1
    OBVIOUS
  <2>2. n \in 0 .. Len(b) /\ p \in 1 .. Len(b) + 1 /\ p <= n /\ n - p + 1 = Len(s)
    BY <1>1, <1>2, <2>1
  <2>3. PICK u : u = SubSeq(b, p, n)
    OBVIOUS
  <2>4. u \in Texts /\ Len(u) = Len(s) /\ \A i \in 1 .. Len(s) : u[i] = b[p + i - 1]
    BY <2>2, <2>3, PartOfText
  <2>5. u = s <=> \A i \in 1 .. Len(s) : u[i] = s[i]
    BY <2>4, SeqEqual DEF Texts
  <2> QED
    BY <2>1, <2>3, <2>4, <2>5
<1> QED
  BY <1>2 DEF OccursAt

(* An occurrence that is not over before d begins reaches back at most     *)
(* Len(s) - 1 characters: it lies in t \o d if t is that long, or if t is  *)
(* all there is before d.                                                  *)
LEMMA StraddleAt ==
  ASSUME NEW s \in Texts, s # <<>>, NEW x \in Texts, NEW t \in Texts, NEW d \in Texts,
         ~Occurs(s, x \o t), x = <<>> \/ Len(t) >= Len(s) - 1,
         NEW p \in 1 .. Len(x \o (t \o d)), OccursAt(s, x \o (t \o d), p)
  PROVE  p - Len(x) \in 1 .. Len(t \o d) /\ OccursAt(s, t \o d, p - Len(x))
<1>1. PICK b : b = t \o d
  OBVIOUS
<1>2. PICK a : a = x \o b
  OBVIOUS
<1>3. PICK c : c = x \o t
  OBVIOUS
<1>4. /\ b \in Texts /\ Len(b) = Len(t) + Len(d)
      /\ \A i \in 1 .. Len(t) + Len(d) : b[i] = IF i <= Len(t) THEN t[i] ELSE d[i - Len(t)]
  BY <1>1, ConcatText
<1>5. /\ a \in Texts /\ Len(a) = Len(x) + Len(b)
      /\ \A i \in 1 .. Len(x) + Len(b) : a[i] = IF i <= Len(x) THEN x[i] ELSE b[i - Len(x)]
  BY <1>2, <1>4, ConcatText
<1>6. /\ c \in Texts /\ Len(c) = Len(x) + Len(t)
      /\ \A i \in 1 .. Len(x) + Len(t) : c[i] = IF i <= Len(x) THEN x[i] ELSE t[i - Len(x)]
  BY <1>3, ConcatText
<1>7. /\ Len(x) \in Nat /\ Len(t) \in Nat /\ Len(d) \in Nat
      /\ Len(s) \in Nat \ {0}
  BY TextLen, EmptySeq DEF Texts
<1>8. p \in 1 .. Len(a) /\ OccursAt(s, a, p)
  BY <1>1, <1>2
<1>9. /\ p + Len(s) - 1 <= Len(a)
      /\ \A i \in 1 .. Len(s) : a[p + i - 1] = s[i]
  BY <1>5, <1>8, OccursPointwise
<1>10. ~(p + Len(s) - 1 <= Len(c))
  <2>1. SUFFICES ASSUME p + Len(s) - 1 <= Len(c) PROVE FALSE
    OBVIOUS
  <2>2. p \in 1 .. Len(c)
    BY <1>6, <1>7, <1>8, <2>1
  <2>3. ASSUME NEW i \in 1 .. Len(s) PROVE c[p + i - 1] = s[i]
    <3>1. PICK j : j = p + i - 1
      OBVIOUS
    <3>2. j \in 1 .. Len(x) + Len(t) /\ j \in 1 .. Len(x) + Len(b)
      BY <1>4, <1>5, <1>6, <1>7, <1>8, <2>1, <3>1
    <3>3. a[j] = s[i]
      BY <1>9, <3>1
    <3>4. CASE j <= Len(x)
      BY <1>5, <1>6, <3>2, <3>3, <3>4, <3>1
    <3>5. CASE ~(j <= Len(x))
      <4>1. PICK k : k = j - Len(x)
        OBVIOUS
      <4>2. k \in 1 .. Len(t) + Len(d) /\ k <= Len(t)
        BY <1>7, <3>2, <3>5, <4>1
      <4>3. a[j] = b[k] /\ c[j] = t[k]
        BY <1>5, <1>6, <3>2, <3>5, <4>1
      <4>4. b[k] = t[k]
        BY <1>4, <4>2
      <4> QED
        BY <3>1, <3>3, <4>3, <4>4
    <3> QED
      BY <3>4, <3>5
  <2>4. OccursAt(s, c, p)
    BY <1>6, <2>1, <2>2, <2>3, OccursPointwise
  <2> QED
    BY <1>3, <2>2, <2>4 DEF Occurs
<1>11. PICK q : q = p - Len(x)
  OBVIOUS
<1>12. p \in Nat /\ p >= 1 /\ Len(a) \in Nat /\ Len(x) >= 0
  BY <1>4, <1>5, <1>7, <1>8
<1>13. q >= 1
  <2>1. CASE x = <<>>
    BY <1>11, <1>12, <2>1, EmptySeq
  <2>2. CASE Len(t) >= Len(s) - 1
    BY <1>6, <1>7, <1>10, <1>11, <1>12, <2>2
  <2> QED
    BY <2>1, <2>2
<1>14. q \in 1 .. Len(b) /\ q + Len(s) - 1 <= Len(b)
  BY <1>4, <1>5, <1>7, <1>9, <1>11, <1>12, <1>13
<1>15. ASSUME NEW i \in 1 .. Len(s) PROVE b[q + i - 1] = s[i]
  <2>1. PICK j : j = p + i - 1
    OBVIOUS
  <2>2. j \in 1 .. Len(x) + Len(b) /\ ~(j <= Len(x)) /\ j - Len(x) = q + i - 1
    BY <1>4, <1>7, <1>9, <1>5, <1>11, <1>12, <1>13, <2>1
  <2>3. a[j] = b[j - Len(x)]
    BY <1>5, <2>2
  <2> QED
    BY <1>9, <2>1, <2>2, <2>3
<1>16. OccursAt(s, b, q)
  BY <1>4, <1>14, <1>15, OccursPointwise
<1> QED
  BY <1>1, <1>11, <1>14, <1>16

LEMMA Straddle ==
  ASSUME NEW s \in Texts, s # <<>>, NEW x \in Texts, NEW t \in Texts, NEW d \in Texts,
         Occurs(s, x \o (t \o d)), ~Occurs(s, x \o t),
         x = <<>> \/ Len(t) >= Len(s) - 1
  PROVE  Occurs(s, t \o d)
<1>1. PICK p \in 1 .. Len(x \o (t \o d)) : OccursAt(s, x \o (t \o d), p)
  BY DEF Occurs
<1> QED
  BY <1>1, StraddleAt DEF Occurs

-----------------------------------------------------------------------------
(* q and the first n of the calls *)
Beginning(q, calls, n) ==
  [k \in 1 .. Len(q) + n |-> IF k <= Len(q) THEN q[k] ELSE calls[k - Len(q)]]

LEMMA FirstOfType ==
  ASSUME NEW q \in Seq(Calls), NEW calls \in Seq(Calls), NEW n \in 0 .. Len(calls)
  PROVE  Beginning(q, calls, n) \in Seq(Calls) /\ Len(Beginning(q, calls, n)) = Len(q) + n
<1>1. PICK l \in Nat : l = Len(q)
  OBVIOUS
<1>2. PICK m \in Nat : m = l + n
  OBVIOUS
<1>3. PICK p : p = Beginning(q, calls, n)
  OBVIOUS
<1>4. p = [k \in 1 .. m |-> IF k <= l THEN q[k] ELSE calls[k - l]]
  BY <1>1, <1>2, <1>3 DEF Beginning
<1>5. ASSUME NEW k \in 1 .. m PROVE p[k] \in Calls
  <2>1. CASE k <= l
    <3>1. k \in 1 .. Len(q)
      BY <1>1, <2>1
    <3>2. q[k] \in Calls
      BY <3>1
    <3> QED
      BY <1>4, <2>1, <3>2
  <2>2. CASE ~(k <= l)
    <3>1. k - l \in 1 .. Len(calls)
      BY <1>2, <2>2
    <3>2. calls[k - l] \in Calls
      BY <3>1
    <3> QED
      BY <1>4, <2>2, <3>2
  <2> QED
    BY <2>1, <2>2
<1>6. p \in [1 .. m -> Calls]
  BY <1>4, <1>5
<1>7. p \in Seq(Calls) /\ Len(p) = m
  BY <1>6
<1> QED
  BY <1>1, <1>2, <1>3, <1>7

LEMMA FirstOfNext ==
  ASSUME NEW q \in Seq(Calls), NEW calls \in Seq(Calls), NEW n \in 0 .. Len(calls) - 1
  PROVE  Beginning(q, calls, n + 1) = Append(Beginning(q, calls, n), calls[n + 1])
<1>1. PICK l \in Nat : l = Len(q)
  OBVIOUS
<1>2. n \in 0 .. Len(calls) /\ n + 1 \in 0 .. Len(calls) /\ n + 1 \in 1 .. Len(calls)
  OBVIOUS
<1>3. PICK p \in Seq(Calls) : p = Beginning(q, calls, n) /\ Len(p) = l + n
  BY <1>1, <1>2, FirstOfType
<1>4. PICK r \in Seq(Calls) : r = Beginning(q, calls, n + 1) /\ Len(r) = l + n + 1
  <2>1. PICK m \in 0 .. Len(calls) : m = n + 1
    BY <1>2
  <2>2. Beginning(q, calls, m) \in Seq(Calls) /\ Len(Beginning(q, calls, m)) = Len(q) + m
    BY FirstOfType
  <2>3. Len(q) + m = l + n + 1
    BY <1>1, <2>1
  <2> QED
    BY <2>1, <2>2, <2>3
<1>5. PICK tc \in Calls : tc = calls[n + 1]
  BY <1>2
<1>6. PICK z \in Seq(Calls) : z = Append(p, tc)
  BY AppendProperties
<1>7. Len(z) = l + n + 1 /\ z[l + n + 1] = tc /\ \A k \in 1 .. l + n : z[k] = p[k]
  BY <1>3, <1>6, AppendProperties
<1>8. ASSUME NEW k \in 1 .. l + n + 1 PROVE z[k] = r[k]
  <2>1. r[k] = IF k <= l THEN q[k] ELSE calls[k - l]
    <3>1. k \in 1 .. Len(q) + (n + 1)
      BY <1>1
    <3> QED
      BY <1>1, <1>4, <3>1 DEF Beginning
  <2>2. CASE k \in 1 .. l + n
    <3>1. k \in 1 .. Len(q) + n
      BY <1>1, <2>2
    <3>2. p[k] = IF k <= l THEN q[k] ELSE calls[k - l]
      BY <1>1, <1>3, <3>1 DEF Beginning
    <3> QED
      BY <1>7, <2>1, <2>2, <3>2
  <2>3. CASE k = l + n + 1
    <3>1. ~(k <= l) /\ k - l = n + 1
      BY <2>3
    <3> QED
      BY <1>5, <1>7, <2>1, <2>3, <3>1
  <2> QED
    BY <2>2, <2>3
<1>9. z = r
  BY <1>4, <1>7, <1>8, SeqEqual
<1> QED
  BY <1>3, <1>4, <1>5, <1>6, <1>9

LEMMA FirstOfEnds ==
  ASSUME NEW q \in Seq(Calls), NEW calls \in Seq(Calls)
  PROVE  Beginning(q, calls, 0) = q /\ Beginning(q, calls, Len(calls)) = q \o calls
<1>1. PICK l \in Nat : l = Len(q)
  OBVIOUS
<1>2. PICK m \in Nat : m = Len(calls)
  OBVIOUS
<1>3. 0 \in 0 .. Len(calls) /\ m \in 0 .. Len(calls)
  BY <1>2
<1>4. PICK p \in Seq(Calls) : p = Beginning(q, calls, 0) /\ Len(p) = l + 0
  BY <1>1, <1>3, FirstOfType
<1>5. PICK r \in Seq(Calls) : r = Beginning(q, calls, m) /\ Len(r) = l + m
  BY <1>1, <1>3, FirstOfType
<1>6. p = q
  <2>1. Len(p) = Len(q)
    BY <1>1, <1>4
  <2>2. \A k \in 1 .. Len(p) : p[k] = q[k]
    <3>1. \A k \in 1 .. Len(p) : k \in 1 .. Len(q) + 0 /\ k <= Len(q)
      BY <1>1, <2>1
    <3> QED
      BY <1>4, <3>1 DEF Beginning
  <2> QED
    BY <2>1, <2>2, SeqEqual
<1>7. PICK z \in Seq(Calls) : z = q \o calls
  BY ConcatProperties
<1>8. Len(z) = l + m
  BY <1>1, <1>2, <1>7, ConcatProperties
<1>9. \A k \in 1 .. l + m : z[k] = IF k <= l THEN q[k] ELSE calls[k - l]
  BY <1>1, <1>2, <1>7, ConcatProperties
<1>10. \A k \in 1 .. l + m : r[k] = IF k <= l THEN q[k] ELSE calls[k - l]
  BY <1>1, <1>5 DEF Beginning
<1>11. r = z
  BY <1>5, <1>8, <1>9, <1>10, SeqEqual
<1> QED
  BY <1>2, <1>4, <1>5, <1>6, <1>7, <1>11
=============================================================================
