------------------------- MODULE SingleThreadProofs -------------------------
(***************************************************************************)
(* Proofs about SingleThread, for every set of files, any number of sweeps *)
(* and of repetitions: what the run checks on files of a few lines.        *)
(***************************************************************************)
EXTENDS SingleThread, FiniteSetTheorems, WellFoundedInduction, TLAPS

(***************************************************************************)
(* Induction over the natural numbers by a least counterexample, and what  *)
(* it gives for recursive functions: they exist, and a sum is the last     *)
(* value of its partial sums.                                              *)
(***************************************************************************)

(* A set of natural numbers has a least element. *)
LEMMA LeastNat ==
  ASSUME NEW T, T \subseteq Nat, T # {}
  PROVE  \E x0 \in T : \A y \in T : x0 <= y
<1> DEFINE R == {ss \in Nat \X Nat : ss[1] < ss[2]}
<1>1. IsWellFoundedOn(R, Nat)
  BY NatLessThanWellFounded DEF OpToRel
<1> HIDE DEF R
<1>2. PICK x0 \in T : \A y \in T : ~ (<<y, x0>> \in R)
  BY <1>1, WFMin
<1>3. ASSUME NEW y \in T
      PROVE  ~ (y < x0)
  BY <1>2 DEF R
<1> QED
  BY <1>3

(* A set that holds 0 and with each number the next holds them all. *)
LEMMA NatSet ==
  ASSUME NEW T, 0 \in T, \A n \in Nat : n \in T => n + 1 \in T
  PROVE  Nat \subseteq T
<1> SUFFICES ASSUME Nat \ T # {} PROVE FALSE
  OBVIOUS
<1>1. PICK m \in Nat \ T : \A y \in Nat \ T : m <= y
  BY LeastNat
<1>2. m # 0 /\ m - 1 \in Nat
  OBVIOUS
<1>3. m - 1 \in T
  BY <1>1, <1>2
<1> QED
  BY <1>2, <1>3

(* step[k] maps a value to the next one, within S; g is the run of step from b0. *)
Steps1(step, m, S) == \A k \in 1 .. m : \A v \in S : step[k][v] \in S
Runs(g, b0, m, step) == g[0] = b0 /\ \A k \in 1 .. m : g[k] = step[k][g[k - 1]]

LEMMA Recursion ==
  ASSUME NEW S, NEW b0 \in S, NEW m \in Nat, NEW step, Steps1(step, m, S)
  PROVE  \E g \in [0 .. m -> S] : Runs(g, b0, m, step)
<1> DEFINE Upto(n) == \E g \in [0 .. n -> S] : Runs(g, b0, n, step)
           T == {n \in Nat : n <= m => Upto(n)}
<1>1. 0 \in T
  <2> DEFINE g == [k \in 0 .. 0 |-> b0]
  <2>1. g \in [0 .. 0 -> S] /\ Runs(g, b0, 0, step)
    BY DEF Runs
  <2> QED
    BY <2>1
<1>2. ASSUME NEW n \in Nat, n \in T, n + 1 <= m
      PROVE  Upto(n + 1)
  <2>1. PICK g \in [0 .. n -> S] : Runs(g, b0, n, step)
    BY <1>2
  <2> DEFINE h == [k \in 0 .. (n + 1) |-> IF k <= n THEN g[k] ELSE step[n + 1][g[n]]]
  <2>2. step[n + 1][g[n]] \in S
    BY <2>1, <1>2 DEF Steps1
  <2>3. h \in [0 .. (n + 1) -> S]
    <3> SUFFICES ASSUME NEW k \in 0 .. (n + 1)
                 PROVE  h[k] \in S
      OBVIOUS
    <3>1. CASE k <= n
      BY <3>1, <2>1
    <3>2. CASE ~ (k <= n)
      BY <3>2, <2>2
    <3> QED
      BY <3>1, <3>2
  <2>4. ASSUME NEW k \in 1 .. (n + 1)
        PROVE  h[k] = step[k][h[k - 1]]
    <3>1. CASE k \in 1 .. n
      BY <3>1, <2>1 DEF Runs
    <3>2. CASE k = n + 1
      BY <3>2
    <3> QED
      BY <3>1, <3>2
  <2>5. h[0] = b0
    BY <2>1 DEF Runs
  <2>6. Runs(h, b0, n + 1, step)
    BY <2>4, <2>5 DEF Runs
  <2> QED
    BY <2>3, <2>6
<1>3. \A n \in Nat : n \in T => n + 1 \in T
  BY <1>2
<1>4. Nat \subseteq T
  <2> HIDE DEF T
  <2> QED
    BY <1>1, <1>3, NatSet
<1>5. m \in T
  BY <1>4
<1> QED
  BY <1>5

(* g[k] is the sum of the first k elements of f. *)
Sums(g, f) ==
    /\ g \in [0 .. Len(f) -> Int]
    /\ g[0] = 0
    /\ \A k \in 1 .. Len(f) : g[k] = g[k - 1] + f[k]

LEMMA TotalRec ==
  ASSUME NEW f \in Seq(Int)
  PROVE  \E g : Sums(g, f) /\ Total(f) = g[Len(f)]
<1> DEFINE m == Len(f)
           step == [k \in 1 .. m |-> [v \in Int |-> v + f[k]]]
           t == CHOOSE g : g = [n \in 0 .. m |-> IF n = 0 THEN 0 ELSE g[n - 1] + f[n]]
<1>1. Total(f) = t[m]
  BY DEF Total
<1>2. m \in Nat /\ 0 \in Int
  OBVIOUS
<1>3. \A k \in 1 .. m : \A v \in Int : step[k][v] = v + f[k] /\ v + f[k] \in Int
  OBVIOUS
<1> HIDE DEF m, step
<1>4. Steps1(step, m, Int)
  BY <1>3 DEF Steps1
<1>5. PICK g \in [0 .. m -> Int] : Runs(g, 0, m, step)
  BY <1>2, <1>4, Recursion
<1>6. g[0] = 0 /\ \A n \in 1 .. m : g[n] = g[n - 1] + f[n]
  <2>1. g[0] = 0
    BY <1>5 DEF Runs
  <2>2. ASSUME NEW n \in 1 .. m
        PROVE  g[n] = g[n - 1] + f[n]
    <3>1. g[n] = step[n][g[n - 1]]
      BY <1>5 DEF Runs
    <3>2. g[n - 1] \in Int
      BY <1>2
    <3> QED
      BY <1>3, <3>1, <3>2
  <2> QED
    BY <2>1, <2>2
<1>7. g = [n \in 0 .. m |-> IF n = 0 THEN 0 ELSE g[n - 1] + f[n]]
  BY <1>2, <1>6
<1>8. t = [n \in 0 .. m |-> IF n = 0 THEN 0 ELSE t[n - 1] + f[n]]
  BY <1>7
<1> HIDE DEF t
<1>9. ASSUME NEW n \in Nat
      PROVE  n <= m => t[n] = g[n]
  <2> DEFINE T == {k \in Nat : k <= m => t[k] = g[k]}
  <2>1. 0 \in T
    BY <1>2, <1>6, <1>8
  <2>2. ASSUME NEW k \in Nat, k \in T
        PROVE  k + 1 \in T
    BY <2>2, <1>2, <1>6, <1>8
  <2>3. Nat \subseteq T
    <3> HIDE DEF T
    <3> QED
      BY <2>1, <2>2, NatSet
  <2> QED
    BY <2>3
<1>10. Total(f) = g[m]
  BY <1>1, <1>2, <1>9
<1> QED
  BY <1>6, <1>10 DEF m, Sums

LEMMA TotalBySums ==
  ASSUME NEW f \in Seq(Int), NEW g, Sums(g, f)
  PROVE  Total(f) = g[Len(f)]
<1> DEFINE m == Len(f)
<1>1. PICK h : Sums(h, f) /\ Total(f) = h[m]
  BY TotalRec
<1>2. m \in Nat
  OBVIOUS
<1>3. ASSUME NEW k \in Nat
      PROVE  k <= m => h[k] = g[k]
  <2> DEFINE T == {n \in Nat : n <= m => h[n] = g[n]}
  <2> HIDE DEF m
  <2>1. 0 \in T
    BY <1>1 DEF Sums
  <2>2. ASSUME NEW n \in T, n + 1 <= m
        PROVE  h[n + 1] = g[n + 1]
    <3>1. h[n] = g[n] /\ n + 1 \in 1 .. m /\ (n + 1) - 1 = n
      BY <1>2, <2>2
    <3>2. h[n + 1] = h[n] + f[n + 1] /\ g[n + 1] = g[n] + f[n + 1]
      BY <1>1, <3>1 DEF Sums, m
    <3> QED
      BY <3>1, <3>2
  <2>3. \A n \in Nat : n \in T => n + 1 \in T
    BY <2>2
  <2>4. Nat \subseteq T
    <3> HIDE DEF T
    <3> QED
      BY <2>1, <2>3, NatSet
  <2> QED
    BY <2>4
<1> QED
  BY <1>1, <1>2, <1>3

LEMMA TotalType ==
  ASSUME NEW f \in Seq(Int)
  PROVE  Total(f) \in Int
<1>1. PICK g : Sums(g, f) /\ Total(f) = g[Len(f)]
  BY TotalRec
<1> QED
  BY <1>1 DEF Sums

LEMMA TotalEmpty == Total(<<>>) = 0
<1> DEFINE f == <<>>
<1>1. f \in Seq(Int) /\ Len(f) = 0
  OBVIOUS
<1> HIDE DEF f
<1>2. PICK g : Sums(g, f) /\ Total(f) = g[Len(f)]
  BY <1>1, TotalRec
<1>3. Total(f) = 0
  BY <1>1, <1>2 DEF Sums
<1> QED
  BY <1>3 DEF f

(* A sequence that continues another adds its last element to the sum. *)
LEMMA TotalOneMore ==
  ASSUME NEW f \in Seq(Int), NEW h \in Seq(Int), Len(h) = Len(f) + 1,
         \A k \in 1 .. Len(f) : h[k] = f[k]
  PROVE  Total(h) = Total(f) + h[Len(h)]
<1>1. PICK g : Sums(g, h) /\ Total(h) = g[Len(h)]
  BY TotalRec
<1> DEFINE g0 == [k \in 0 .. Len(f) |-> g[k]]
<1>2. Sums(g0, f)
  BY <1>1 DEF Sums
<1>3. Total(f) = g0[Len(f)]
  <2> HIDE DEF g0
  <2> QED
    BY <1>2, TotalBySums
<1>4. Len(h) \in 1 .. Len(h) /\ Len(h) - 1 = Len(f)
  OBVIOUS
<1>5. g[Len(h)] = g[Len(f)] + h[Len(h)]
  BY <1>1, <1>4 DEF Sums
<1> QED
  BY <1>1, <1>3, <1>5

LEMMA FiniteSeq ==
  ASSUME NEW S, NEW n \in Nat, NEW f \in [1 .. n -> S]
  PROVE  f \in Seq(S) /\ Len(f) = n
OBVIOUS

LEMMA TotalAdd ==
  ASSUME NEW n \in Nat, NEW f \in [1 .. n -> Int], NEW g \in [1 .. n -> Int],
         NEW h \in [1 .. n -> Int], \A k \in 1 .. n : h[k] = f[k] + g[k]
  PROVE  Total(h) = Total(f) + Total(g)
<1>1. /\ f \in Seq(Int) /\ g \in Seq(Int) /\ h \in Seq(Int)
      /\ Len(f) = n /\ Len(g) = n /\ Len(h) = n
  BY FiniteSeq
<1>2. PICK sf : Sums(sf, f) /\ Total(f) = sf[n]
  BY <1>1, TotalRec
<1>3. PICK sg : Sums(sg, g) /\ Total(g) = sg[n]
  BY <1>1, TotalRec
<1> DEFINE sh == [k \in 0 .. n |-> sf[k] + sg[k]]
<1>4. Sums(sh, h)
  BY <1>1, <1>2, <1>3 DEF Sums
<1>5. Total(h) = sh[n]
  <2> HIDE DEF sh
  <2> QED
    BY <1>1, <1>4, TotalBySums
<1> QED
  BY <1>2, <1>3, <1>5

LEMMA TotalScale ==
  ASSUME NEW n \in Nat, NEW f \in [1 .. n -> Int], NEW c0 \in Int,
         NEW h \in [1 .. n -> Int], \A k \in 1 .. n : h[k] = c0 * f[k]
  PROVE  Total(h) = c0 * Total(f)
<1>1. f \in Seq(Int) /\ h \in Seq(Int) /\ Len(f) = n /\ Len(h) = n
  BY FiniteSeq
<1>2. PICK sf : Sums(sf, f) /\ Total(f) = sf[n]
  BY <1>1, TotalRec
<1> DEFINE sh == [k \in 0 .. n |-> c0 * sf[k]]
<1>4. Sums(sh, h)
  BY <1>1, <1>2 DEF Sums
<1>5. Total(h) = sh[n]
  <2> HIDE DEF sh
  <2> QED
    BY <1>1, <1>4, TotalBySums
<1> QED
  BY <1>2, <1>5

LEMMA CountUpTo ==
  ASSUME NEW D, NEW n \in Nat
  PROVE  /\ Cardinality(D \cap (1 .. 0)) = 0
         /\ IsFiniteSet(D \cap (1 .. n))
         /\ Cardinality(D \cap (1 .. n)) \in Nat
         /\ Cardinality(D \cap (1 .. (n + 1)))
              = Cardinality(D \cap (1 .. n)) + (IF n + 1 \in D THEN 1 ELSE 0)
<1>1. D \cap (1 .. 0) = {}
  OBVIOUS
<1>2. IsFiniteSet(1 .. n)
  BY FS_Interval
<1>3. IsFiniteSet(D \cap (1 .. n))
  BY <1>2, FS_Intersection
<1>4. Cardinality(D \cap (1 .. n)) \in Nat
  BY <1>3, FS_CardinalityType
<1>5. CASE n + 1 \in D
  <2>1. D \cap (1 .. (n + 1)) = (D \cap (1 .. n)) \cup {n + 1}
    BY <1>5
  <2>2. n + 1 \notin D \cap (1 .. n)
    OBVIOUS
  <2>3. Cardinality(D \cap (1 .. (n + 1))) = Cardinality(D \cap (1 .. n)) + 1
    BY <1>3, <2>1, <2>2, FS_AddElement
  <2> QED
    BY <1>1, <1>3, <1>4, <1>5, <2>3, FS_EmptySet
<1>6. CASE n + 1 \notin D
  <2>1. D \cap (1 .. (n + 1)) = D \cap (1 .. n)
    BY <1>6
  <2> QED
    BY <1>1, <1>3, <1>4, <1>6, <2>1, FS_EmptySet
<1> QED
  BY <1>5, <1>6

(* The sum of an indicator is a count. *)
LEMMA TotalCount ==
  ASSUME NEW n \in Nat, NEW D, NEW f \in [1 .. n -> Int],
         \A k \in 1 .. n : f[k] = IF k \in D THEN 1 ELSE 0
  PROVE  Total(f) = Cardinality(D \cap (1 .. n))
<1> DEFINE g == [k \in 0 .. n |-> Cardinality(D \cap (1 .. k))]
<1>1. f \in Seq(Int) /\ Len(f) = n
  BY FiniteSeq
<1>2. \A k \in 0 .. n : g[k] = Cardinality(D \cap (1 .. k)) /\ g[k] \in Int
  BY CountUpTo
<1>3. g[0] = 0
  <2>1. Cardinality(D \cap (1 .. 0)) = 0
    BY CountUpTo
  <2> QED
    BY <2>1
<1>4. ASSUME NEW k \in 1 .. n
      PROVE  g[k] = g[k - 1] + f[k]
  <2> DEFINE j == k - 1
  <2>1. j \in Nat /\ j + 1 = k /\ j \in 0 .. n
    OBVIOUS
  <2> HIDE DEF j
  <2>2. Cardinality(D \cap (1 .. (j + 1)))
          = Cardinality(D \cap (1 .. j)) + (IF j + 1 \in D THEN 1 ELSE 0)
    BY <2>1, CountUpTo
  <2>3. g[k] = g[j] + f[k]
    BY <2>1, <2>2
  <2> QED
    BY <2>3 DEF j
<1>5. g \in [0 .. n -> Int]
  BY <1>2
<1> HIDE DEF g
<1>6. Sums(g, f)
  BY <1>1, <1>3, <1>4, <1>5 DEF Sums
<1> QED
  BY <1>1, <1>2, <1>6, TotalBySums

(* A bijection keeps the number of members of a set. *)
LEMMA BijectionKeepsCount ==
  ASSUME NEW n \in Nat, NEW p \in Bijection(1 .. n, 1 .. n), NEW D, D \subseteq 1 .. n
  PROVE  Cardinality({k \in 1 .. n : p[k] \in D}) = Cardinality(D)
<1> DEFINE C == {k \in 1 .. n : p[k] \in D}
           h == [k \in C |-> p[k]]
<1>1. /\ p \in [1 .. n -> 1 .. n]
      /\ \A j, k \in 1 .. n : p[j] = p[k] => j = k
      /\ \A d \in 1 .. n : \E k \in 1 .. n : p[k] = d
  BY DEF Bijection, Injection, Surjection, IsInjective
<1>2. h \in [C -> D] /\ \A j, k \in C : h[j] = h[k] => j = k
  BY <1>1
<1>3. \A d \in D : \E k \in C : h[k] = d
  BY <1>1
<1>4. IsFiniteSet(C)
  <2>1. IsFiniteSet(1 .. n)
    BY FS_Interval
  <2> QED
    BY <2>1, FS_Subset
<1> HIDE DEF h
<1> HIDE DEF C
<1>5. h \in Bijection(C, D)
  BY <1>2, <1>3 DEF Bijection, Injection, Surjection, IsInjective
<1>6. Cardinality(C) = Cardinality(D)
  BY <1>4, <1>5, FS_Bijection DEF ExistsBijection
<1> QED
  BY <1>6 DEF C

(***************************************************************************)
(* std::sort: an order that sorts exists, and the sorted sequence is the   *)
(* same whichever is chosen.                                               *)
(***************************************************************************)
LEMMA Largest ==
  ASSUME NEW n \in Nat \ {0}, NEW q \in [1 .. n -> Int]
  PROVE  \E m \in 1 .. n : \A k \in 1 .. n : q[k] <= q[m]
<1> DEFINE T == {j \in Nat : j + 1 <= n =>
                   \E m \in 1 .. (j + 1) : \A k \in 1 .. (j + 1) : q[k] <= q[m]}
<1>1. 0 \in T
  OBVIOUS
<1>2. ASSUME NEW j \in Nat, j \in T, (j + 1) + 1 <= n
      PROVE  \E m \in 1 .. ((j + 1) + 1) : \A k \in 1 .. ((j + 1) + 1) : q[k] <= q[m]
  <2>1. PICK m \in 1 .. (j + 1) : \A k \in 1 .. (j + 1) : q[k] <= q[m]
    BY <1>2
  <2>2. q[m] \in Int /\ q[j + 2] \in Int /\ \A k \in 1 .. (j + 2) : q[k] \in Int
    BY <1>2
  <2>3. CASE q[m] <= q[j + 2]
    <3>1. \A k \in 1 .. (j + 2) : q[k] <= q[j + 2]
      BY <2>1, <2>2, <2>3
    <3> QED
      BY <3>1
  <2>4. CASE ~ (q[m] <= q[j + 2])
    <3>1. \A k \in 1 .. (j + 2) : q[k] <= q[m]
      BY <2>1, <2>2, <2>4
    <3> QED
      BY <3>1
  <2> QED
    BY <2>3, <2>4
<1>3. ASSUME NEW j \in Nat, j \in T
      PROVE  j + 1 \in T
  <2>1. CASE (j + 1) + 1 <= n
    <3>1. \E m \in 1 .. ((j + 1) + 1) : \A k \in 1 .. ((j + 1) + 1) : q[k] <= q[m]
      BY <1>2, <1>3, <2>1
    <3> QED
      BY <3>1, j + 1 \in Nat, Zenon
  <2>2. CASE ~ ((j + 1) + 1 <= n)
    BY <2>2
  <2> QED
    BY <2>1, <2>2
<1>4. Nat \subseteq T
  <2> HIDE DEF T
  <2> QED
    BY <1>1, <1>3, NatSet
<1>5. n - 1 \in Nat /\ (n - 1) + 1 = n
  OBVIOUS
<1>6. n - 1 \in T
  <2> HIDE DEF T
  <2> QED
    BY <1>4, <1>5
<1> QED
  BY <1>5, <1>6

(* Every sequence of integers can be sorted. *)
IsSorting(p, q, n) ==
    /\ p \in Bijection(1 .. n, 1 .. n)
    /\ \A j, k \in 1 .. n : j < k => q[p[j]] <= q[p[k]]

LEMMA SortingExists ==
  ASSUME NEW n \in Nat, NEW q \in [1 .. n -> Int]
  PROVE  \E p : IsSorting(p, q, n)
<1> DEFINE Can(k) == \A r \in [1 .. k -> Int] : \E p : IsSorting(p, r, k)
           T == {k \in Nat : Can(k)}
<1>1. Can(0)
  <2> SUFFICES ASSUME NEW r \in [1 .. 0 -> Int]
               PROVE  \E p : IsSorting(p, r, 0)
    OBVIOUS
  <2> DEFINE p == [k \in 1 .. 0 |-> 0]
  <2>1. IsSorting(p, r, 0)
    BY DEF IsSorting, Bijection, Injection, Surjection, IsInjective
  <2> QED
    BY <2>1
<1>2. ASSUME NEW m \in Nat, Can(m), NEW r \in [1 .. (m + 1) -> Int]
      PROVE  \E p : IsSorting(p, r, m + 1)
  <2>0. m + 1 \in Nat \ {0}
    OBVIOUS
  <2>1. PICK h \in 1 .. (m + 1) : \A k \in 1 .. (m + 1) : r[k] <= r[h]
    BY <2>0, Largest
  <2> DEFINE r0 == [k \in 1 .. m |-> IF k = h THEN r[m + 1] ELSE r[k]]
  <2>2. r0 \in [1 .. m -> Int]
    OBVIOUS
  <2>3. PICK p0 : IsSorting(p0, r0, m)
    BY <1>2, <2>2
  <2>4. /\ p0 \in [1 .. m -> 1 .. m]
        /\ \A j, k \in 1 .. m : p0[j] = p0[k] => j = k
        /\ \A d \in 1 .. m : \E k \in 1 .. m : p0[k] = d
        /\ \A j, k \in 1 .. m : j < k => r0[p0[j]] <= r0[p0[k]]
    BY <2>3 DEF IsSorting, Bijection, Injection, Surjection, IsInjective
  <2> DEFINE p == [k \in 1 .. (m + 1) |->
                     IF k = m + 1 THEN h ELSE IF p0[k] = h THEN m + 1 ELSE p0[k]]
  <2>5. p \in [1 .. (m + 1) -> 1 .. (m + 1)]
    <3> SUFFICES ASSUME NEW k \in 1 .. (m + 1)
                 PROVE  p[k] \in 1 .. (m + 1)
      OBVIOUS
    <3>1. CASE k = m + 1
      BY <3>1
    <3>2. CASE k \in 1 .. m
      <4>1. p0[k] \in 1 .. m
        BY <2>4, <3>2
      <4> QED
        BY <3>2, <4>1
    <3> QED
      BY <3>1, <3>2
  <2>6. ASSUME NEW j \in 1 .. (m + 1), NEW k \in 1 .. (m + 1), p[j] = p[k]
        PROVE  j = k
    <3>1. CASE j = m + 1 /\ k # m + 1
      <4>0. k \in 1 .. m
        BY <3>1
      <4>1. p0[k] \in 1 .. m /\ p0[k] # m + 1
        BY <2>4, <4>0
      <4>2. p[j] = h /\ p[k] = IF p0[k] = h THEN m + 1 ELSE p0[k]
        BY <3>1
      <4> QED
        BY <2>6, <4>1, <4>2
    <3>2. CASE k = m + 1 /\ j # m + 1
      <4>0. j \in 1 .. m
        BY <3>2
      <4>1. p0[j] \in 1 .. m /\ p0[j] # m + 1
        BY <2>4, <4>0
      <4>2. p[k] = h /\ p[j] = IF p0[j] = h THEN m + 1 ELSE p0[j]
        BY <3>2
      <4> QED
        BY <2>6, <4>1, <4>2
    <3>3. CASE k # m + 1 /\ j # m + 1
      <4>0. j \in 1 .. m /\ k \in 1 .. m
        BY <3>3
      <4>1. p0[j] \in 1 .. m /\ p0[j] # m + 1 /\ p0[k] \in 1 .. m /\ p0[k] # m + 1
        BY <2>4, <4>0
      <4>2. /\ p[j] = IF p0[j] = h THEN m + 1 ELSE p0[j]
            /\ p[k] = IF p0[k] = h THEN m + 1 ELSE p0[k]
        BY <3>3
      <4>3. p0[j] = p0[k]
        BY <2>6, <4>1, <4>2
      <4> QED
        BY <2>4, <3>3, <4>3
    <3> QED
      BY <3>1, <3>2, <3>3
  <2>7. ASSUME NEW d \in 1 .. (m + 1)
        PROVE  \E k \in 1 .. (m + 1) : p[k] = d
    <3>1. CASE d = h
      BY <3>1
    <3>2. CASE d # h /\ d \in 1 .. m
      <4>1. PICK k \in 1 .. m : p0[k] = d
        BY <2>4, <3>2
      <4> QED
        BY <3>2, <4>1
    <3>3. CASE d # h /\ d = m + 1
      <4>1. PICK k \in 1 .. m : p0[k] = h
        BY <2>4, <3>3
      <4> QED
        BY <3>3, <4>1
    <3> QED
      BY <3>1, <3>2, <3>3
  <2>8. ASSUME NEW k \in 1 .. m
        PROVE  r[p[k]] = r0[p0[k]]
    <3>1. p0[k] \in 1 .. m
      BY <2>4
    <3>2. p[k] = IF p0[k] = h THEN m + 1 ELSE p0[k]
      OBVIOUS
    <3> QED
      BY <3>1, <3>2
  <2>9. ASSUME NEW j \in 1 .. (m + 1), NEW k \in 1 .. (m + 1), j < k
        PROVE  r[p[j]] <= r[p[k]]
    <3>1. CASE k = m + 1
      BY <2>1, <2>5, <3>1
    <3>2. CASE k # m + 1
      <4>1. j \in 1 .. m /\ k \in 1 .. m
        BY <2>9, <3>2
      <4> QED
        BY <2>4, <2>8, <2>9, <4>1
    <3> QED
      BY <3>1, <3>2
  <2> HIDE DEF p
  <2>10. IsSorting(p, r, m + 1)
    BY <2>5, <2>6, <2>7, <2>9 DEF IsSorting, Bijection, Injection, Surjection, IsInjective
  <2> QED
    BY <2>10
<1>3. ASSUME NEW m \in Nat, m \in T
      PROVE  m + 1 \in T
  <2>1. Can(m)
    BY <1>3
  <2> HIDE DEF IsSorting
  <2>2. Can(m + 1)
    BY <1>2, <2>1
  <2> QED
    BY <2>2
<1>4. Nat \subseteq T
  <2>1. 0 \in T
    BY <1>1
  <2> HIDE DEF T
  <2> QED
    BY <2>1, <1>3, NatSet
<1> QED
  BY <1>4

(* How often u occurs among the first n elements of s. *)
Occurs(u, s0, n) == Cardinality({k \in 1 .. n : s0[k] = u})

LEMMA OccursStep ==
  ASSUME NEW u, NEW s0, NEW n \in Nat
  PROVE  /\ Occurs(u, s0, 0) = 0
         /\ Occurs(u, s0, n) \in Nat
         /\ Occurs(u, s0, n + 1) = Occurs(u, s0, n) + (IF s0[n + 1] = u THEN 1 ELSE 0)
<1> DEFINE D == {k \in Nat : s0[k] = u}
<1>1. ASSUME NEW m \in Nat
      PROVE  Occurs(u, s0, m) = Cardinality(D \cap (1 .. m))
  <2>1. {k \in 1 .. m : s0[k] = u} = D \cap (1 .. m)
    OBVIOUS
  <2> QED
    BY <2>1 DEF Occurs
<1>2. n + 1 \in D <=> s0[n + 1] = u
  OBVIOUS
<1> HIDE DEF D
<1>3. 0 \in Nat /\ n + 1 \in Nat
  OBVIOUS
<1>4. /\ Cardinality(D \cap (1 .. 0)) = 0
      /\ Cardinality(D \cap (1 .. n)) \in Nat
      /\ Cardinality(D \cap (1 .. (n + 1)))
           = Cardinality(D \cap (1 .. n)) + (IF n + 1 \in D THEN 1 ELSE 0)
  BY CountUpTo
<1> QED
  BY <1>1, <1>2, <1>3, <1>4

LEMMA OccursSome ==
  ASSUME NEW u, NEW s0, NEW n \in Nat
  PROVE  Occurs(u, s0, n) # 0 <=> \E k \in 1 .. n : s0[k] = u
<1> DEFINE D == {k \in 1 .. n : s0[k] = u}
<1>1. IsFiniteSet(1 .. n) /\ D \in SUBSET (1 .. n)
  BY FS_Interval
<1>2. IsFiniteSet(D)
  BY <1>1, FS_Subset
<1>3. Cardinality(D) = 0 <=> D = {}
  BY <1>2, FS_EmptySet
<1> QED
  BY <1>3 DEF Occurs

(* s0 is ascending, up to n. *)
Ascending(s0, n) ==
    /\ \A k \in 1 .. n : s0[k] \in Int
    /\ \A j, k \in 1 .. n : j < k => s0[j] <= s0[k]

(* An ascending sequence is determined by how often each number occurs. *)
LEMMA SortedUnique ==
  ASSUME NEW s0, NEW t0, NEW n \in Nat, NEW m \in Nat, Ascending(s0, n), Ascending(t0, m),
         \A u \in Int : Occurs(u, s0, n) = Occurs(u, t0, m)
  PROVE  n = m /\ \A k \in 1 .. n : s0[k] = t0[k]
<1> DEFINE Same(i0, j0) == \A u \in Int : Occurs(u, s0, i0) = Occurs(u, t0, j0)
           Agree(i0, j0) == i0 = j0 /\ \A k \in 1 .. i0 : s0[k] = t0[k]
           Good(i0) == i0 <= n => \A j0 \in 0 .. m : Same(i0, j0) => Agree(i0, j0)
           T == {i0 \in Nat : Good(i0)}
<1>1. Good(0)
  <2> SUFFICES ASSUME NEW j0 \in 0 .. m, Same(0, j0)
               PROVE  Agree(0, j0)
    OBVIOUS
  <2>1. CASE j0 = 0
    BY <2>1
  <2>2. CASE j0 # 0
    <3>1. j0 \in 1 .. j0 /\ j0 \in 1 .. m /\ j0 \in Nat
      BY <2>2
    <3>2. t0[j0] \in Int
      BY <3>1 DEF Ascending
    <3>3. Occurs(t0[j0], t0, j0) # 0
      BY <3>1, OccursSome
    <3>4. Occurs(t0[j0], s0, 0) = 0
      BY OccursStep
    <3> QED
      BY <3>2, <3>3, <3>4
  <2> QED
    BY <2>1, <2>2
<1>2. ASSUME NEW i0 \in Nat, Good(i0)
      PROVE  Good(i0 + 1)
  <2> SUFFICES ASSUME i0 + 1 <= n, NEW j0 \in 0 .. m, Same(i0 + 1, j0)
               PROVE  Agree(i0 + 1, j0)
    OBVIOUS
  <2> DEFINE h == i0 + 1
  <2>1. h \in 1 .. n /\ h \in 1 .. h /\ h \in Nat /\ s0[h] \in Int
    BY DEF Ascending
  <2>2. Occurs(s0[h], s0, h) # 0
    BY <2>1, OccursSome
  <2>3. Occurs(s0[h], t0, j0) # 0
    BY <2>1, <2>2
  <2>4. PICK k \in 1 .. j0 : t0[k] = s0[h]
    BY <2>3, OccursSome
  <2>5. j0 \in 1 .. j0 /\ j0 \in 1 .. m /\ k \in 1 .. m /\ t0[j0] \in Int /\ t0[k] \in Int
    BY <2>4 DEF Ascending
  <2>6. t0[k] <= t0[j0]
    BY <2>4, <2>5 DEF Ascending
  <2>7. Occurs(t0[j0], t0, j0) # 0
    BY <2>5, OccursSome
  <2>8. Occurs(t0[j0], s0, h) # 0
    BY <2>5, <2>7
  <2>9. PICK l \in 1 .. h : s0[l] = t0[j0]
    BY <2>1, <2>8, OccursSome
  <2>10. s0[l] <= s0[h]
    BY <2>1, <2>9 DEF Ascending
  <2>11. s0[h] = t0[j0]
    BY <2>1, <2>4, <2>5, <2>6, <2>9, <2>10
  <2> DEFINE g == j0 - 1
  <2>12. g \in 0 .. m /\ g \in Nat /\ g + 1 = j0
    BY <2>5
  <2>13. Same(i0, g)
    <3> SUFFICES ASSUME NEW u \in Int
                 PROVE  Occurs(u, s0, i0) = Occurs(u, t0, g)
      OBVIOUS
    <3> HIDE DEF g
    <3>1. Occurs(u, s0, i0 + 1) = Occurs(u, t0, g + 1)
      BY <2>12
    <3>2. /\ Occurs(u, s0, i0) \in Nat
          /\ Occurs(u, s0, i0 + 1)
               = Occurs(u, s0, i0) + (IF s0[i0 + 1] = u THEN 1 ELSE 0)
      BY OccursStep
    <3>3. /\ Occurs(u, t0, g) \in Nat
          /\ Occurs(u, t0, g + 1)
               = Occurs(u, t0, g) + (IF t0[g + 1] = u THEN 1 ELSE 0)
      BY <2>12, OccursStep
    <3>4. s0[i0 + 1] = u <=> t0[g + 1] = u
      BY <2>11, <2>12
    <3> QED
      BY <3>1, <3>2, <3>3, <3>4
  <2>14. Agree(i0, g)
    <3> HIDE DEF Agree, Same, g
    <3> QED
      BY <1>2, <2>12, <2>13
  <2> QED
    BY <2>11, <2>12, <2>14
<1>3. Nat \subseteq T
  <2>1. 0 \in T
    BY <1>1
  <2>2. ASSUME NEW i0 \in Nat, i0 \in T
        PROVE  i0 + 1 \in T
    <3> HIDE DEF Good
    <3> QED
      BY <1>2, <2>2
  <2> HIDE DEF T
  <2> QED
    BY <2>1, <2>2, NatSet
<1>4. Good(n) /\ m \in 0 .. m
  BY <1>3
<1> QED
  BY <1>4

(* std::sort permutes a sequence into an ascending one. *)
LEMMA SortedProps ==
  ASSUME NEW n \in Nat, NEW q \in [1 .. n -> Int]
  PROVE  /\ Ascending(Sorted(q), n)
         /\ \E p \in Bijection(1 .. n, 1 .. n) :
               Sorted(q) = [k \in 1 .. n |-> q[p[k]]]
<1> DEFINE order == CHOOSE p \in Bijection(DOMAIN q, DOMAIN q) :
                      \A j, k \in DOMAIN q : j < k => q[p[j]] <= q[p[k]]
<1>1. Sorted(q) = [k \in 1 .. n |-> q[order[k]]]
  BY DEF Sorted
<1>2. \E p \in Bijection(DOMAIN q, DOMAIN q) :
         \A j, k \in DOMAIN q : j < k => q[p[j]] <= q[p[k]]
  BY SortingExists DEF IsSorting
<1>3. /\ order \in Bijection(1 .. n, 1 .. n)
      /\ \A j, k \in 1 .. n : j < k => q[order[j]] <= q[order[k]]
  BY <1>2
<1> HIDE DEF order
<1>4. order \in [1 .. n -> 1 .. n]
  BY <1>3 DEF Bijection, Injection
<1>5. Ascending(Sorted(q), n)
  BY <1>1, <1>3, <1>4 DEF Ascending
<1> QED
  BY <1>1, <1>3, <1>5

(***************************************************************************)
(* Sums of spins: their parity, and the sign it gives a product.           *)
(***************************************************************************)
LEMMA TotalBits ==
  ASSUME NEW n \in Nat, NEW f \in [1 .. n -> {0, 1}]
  PROVE  /\ Total(f) \in Int
         /\ Total(f) = Cardinality({k \in 1 .. n : f[k] = 1})
<1> DEFINE D == {k \in 1 .. n : f[k] = 1}
<1>1. f \in [1 .. n -> Int]
  OBVIOUS
<1>2. \A k \in 1 .. n : f[k] = IF k \in D THEN 1 ELSE 0
  OBVIOUS
<1>3. D \cap (1 .. n) = D
  OBVIOUS
<1> HIDE DEF D
<1>4. Total(f) = Cardinality(D)
  BY <1>1, <1>2, <1>3, TotalCount
<1>5. Total(f) \in Int
  BY <1>1, FiniteSeq, TotalType
<1> QED
  BY <1>4, <1>5 DEF D

LEMMA TotalPermuted ==
  ASSUME NEW n \in Nat, NEW f \in [1 .. n -> {0, 1}], NEW p \in Bijection(1 .. n, 1 .. n),
         NEW g \in [1 .. n -> {0, 1}], \A k \in 1 .. n : g[k] = f[p[k]]
  PROVE  Total(g) = Total(f)
<1> DEFINE D == {k \in 1 .. n : f[k] = 1}
<1>1. p \in [1 .. n -> 1 .. n]
  BY DEF Bijection, Injection
<1>2. {k \in 1 .. n : g[k] = 1} = {k \in 1 .. n : p[k] \in D}
  BY <1>1
<1>3. Total(f) = Cardinality(D) /\ Total(g) = Cardinality({k \in 1 .. n : g[k] = 1})
  BY TotalBits
<1>4. D \subseteq 1 .. n
  OBVIOUS
<1> HIDE DEF D
<1>5. Cardinality({k \in 1 .. n : p[k] \in D}) = Cardinality(D)
  BY <1>4, BijectionKeepsCount
<1> QED
  BY <1>2, <1>3, <1>5

(* A sum changes by what one of its elements changes. *)
LEMMA TotalChange ==
  ASSUME NEW n \in Nat, NEW f \in [1 .. n -> Int], NEW g \in [1 .. n -> Int],
         NEW j \in 1 .. n, \A k \in 1 .. n : k # j => g[k] = f[k]
  PROVE  Total(g) = Total(f) + (g[j] - f[j])
<1> DEFINE d == g[j] - f[j]
           e1 == [k \in 1 .. n |-> IF k \in {j} THEN 1 ELSE 0]
           h == [k \in 1 .. n |-> d * e1[k]]
<1>1. d \in Int /\ e1 \in [1 .. n -> Int]
  OBVIOUS
<1>2. h \in [1 .. n -> Int] /\ \A k \in 1 .. n : h[k] = d * e1[k]
  BY <1>1
<1>3. \A k \in 1 .. n : e1[k] = IF k \in {j} THEN 1 ELSE 0
  OBVIOUS
<1>4. {j} \cap (1 .. n) = {j}
  OBVIOUS
<1>5. \A k \in 1 .. n : g[k] = f[k] + h[k]
  <2> SUFFICES ASSUME NEW k \in 1 .. n
               PROVE  g[k] = f[k] + h[k]
    OBVIOUS
  <2>1. CASE k = j
    <3>1. h[k] = d
      BY <1>1, <2>1
    <3> QED
      BY <2>1, <3>1
  <2>2. CASE k # j
    <3>1. h[k] = 0
      BY <1>1, <2>2
    <3> QED
      BY <2>2, <3>1
  <2> QED
    BY <2>1, <2>2
<1>6. Total(e1) = 1
  <2> HIDE DEF e1
  <2>1. Total(e1) = Cardinality({j} \cap (1 .. n))
    BY <1>1, <1>3, TotalCount
  <2> QED
    BY <1>4, <2>1, FS_Singleton
<1> HIDE DEF h, e1
<1>7. Total(h) = d * Total(e1)
  BY <1>1, <1>2, TotalScale
<1>8. Total(g) = Total(f) + Total(h)
  BY <1>2, <1>5, TotalAdd
<1>9. Total(f) \in Int
  BY FiniteSeq, TotalType
<1> QED
  BY <1>1, <1>6, <1>7, <1>8, <1>9

LEMMA Mod2 ==
  ASSUME NEW u \in Int
  PROVE  /\ u % 2 \in {0, 1}
         /\ (u + 1) % 2 = 1 - (u % 2)
         /\ (u - 1) % 2 = 1 - (u % 2)
OBVIOUS

(* What one more spin does to the product, and to the two parities. *)
LEMMA SignFlips ==
  ASSUME NEW v \in Int, NEW j \in {0, 1}, NEW k \in {0, 1}
  PROVE  /\ v * (2 * (1 - j) - 1) * (2 * (1 - k) - 1) = v * (2 * j - 1) * (2 * k - 1)
         /\ v * (2 * j - 1) * (2 * (1 - k) - 1) = v * (2 * j - 1) * (2 * k - 1) * (0 - 1)
<1>1. CASE j = 0 /\ k = 0
  BY <1>1
<1>2. CASE j = 0 /\ k = 1
  BY <1>2
<1>3. CASE j = 1 /\ k = 0
  BY <1>3
<1>4. CASE j = 1 /\ k = 1
  BY <1>4
<1> QED
  BY <1>1, <1>2, <1>3, <1>4

(* The product of spins -1 and 1 is a matter of parity. *)
LEMMA ProductOfSpins ==
  ASSUME NEW n \in Nat, NEW b0 \in [1 .. n -> {0, 1}], NEW v \in Int,
         NEW g, g[0] = v, \A k \in 1 .. n : g[k] = g[k - 1] * (2 * b0[k] - 1)
  PROVE  g[n] = v * (2 * (Total(b0) % 2) - 1) * (2 * (n % 2) - 1)
<1>1. b0 \in Seq(Int) /\ Len(b0) = n
  BY FiniteSeq
<1>2. PICK t : Sums(t, b0) /\ Total(b0) = t[n]
  BY <1>1, TotalRec
<1> DEFINE At(k) == g[k] = v * (2 * (t[k] % 2) - 1) * (2 * (k % 2) - 1)
           T == {k \in Nat : k <= n => At(k)}
<1>3. At(0)
  BY <1>2 DEF Sums
<1>4. ASSUME NEW k \in Nat, k + 1 <= n, At(k)
      PROVE  At(k + 1)
  <2>0. k + 1 \in 1 .. n /\ (k + 1) - 1 = k /\ k \in 0 .. n
    BY <1>4
  <2>1. k + 1 \in 1 .. n /\ (k + 1) - 1 = k /\ t[k] \in Int /\ b0[k + 1] \in {0, 1}
    BY <1>1, <1>2, <2>0 DEF Sums
  <2>2. g[k + 1] = g[k] * (2 * b0[k + 1] - 1)
    BY <2>1
  <2>3. t[k + 1] = t[k] + b0[k + 1]
    BY <1>1, <1>2, <2>1 DEF Sums
  <2>4. (k + 1) % 2 = 1 - (k % 2) /\ k % 2 \in {0, 1}
    BY Mod2
  <2>5. (t[k] + 1) % 2 = 1 - (t[k] % 2) /\ t[k] % 2 \in {0, 1}
    BY <2>1, Mod2
  <2> DEFINE w == 2 * (t[k] % 2) - 1
             z == 2 * (k % 2) - 1
  <2>a. g[k] = v * w * z /\ w \in Int /\ z \in Int /\ v * w * z \in Int
    BY <1>4, <2>4, <2>5
  <2>6. CASE b0[k + 1] = 1
    <3>1. t[k + 1] % 2 = 1 - (t[k] % 2)
      BY <2>3, <2>5, <2>6
    <3>2. g[k + 1] = g[k] * 1
      BY <2>2, <2>6
    <3>3. v * (2 * (1 - (t[k] % 2)) - 1) * (2 * (1 - (k % 2)) - 1) = v * w * z
      BY <2>4, <2>5, SignFlips
    <3> HIDE DEF w, z
    <3> QED
      BY <2>4, <2>a, <3>1, <3>2, <3>3
  <2>7. CASE b0[k + 1] = 0
    <3>1. t[k + 1] % 2 = t[k] % 2
      BY <2>1, <2>3, <2>7
    <3>2. g[k + 1] = g[k] * (0 - 1)
      BY <2>2, <2>7
    <3>3. v * w * (2 * (1 - (k % 2)) - 1) = v * w * z * (0 - 1)
      BY <2>4, <2>5, SignFlips
    <3>4. v * w * (2 * ((k + 1) % 2) - 1) = g[k + 1]
      <4> HIDE DEF w, z
      <4> QED
        BY <2>4, <2>a, <3>2, <3>3
    <3> QED
      BY <3>1, <3>4
  <2> QED
    BY <2>1, <2>6, <2>7
<1>5. Nat \subseteq T
  <2>1. 0 \in T
    BY <1>3
  <2>2. ASSUME NEW k \in Nat, k \in T
        PROVE  k + 1 \in T
    <3> HIDE DEF At
    <3> QED
      BY <1>4, <2>2
  <2> HIDE DEF T
  <2> QED
    BY <2>1, <2>2, NatSet
<1>6. At(n)
  <2> HIDE DEF At
  <2> QED
    BY <1>5
<1> QED
  BY <1>2, <1>6

(* What a line contributes to the energy: its value, with a sign. *)
Bits(ns, config, sites) == [k \in DOMAIN sites |-> config[Number(ns, sites[k])]]
LineTerm(ns, config, line) ==
    line.val * (2 * (Total(Bits(ns, config, line.sites)) % 2) - 1)
        * (2 * (Len(line.sites) % 2) - 1)

LEMMA TimesIsLineTerm ==
  ASSUME NEW config, NEW line, line.val \in Int, line.sites \in Seq(Names),
         \A k \in 1 .. Len(line.sites) : config[Number(names, line.sites[k])] \in {0, 1}
  PROVE  Times(config, line) = LineTerm(names, config, line)
<1> DEFINE m == Len(line.sites)
           v0 == line.val
           bs == Bits(names, config, line.sites)
           spin == [k \in 1 .. m |-> Spin(config, line.sites[k])]
           step == [k \in 1 .. m |-> [v \in Int |-> v * spin[k]]]
           t == CHOOSE g : g = [n \in 0 .. m |-> IF n = 0 THEN v0
                                                 ELSE g[n - 1] * Spin(config, line.sites[n])]
<1>1. Times(config, line) = t[m]
  BY DEF Times
<1>2. m \in Nat /\ v0 \in Int /\ bs \in [1 .. m -> {0, 1}]
  BY DEF Bits
<1>3. \A k \in 1 .. m : spin[k] = 2 * bs[k] - 1 /\ spin[k] = Spin(config, line.sites[k])
  BY DEF Spin, Bits
<1>4. ASSUME NEW k \in 1 .. m
      PROVE  spin[k] \in Int
  <2>1. bs[k] \in {0, 1} /\ spin[k] = 2 * bs[k] - 1
    BY <1>2, <1>3
  <2> HIDE DEF spin, bs
  <2> QED
    BY <2>1
<1>5. \A k \in 1 .. m : \A v \in Int : step[k][v] = v * spin[k] /\ v * spin[k] \in Int
  <2> HIDE DEF spin
  <2> QED
    BY <1>4
<1> HIDE DEF m, step, spin, v0, bs
<1>6. Steps1(step, m, Int)
  BY <1>5 DEF Steps1
<1>7. PICK g \in [0 .. m -> Int] : Runs(g, v0, m, step)
  BY <1>2, <1>6, Recursion
<1>8. g[0] = v0
  BY <1>7 DEF Runs
<1>9. ASSUME NEW n \in 1 .. m
      PROVE  g[n] = g[n - 1] * spin[n]
  <2>1. g[n] = step[n][g[n - 1]]
    BY <1>7 DEF Runs
  <2>2. g[n - 1] \in Int
    BY <1>2
  <2> QED
    BY <1>5, <2>1, <2>2
<1>10. g = [n \in 0 .. m |-> IF n = 0 THEN v0
                             ELSE g[n - 1] * Spin(config, line.sites[n])]
  BY <1>2, <1>3, <1>8, <1>9
<1>11. t = [n \in 0 .. m |-> IF n = 0 THEN v0
                             ELSE t[n - 1] * Spin(config, line.sites[n])]
  <2> HIDE DEF Spin
  <2> QED
    BY <1>10
<1> HIDE DEF t
<1>12. t[0] = v0 /\ \A k \in 1 .. m : t[k] = t[k - 1] * (2 * bs[k] - 1)
  BY <1>2, <1>3, <1>11
<1>13. t[m] = v0 * (2 * (Total(bs) % 2) - 1) * (2 * (m % 2) - 1)
  BY <1>2, <1>12, ProductOfSpins
<1> QED
  BY <1>1, <1>13 DEF LineTerm, m, v0, bs

(***************************************************************************)
(* The loader: numbers of sites, and one line of the file.                 *)
(***************************************************************************)

(* index after a line: the names known before, then the new ones of the line. *)
Extends(r, ns) == Len(ns) <= Len(r) /\ \A k \in 1 .. Len(ns) : r[k] = ns[k]
Injective(r) == \A j, k \in 1 .. Len(r) : r[j] = r[k] => j = k

LEMMA IndexedProps ==
  ASSUME NEW ns \in Seq(Names), Injective(ns), NEW sites \in Seq(Names)
  PROVE  /\ Indexed(ns, sites) \in Seq(Names)
         /\ Injective(Indexed(ns, sites))
         /\ Extends(Indexed(ns, sites), ns)
         /\ \A k \in 1 .. Len(sites) : sites[k] \in Range(Indexed(ns, sites))
         /\ \A k \in 1 .. Len(Indexed(ns, sites)) :
               Len(ns) < k => Indexed(ns, sites)[k] \in Range(sites)
<1> DEFINE m == Len(sites)
           S == Seq(Names)
           next(k, v) == IF sites[k] \in Range(v) THEN v ELSE Append(v, sites[k])
           step == [k \in 1 .. m |-> [v \in S |-> next(k, v)]]
           t == CHOOSE g : g = [n \in 0 .. m |-> IF n = 0 THEN ns
                                    ELSE IF sites[n] \in Range(g[n - 1]) THEN g[n - 1]
                                    ELSE Append(g[n - 1], sites[n])]
<1>1. Indexed(ns, sites) = t[m]
  BY DEF Indexed
<1>2. m \in Nat /\ \A k \in 1 .. m : sites[k] \in Names
  OBVIOUS
<1>3. \A k \in 1 .. m : \A v \in S : step[k][v] = next(k, v) /\ next(k, v) \in S
  BY <1>2
<1> HIDE DEF m, step
<1>4. Steps1(step, m, S)
  BY <1>3 DEF Steps1
<1>5. PICK g \in [0 .. m -> S] : Runs(g, ns, m, step)
  BY <1>2, <1>4, Recursion
<1>6. g[0] = ns
  BY <1>5 DEF Runs
<1>7. ASSUME NEW n \in 1 .. m
      PROVE  g[n] = next(n, g[n - 1]) /\ g[n - 1] \in S
  <2>1. g[n] = step[n][g[n - 1]]
    BY <1>5 DEF Runs
  <2>2. g[n - 1] \in S
    BY <1>2
  <2> HIDE DEF next
  <2> QED
    BY <1>3, <2>1, <2>2
<1>8. g = [n \in 0 .. m |-> IF n = 0 THEN ns
                            ELSE IF sites[n] \in Range(g[n - 1]) THEN g[n - 1]
                            ELSE Append(g[n - 1], sites[n])]
  <2> SUFFICES ASSUME NEW n \in 0 .. m
               PROVE  g[n] = IF n = 0 THEN ns ELSE next(n, g[n - 1])
    BY Zenon
  <2>1. CASE n = 0
    BY <1>6, <2>1
  <2>2. CASE n # 0
    <3>1. n \in 1 .. m
      BY <1>2, <2>2
    <3> HIDE DEF next
    <3> QED
      BY <1>7, <2>2, <3>1
  <2> QED
    BY <2>1, <2>2
<1>9. t = [n \in 0 .. m |-> IF n = 0 THEN ns
                            ELSE IF sites[n] \in Range(t[n - 1]) THEN t[n - 1]
                            ELSE Append(t[n - 1], sites[n])]
  BY <1>8
<1> HIDE DEF t
<1>10. t[0] = ns /\ \A k \in 1 .. m : t[k] = next(k, t[k - 1])
  <2>1. 0 \in 0 .. m /\ \A k \in 1 .. m : k \in 0 .. m /\ k # 0
    BY <1>2
  <2>2. \A n \in 0 .. m : t[n] = IF n = 0 THEN ns ELSE next(n, t[n - 1])
    BY <1>9, Zenon
  <2> HIDE DEF next
  <2> QED
    BY <2>1, <2>2
<1> DEFINE Upto(n) == /\ t[n] \in Seq(Names)
                      /\ Injective(t[n])
                      /\ Extends(t[n], ns)
                      /\ \A k \in 1 .. n : sites[k] \in Range(t[n])
                      /\ \A k \in 1 .. Len(t[n]) : Len(ns) < k => t[n][k] \in Range(sites)
           T == {n \in Nat : n <= m => Upto(n)}
<1>11. Upto(0)
  BY <1>10 DEF Extends
<1>12. ASSUME NEW n \in Nat, n + 1 <= m, Upto(n)
       PROVE  Upto(n + 1)
  <2> DEFINE r == t[n]
             y == sites[n + 1]
  <2>1. t[n + 1] = IF y \in Range(r) THEN r ELSE Append(r, y)
    BY <1>10, <1>12
  <2>2. y \in Names /\ y \in Range(sites)
    BY <1>2, <1>12 DEF m, Range
  <2>3. /\ r \in Seq(Names) /\ Injective(r) /\ Extends(r, ns)
        /\ \A k \in 1 .. n : sites[k] \in Range(r)
        /\ \A k \in 1 .. Len(r) : Len(ns) < k => r[k] \in Range(sites)
    BY <1>12
  <2> HIDE DEF r, y
  <2>4. CASE y \in Range(r)
    <3>1. t[n + 1] = r
      BY <2>1, <2>4
    <3>2. \A k \in 1 .. (n + 1) : sites[k] \in Range(r)
      BY <2>3, <2>4 DEF y
    <3> QED
      BY <2>3, <3>1, <3>2
  <2>5. CASE y \notin Range(r)
    <3> DEFINE r2 == Append(r, y)
    <3>1. t[n + 1] = r2
      BY <2>1, <2>5
    <3>2. /\ r2 \in Seq(Names) /\ Len(r2) = Len(r) + 1 /\ r2[Len(r) + 1] = y
          /\ \A k \in 1 .. Len(r) : r2[k] = r[k]
      BY <2>2, <2>3
    <3>3. Len(r) \in Nat /\ Len(ns) \in Nat
      BY <2>3
    <3>4. \A k \in 1 .. Len(r) : r[k] # y
      BY <2>3, <2>5 DEF Range
    <3>5. Range(r2) = Range(r) \cup {y}
      <4>1. DOMAIN r = 1 .. Len(r) /\ DOMAIN r2 = 1 .. (Len(r) + 1)
        BY <2>3, <3>2
      <4>2. \A k \in 1 .. (Len(r) + 1) : r2[k] \in Range(r) \cup {y}
        <5> SUFFICES ASSUME NEW k \in 1 .. (Len(r) + 1)
                     PROVE  r2[k] \in Range(r) \cup {y}
          OBVIOUS
        <5>1. CASE k = Len(r) + 1
          BY <3>2, <5>1
        <5>2. CASE k # Len(r) + 1
          <6>1. k \in 1 .. Len(r)
            BY <3>3, <5>2
          <6> QED
            BY <3>2, <4>1, <6>1 DEF Range
        <5> QED
          BY <5>1, <5>2
      <4>3. Len(r) + 1 \in 1 .. (Len(r) + 1) /\ \A k \in 1 .. Len(r) : k \in 1 .. (Len(r) + 1)
        BY <3>3
      <4> HIDE DEF r2
      <4> QED
        BY <3>2, <4>1, <4>2, <4>3 DEF Range
    <3> HIDE DEF r2
    <3>6. Injective(r2)
      <4> SUFFICES ASSUME NEW j \in 1 .. (Len(r) + 1), NEW k \in 1 .. (Len(r) + 1),
                          r2[j] = r2[k]
                   PROVE  j = k
        BY <3>2 DEF Injective
      <4>1. CASE j \in 1 .. Len(r) /\ k \in 1 .. Len(r)
        BY <2>3, <3>2, <4>1 DEF Injective
      <4>2. CASE j = Len(r) + 1 /\ k \in 1 .. Len(r)
        BY <3>2, <3>4, <4>2
      <4>3. CASE k = Len(r) + 1 /\ j \in 1 .. Len(r)
        BY <3>2, <3>4, <4>3
      <4> QED
        BY <3>3, <4>1, <4>2, <4>3
    <3>7. Extends(r2, ns)
      BY <2>3, <3>2, <3>3 DEF Extends
    <3>8. \A k \in 1 .. (n + 1) : sites[k] \in Range(r2)
      <4>1. \A k \in 1 .. (n + 1) : k \in 1 .. n \/ k = n + 1
        BY <1>12
      <4> QED
        BY <2>3, <3>5, <4>1 DEF y
    <3>9. \A k \in 1 .. Len(r2) : Len(ns) < k => r2[k] \in Range(sites)
      <4> SUFFICES ASSUME NEW k \in 1 .. (Len(r) + 1), Len(ns) < k
                   PROVE  r2[k] \in Range(sites)
        BY <3>2
      <4>1. CASE k \in 1 .. Len(r)
        BY <2>3, <3>2, <4>1
      <4>2. CASE k = Len(r) + 1
        BY <2>2, <3>2, <4>2
      <4> QED
        BY <3>3, <4>1, <4>2
    <3> QED
      BY <3>1, <3>2, <3>6, <3>7, <3>8, <3>9
  <2> QED
    BY <2>4, <2>5
<1>13. Nat \subseteq T
  <2>1. 0 \in T
    BY <1>11
  <2>2. ASSUME NEW n \in Nat, n \in T
        PROVE  n + 1 \in T
    <3> HIDE DEF Upto
    <3> QED
      BY <1>2, <1>12, <2>2
  <2> HIDE DEF T
  <2> QED
    BY <2>1, <2>2, NatSet
<1>14. Upto(m)
  <2> HIDE DEF Upto
  <2> QED
    BY <1>2, <1>13
<1> QED
  BY <1>1, <1>14 DEF m

LEMMA NumberIs ==
  ASSUME NEW ns \in Seq(Names), Injective(ns), NEW site \in Range(ns)
  PROVE  /\ Number(ns, site) \in 1 .. Len(ns)
         /\ ns[Number(ns, site)] = site
         /\ \A k \in 1 .. Len(ns) : ns[k] = site => Number(ns, site) = k
<1>1. DOMAIN ns = 1 .. Len(ns)
  OBVIOUS
<1>2. \E k \in DOMAIN ns : ns[k] = site
  BY DEF Range
<1>3. Number(ns, site) \in DOMAIN ns /\ ns[Number(ns, site)] = site
  BY <1>2 DEF Number
<1> QED
  BY <1>1, <1>3 DEF Injective

(* A site keeps its number. *)
LEMMA NumberStays ==
  ASSUME NEW ns \in Seq(Names), NEW r \in Seq(Names), Injective(r), Extends(r, ns),
         NEW site \in Range(ns)
  PROVE  site \in Range(r) /\ Number(r, site) = Number(ns, site)
<1>1. Injective(ns)
  BY DEF Injective, Extends
<1>2. /\ Number(ns, site) \in 1 .. Len(ns)
      /\ ns[Number(ns, site)] = site
  BY <1>1, NumberIs
<1>3. Number(ns, site) \in 1 .. Len(r) /\ r[Number(ns, site)] = site
  BY <1>2 DEF Extends
<1>4. site \in Range(r)
  BY <1>3 DEF Range
<1> QED
  BY <1>3, <1>4, NumberIs

(* The sites of an edge are the numbers of the line's sites, in another order. *)
LEMMA SitesProps ==
  ASSUME NEW ns \in Seq(Names), Injective(ns), NEW sites \in Seq(Names),
         \A k \in 1 .. Len(sites) : sites[k] \in Range(ns)
  PROVE  /\ Sites(ns, sites) \in Seq(1 .. Len(ns))
         /\ Len(Sites(ns, sites)) = Len(sites)
         /\ Ascending(Sites(ns, sites), Len(sites))
         /\ \E p \in Bijection(1 .. Len(sites), 1 .. Len(sites)) :
               \A k \in 1 .. Len(sites) :
                  /\ Sites(ns, sites)[k] = Number(ns, sites[p[k]])
                  /\ ns[Sites(ns, sites)[k]] = sites[p[k]]
<1> DEFINE m == Len(sites)
           q == [k \in 1 .. m |-> Number(ns, sites[k])]
           e == Sites(ns, sites)
<1>1. m \in Nat /\ DOMAIN sites = 1 .. m
  OBVIOUS
<1>2. \A k \in 1 .. m : q[k] \in 1 .. Len(ns) /\ ns[q[k]] = sites[k]
  BY NumberIs
<1>3. q \in [1 .. m -> Int] /\ q \in [1 .. m -> 1 .. Len(ns)]
  BY <1>2
<1>4. e = Sorted(q)
  BY <1>1 DEF Sites
<1> HIDE DEF q, e, m
<1>5. PICK p \in Bijection(1 .. m, 1 .. m) : Sorted(q) = [k \in 1 .. m |-> q[p[k]]]
  BY <1>1, <1>3, SortedProps
<1>6. Ascending(e, m)
  BY <1>1, <1>3, <1>4, SortedProps
<1>7. p \in [1 .. m -> 1 .. m]
  BY <1>5 DEF Bijection, Injection
<1>8. e \in [1 .. m -> 1 .. Len(ns)]
  BY <1>3, <1>4, <1>5, <1>7
<1>9. e \in Seq(1 .. Len(ns)) /\ Len(e) = m
  BY <1>1, <1>8, FiniteSeq
<1>10. ASSUME NEW k \in 1 .. m
       PROVE  e[k] = Number(ns, sites[p[k]]) /\ ns[e[k]] = sites[p[k]]
  <2>1. e[k] = q[p[k]] /\ p[k] \in 1 .. m
    BY <1>4, <1>5, <1>7
  <2>2. q[p[k]] = Number(ns, sites[p[k]])
    BY <2>1 DEF q
  <2> QED
    BY <1>2, <2>1, <2>2
<1> QED
  BY <1>6, <1>9, <1>10 DEF m, e

(* An edge read back through the index. *)
NamesOf(ns, es) == [k \in DOMAIN es |-> ns[es[k]]]

LEMMA OccurrencesOfSites ==
  ASSUME NEW ns \in Seq(Names), Injective(ns), NEW sites \in Seq(Names),
         \A k \in 1 .. Len(sites) : sites[k] \in Range(ns)
  PROVE  Occurrences(NamesOf(ns, Sites(ns, sites))) = Occurrences(sites)
<1> DEFINE m == Len(sites)
           e == Sites(ns, sites)
           nm == NamesOf(ns, e)
<1>1. e \in Seq(1 .. Len(ns)) /\ Len(e) = m /\ m \in Nat /\ DOMAIN sites = 1 .. m
  BY SitesProps
<1>2. PICK p \in Bijection(1 .. m, 1 .. m) :
        \A k \in 1 .. m : ns[e[k]] = sites[p[k]]
  BY SitesProps
<1>3. p \in [1 .. m -> 1 .. m]
  BY <1>2 DEF Bijection, Injection
<1> HIDE DEF e, m
<1>4. DOMAIN nm = 1 .. m /\ \A k \in 1 .. m : nm[k] = sites[p[k]]
  BY <1>1, <1>2 DEF NamesOf
<1> HIDE DEF nm
<1>5. ASSUME NEW name \in Names
      PROVE  Cardinality({k \in DOMAIN nm : nm[k] = name})
               = Cardinality({k \in DOMAIN sites : sites[k] = name})
  <2> DEFINE D == {k \in 1 .. m : sites[k] = name}
  <2>1. {k \in DOMAIN nm : nm[k] = name} = {k \in 1 .. m : p[k] \in D}
    BY <1>3, <1>4
  <2>2. D \subseteq 1 .. m
    OBVIOUS
  <2>3. {k \in DOMAIN sites : sites[k] = name} = D
    BY <1>1
  <2> HIDE DEF D
  <2>4. Cardinality({k \in 1 .. m : p[k] \in D}) = Cardinality(D)
    BY <1>1, <1>2, <2>2, BijectionKeepsCount
  <2> QED
    BY <2>1, <2>3, <2>4
<1>6. Occurrences(nm) = Occurrences(sites)
  BY <1>5 DEF Occurrences
<1> QED
  BY <1>6 DEF nm, e

(* Two lines denote the same edge exactly when their sorted numbers agree. *)
LEMMA SameEdge ==
  ASSUME NEW ns \in Seq(Names), Injective(ns), NEW sites \in Seq(Names),
         \A k \in 1 .. Len(sites) : sites[k] \in Range(ns),
         NEW d \in Seq(1 .. Len(ns)), Ascending(d, Len(d))
  PROVE  d = Sites(ns, sites) <=> Occurrences(NamesOf(ns, d)) = Occurrences(sites)
<1> DEFINE e == Sites(ns, sites)
           m == Len(e)
           n == Len(d)
<1>1. e \in Seq(1 .. Len(ns)) /\ Ascending(e, m)
  BY SitesProps
<1>2. Occurrences(NamesOf(ns, e)) = Occurrences(sites)
  BY OccurrencesOfSites
<1> HIDE DEF e
<1>3. ASSUME Occurrences(NamesOf(ns, d)) = Occurrences(NamesOf(ns, e))
      PROVE  d = e
  <2>1. DOMAIN d = 1 .. n /\ DOMAIN e = 1 .. m /\ n \in Nat /\ m \in Nat
    BY <1>1
  <2>2. /\ \A k \in 1 .. n : d[k] \in 1 .. Len(ns)
        /\ \A k \in 1 .. m : e[k] \in 1 .. Len(ns)
    BY <1>1
  <2>0. Ascending(d, n) /\ Ascending(e, m)
    BY <1>1
  <2> HIDE DEF n, m
  <2>3. ASSUME NEW u \in Int
        PROVE  Occurs(u, d, n) = Occurs(u, e, m)
    <3>1. CASE u \in 1 .. Len(ns)
      <4>1. ns[u] \in Names
        BY <3>1
      <4>2. Occurrences(NamesOf(ns, d))[ns[u]] = Occurrences(NamesOf(ns, e))[ns[u]]
        BY <1>3
      <4>3. {k \in DOMAIN d : ns[d[k]] = ns[u]} = {k \in 1 .. n : d[k] = u}
        BY <2>1, <2>2, <3>1 DEF Injective
      <4>4. {k \in DOMAIN e : ns[e[k]] = ns[u]} = {k \in 1 .. m : e[k] = u}
        BY <2>1, <2>2, <3>1 DEF Injective
      <4>5. Occurrences(NamesOf(ns, d))[ns[u]]
              = Cardinality({k \in DOMAIN d : ns[d[k]] = ns[u]})
        <5>1. {k \in DOMAIN NamesOf(ns, d) : NamesOf(ns, d)[k] = ns[u]}
                = {k \in DOMAIN d : ns[d[k]] = ns[u]}
          BY DEF NamesOf
        <5> QED
          BY <4>1, <5>1 DEF Occurrences
      <4>6. Occurrences(NamesOf(ns, e))[ns[u]]
              = Cardinality({k \in DOMAIN e : ns[e[k]] = ns[u]})
        <5>1. {k \in DOMAIN NamesOf(ns, e) : NamesOf(ns, e)[k] = ns[u]}
                = {k \in DOMAIN e : ns[e[k]] = ns[u]}
          BY DEF NamesOf
        <5> QED
          BY <4>1, <5>1 DEF Occurrences
      <4> QED
        BY <4>2, <4>3, <4>4, <4>5, <4>6 DEF Occurs
    <3>2. CASE u \notin 1 .. Len(ns)
      <4>1. Occurs(u, d, n) = 0 /\ Occurs(u, e, m) = 0
        <5>1. ~ \E k \in 1 .. n : d[k] = u
          BY <2>2, <3>2
        <5>2. ~ \E k \in 1 .. m : e[k] = u
          BY <2>2, <3>2
        <5> QED
          BY <2>1, <5>1, <5>2, OccursSome
      <4> QED
        BY <4>1
    <3> QED
      BY <3>1, <3>2
  <2>4. n = m /\ \A k \in 1 .. n : d[k] = e[k]
    BY <2>0, <2>1, <2>3, SortedUnique
  <2> QED
    BY <1>1, <2>1, <2>4
<1> QED
  BY <1>2, <1>3 DEF e

LineType ==
    [kind : {"other", "bad"}] \cup [kind : {"edge"}, sites : Seq(Names), val : Int]
EdgeType(n) == [sites : Seq(1 .. n), val : Int]
EdgeLine(f, j) == f[j].kind = "edge" /\ f[j].val # 0

(* The first n lines of f that give an edge for the first time, and the edges. *)
IsFirst(f, j) ==
    /\ EdgeLine(f, j)
    /\ \A k \in 1 .. (j - 1) :
          EdgeLine(f, k) => Occurrences(f[k].sites) # Occurrences(f[j].sites)
First(f, n) == {j \in 1 .. n : IsFirst(f, j)}
Given(f, j) == [sites |-> Occurrences(f[j].sites), val |-> f[j].val]
MeantBy(f, n) == {Given(f, j) : j \in First(f, n)}
ReadBack(ns, e) == [sites |-> Occurrences(NamesOf(ns, e.sites)), val |-> e.val]

(* What holds of the index ns and the edges es after n lines of f. *)
LoadedTypes(f, n, ns, es) ==
    /\ f \in Seq(LineType) /\ n \in 0 .. Len(f)
    /\ ns \in Seq(Names) /\ Injective(ns)
    /\ es \in Seq(EdgeType(Len(ns)))
    /\ \A j \in 1 .. n : EdgeLine(f, j) =>
          \A k \in 1 .. Len(f[j].sites) : f[j].sites[k] \in Range(ns)
EdgesInOrder(es) ==
    /\ \A j, k \in 1 .. Len(es) : es[j].sites = es[k].sites => j = k
    /\ \A k \in 1 .. Len(es) : Ascending(es[k].sites, Len(es[k].sites))
SitesCovered(ns, es) ==
    \A a \in 1 .. Len(ns) : \E k \in 1 .. Len(es) : a \in Range(es[k].sites)
ComeFromLines(f, n, es) ==
    \A k \in 1 .. Len(es) : \E j \in 1 .. n :
        /\ EdgeLine(f, j) /\ Len(f[j].sites) = Len(es[k].sites)
        /\ Injective(f[j].sites) => Injective(es[k].sites)
Meaning(f, n, ns, es) ==
    /\ {ReadBack(ns, es[k]) : k \in 1 .. Len(es)} = MeantBy(f, n)
    /\ IsFiniteSet(MeantBy(f, n)) /\ Cardinality(MeantBy(f, n)) = Len(es)

(* The sites and the edges after one more line, an edge. *)
LineSites(f, n, ns) == Sites(Indexed(ns, f[n + 1].sites), f[n + 1].sites)
Found(f, n, ns, es) == \E k \in 1 .. Len(es) : es[k].sites = LineSites(f, n, ns)
NewEdge(f, n, ns) == [sites |-> LineSites(f, n, ns), val |-> f[n + 1].val]
MoreEdges(f, n, ns, es) ==
    IF Found(f, n, ns, es) THEN es ELSE Append(es, NewEdge(f, n, ns))
Repeated(f, n) ==
    \E k \in 1 .. n :
        EdgeLine(f, k) /\ Occurrences(f[k].sites) = Occurrences(f[n + 1].sites)

LEMMA LineIsTyped ==
  ASSUME NEW f \in Seq(LineType), NEW j \in 1 .. Len(f), f[j].kind = "edge"
  PROVE  f[j].sites \in Seq(Names) /\ f[j].val \in Int
<1>1. f[j] \in LineType
  OBVIOUS
<1>2. f[j] \in [kind : {"edge"}, sites : Seq(Names), val : Int]
  BY <1>1 DEF LineType
<1> QED
  BY <1>2

LEMMA ReadFacts ==
  ASSUME NEW f, NEW n, NEW ns, NEW es, LoadedTypes(f, n, ns, es),
         n + 1 <= Len(f), EdgeLine(f, n + 1),
         NEW r, r = Indexed(ns, f[n + 1].sites)
  PROVE  /\ n \in Nat /\ n + 1 \in 1 .. Len(f)
         /\ f[n + 1].sites \in Seq(Names) /\ f[n + 1].val \in Int
         /\ r \in Seq(Names) /\ Injective(r) /\ Extends(r, ns)
         /\ \A k \in 1 .. Len(f[n + 1].sites) : f[n + 1].sites[k] \in Range(r)
         /\ LineSites(f, n, ns) = Sites(r, f[n + 1].sites)
         /\ LineSites(f, n, ns) \in Seq(1 .. Len(r))
         /\ Len(LineSites(f, n, ns)) = Len(f[n + 1].sites)
         /\ Ascending(LineSites(f, n, ns), Len(LineSites(f, n, ns)))
         /\ NewEdge(f, n, ns) \in EdgeType(Len(r))
         /\ es \in Seq(EdgeType(Len(r)))
<1> DEFINE line == f[n + 1]
<1>1. f \in Seq(LineType) /\ n \in Nat /\ n + 1 \in 1 .. Len(f) /\ line.kind = "edge"
  BY DEF LoadedTypes, EdgeLine
<1>2. line.sites \in Seq(Names) /\ line.val \in Int
  BY <1>1, LineIsTyped
<1>3. ns \in Seq(Names) /\ Injective(ns) /\ es \in Seq(EdgeType(Len(ns)))
  BY DEF LoadedTypes
<1> HIDE DEF line
<1>4. /\ r = Indexed(ns, line.sites)
      /\ LineSites(f, n, ns) = Sites(r, line.sites)
      /\ NewEdge(f, n, ns) = [sites |-> LineSites(f, n, ns), val |-> line.val]
  BY DEF LineSites, NewEdge, line
<1>5. /\ r \in Seq(Names) /\ Injective(r) /\ Extends(r, ns)
      /\ \A k \in 1 .. Len(line.sites) : line.sites[k] \in Range(r)
  BY <1>2, <1>3, <1>4, IndexedProps
<1> DEFINE d == Sites(r, line.sites)
<1>6. d \in Seq(1 .. Len(r)) /\ Len(d) = Len(line.sites) /\ Ascending(d, Len(d))
  BY <1>2, <1>5, SitesProps
<1> HIDE DEF d
<1>7. NewEdge(f, n, ns) \in EdgeType(Len(r))
  BY <1>2, <1>4, <1>6 DEF EdgeType, d
<1>8. es \in Seq(EdgeType(Len(r)))
  <2>1. Len(ns) \in Nat /\ Len(r) \in Nat /\ Len(ns) <= Len(r)
    BY <1>3, <1>5 DEF Extends
  <2>2. 1 .. Len(ns) \subseteq 1 .. Len(r)
    BY <2>1
  <2>3. EdgeType(Len(ns)) \subseteq EdgeType(Len(r))
    <3> SUFFICES ASSUME NEW e \in EdgeType(Len(ns))
                 PROVE  e \in EdgeType(Len(r))
      OBVIOUS
    <3>1. e.sites \in Seq(1 .. Len(ns)) /\ e.val \in Int
          /\ e = [sites |-> e.sites, val |-> e.val]
      BY DEF EdgeType
    <3>2. e.sites \in Seq(1 .. Len(r))
      <4> DEFINE q == e.sites
                 m == Len(q)
      <4>1. m \in Nat /\ q \in [1 .. m -> 1 .. Len(ns)]
        BY <3>1
      <4>2. q \in [1 .. m -> 1 .. Len(r)]
        BY <2>2, <4>1
      <4> QED
        BY <4>1, <4>2, FiniteSeq
    <3> QED
      BY <3>1, <3>2 DEF EdgeType
  <2> QED
    BY <1>3, <2>3
<1> QED
  BY <1>1, <1>2, <1>4, <1>5, <1>6, <1>7, <1>8 DEF d, line

(* An edge reads back the same through the longer index. *)
LEMMA ReadBackStays ==
  ASSUME NEW ns \in Seq(Names), NEW r \in Seq(Names), Extends(r, ns),
         NEW e \in EdgeType(Len(ns))
  PROVE  NamesOf(r, e.sites) = NamesOf(ns, e.sites) /\ ReadBack(r, e) = ReadBack(ns, e)
<1>1. e.sites \in Seq(1 .. Len(ns))
  BY DEF EdgeType
<1>2. \A k \in DOMAIN e.sites : e.sites[k] \in 1 .. Len(ns)
  BY <1>1
<1>3. NamesOf(r, e.sites) = NamesOf(ns, e.sites)
  BY <1>2 DEF NamesOf, Extends
<1> QED
  BY <1>3 DEF ReadBack

LEMMA FirstOne ==
  ASSUME NEW f, NEW n \in Nat, NEW k \in 1 .. n, EdgeLine(f, k)
  PROVE  \E j \in First(f, n) : Occurrences(f[j].sites) = Occurrences(f[k].sites)
<1> DEFINE T == {j \in 1 .. n : EdgeLine(f, j)
                                /\ Occurrences(f[j].sites) = Occurrences(f[k].sites)}
<1>1. T \subseteq Nat /\ T # {}
  OBVIOUS
<1>2. PICK j \in T : \A y \in T : j <= y
  <2> HIDE DEF T
  <2> QED
    BY <1>1, LeastNat
<1>3. ASSUME NEW h \in 1 .. (j - 1), EdgeLine(f, h)
      PROVE  Occurrences(f[h].sites) # Occurrences(f[j].sites)
  BY <1>2, <1>3
<1>4. IsFirst(f, j)
  BY <1>2, <1>3 DEF IsFirst
<1> QED
  BY <1>2, <1>4 DEF First

(* The duplicate check finds the edge exactly when an earlier line denotes it. *)
LEMMA FoundIffRepeated ==
  ASSUME NEW f, NEW n, NEW ns, NEW es, LoadedTypes(f, n, ns, es), EdgesInOrder(es),
         Meaning(f, n, ns, es), n + 1 <= Len(f), EdgeLine(f, n + 1)
  PROVE  Found(f, n, ns, es) <=> Repeated(f, n)
<1> DEFINE sites == f[n + 1].sites
           r == Indexed(ns, sites)
           d == LineSites(f, n, ns)
<1>1. /\ n \in Nat /\ sites \in Seq(Names)
      /\ r \in Seq(Names) /\ Injective(r) /\ Extends(r, ns)
      /\ \A k \in 1 .. Len(sites) : sites[k] \in Range(r)
      /\ d = Sites(r, sites)
      /\ es \in Seq(EdgeType(Len(r)))
  BY ReadFacts
<1>2. ns \in Seq(Names) /\ es \in Seq(EdgeType(Len(ns)))
  BY DEF LoadedTypes
<1> HIDE DEF r, d, sites
<1>3. ASSUME NEW k \in 1 .. Len(es)
      PROVE  /\ ReadBack(ns, es[k]) \in MeantBy(f, n)
             /\ es[k].sites = d <=> ReadBack(ns, es[k]).sites = Occurrences(sites)
  <2>1. es[k] \in EdgeType(Len(ns)) /\ es[k] \in EdgeType(Len(r))
    BY <1>1, <1>2
  <2>2. es[k].sites \in Seq(1 .. Len(r)) /\ Ascending(es[k].sites, Len(es[k].sites))
    BY <2>1 DEF EdgeType, EdgesInOrder
  <2>3. es[k].sites = d <=> Occurrences(NamesOf(r, es[k].sites)) = Occurrences(sites)
    BY <1>1, <2>2, SameEdge
  <2>4. NamesOf(r, es[k].sites) = NamesOf(ns, es[k].sites)
    BY <1>1, <1>2, <2>1, ReadBackStays
  <2> QED
    BY <2>3, <2>4 DEF ReadBack, Meaning
<1>4. ASSUME Found(f, n, ns, es)
      PROVE  Repeated(f, n)
  <2>1. PICK k \in 1 .. Len(es) : es[k].sites = d
    BY <1>4 DEF Found, d
  <2>2. PICK j \in First(f, n) : ReadBack(ns, es[k]) = Given(f, j)
    BY <1>3 DEF MeantBy
  <2>3. Occurrences(f[j].sites) = Occurrences(sites)
    BY <1>3, <2>1, <2>2 DEF Given
  <2>4. j \in 1 .. n /\ EdgeLine(f, j)
    BY DEF First, IsFirst
  <2> QED
    BY <2>3, <2>4 DEF Repeated, sites
<1>5. ASSUME Repeated(f, n)
      PROVE  Found(f, n, ns, es)
  <2>1. PICK k \in 1 .. n : EdgeLine(f, k) /\ Occurrences(f[k].sites) = Occurrences(sites)
    BY <1>5 DEF Repeated, sites
  <2>2. PICK j \in First(f, n) : Occurrences(f[j].sites) = Occurrences(sites)
    BY <1>1, <2>1, FirstOne
  <2>3. Given(f, j) \in MeantBy(f, n) /\ Given(f, j).sites = Occurrences(sites)
    BY <2>2 DEF MeantBy, Given
  <2>4. PICK h \in 1 .. Len(es) : ReadBack(ns, es[h]) = Given(f, j)
    BY <2>3 DEF Meaning
  <2>5. es[h].sites = d
    BY <1>3, <2>3, <2>4
  <2> QED
    BY <2>5 DEF Found, d
<1> QED
  BY <1>4, <1>5

(* One line more: the types, the order and the coverage of the edges. *)
LEMMA AppendProps ==
  ASSUME NEW S, NEW q \in Seq(S), NEW v \in S
  PROVE  /\ Append(q, v) \in Seq(S)
         /\ Len(Append(q, v)) = Len(q) + 1
         /\ Len(q) \in Nat
         /\ Append(q, v)[Len(q) + 1] = v
         /\ \A k \in 1 .. Len(q) : Append(q, v)[k] = q[k]
         /\ \A k \in 1 .. (Len(q) + 1) : k \in 1 .. Len(q) \/ k = Len(q) + 1
         /\ \A k \in 1 .. Len(q) : k \in 1 .. (Len(q) + 1)
         /\ Len(q) + 1 \in 1 .. (Len(q) + 1)
OBVIOUS

LEMMA RangeGrows ==
  ASSUME NEW ns \in Seq(Names), NEW r \in Seq(Names), Extends(r, ns)
  PROVE  Range(ns) \subseteq Range(r)
<1> SUFFICES ASSUME NEW k \in 1 .. Len(ns)
             PROVE  ns[k] \in Range(r)
  BY DEF Range
<1>1. k \in 1 .. Len(r) /\ r[k] = ns[k]
  BY DEF Extends
<1> QED
  BY <1>1 DEF Range


LEMMA MoreTypes ==
  ASSUME NEW f, NEW n, NEW ns, NEW es, LoadedTypes(f, n, ns, es),
         n + 1 <= Len(f), EdgeLine(f, n + 1),
         NEW r, r = Indexed(ns, f[n + 1].sites)
  PROVE  LoadedTypes(f, n + 1, r, MoreEdges(f, n, ns, es))
<1> DEFINE es2 == MoreEdges(f, n, ns, es)
           new == NewEdge(f, n, ns)
<1>1. /\ n \in Nat /\ n + 1 \in 1 .. Len(f)
      /\ r \in Seq(Names) /\ Injective(r) /\ Extends(r, ns)
      /\ \A k \in 1 .. Len(f[n + 1].sites) : f[n + 1].sites[k] \in Range(r)
      /\ new \in EdgeType(Len(r)) /\ es \in Seq(EdgeType(Len(r)))
  BY ReadFacts
<1>2. f \in Seq(LineType) /\ ns \in Seq(Names)
  BY DEF LoadedTypes
<1>3. es2 = es \/ es2 = Append(es, new)
  BY DEF MoreEdges
<1> HIDE DEF es2, new
<1>4. es2 \in Seq(EdgeType(Len(r)))
  <2> DEFINE S == EdgeType(Len(r))
  <2>1. es \in Seq(S) /\ new \in S
    BY <1>1
  <2> HIDE DEF S
  <2>2. Append(es, new) \in Seq(S)
    BY <2>1
  <2> QED
    BY <1>3, <2>1, <2>2 DEF S
<1>5. ASSUME NEW j \in 1 .. (n + 1), EdgeLine(f, j), NEW k \in 1 .. Len(f[j].sites)
      PROVE  f[j].sites[k] \in Range(r)
  <2>1. CASE j = n + 1
    BY <1>1, <2>1
  <2>2. CASE j # n + 1
    <3>1. j \in 1 .. n
      BY <1>1, <2>2
    <3>2. f[j].sites[k] \in Range(ns)
      BY <1>5, <3>1 DEF LoadedTypes
    <3> QED
      BY <1>1, <1>2, <3>2, RangeGrows
  <2> QED
    BY <2>1, <2>2
<1>6. n + 1 \in 0 .. Len(f)
  BY <1>1
<1> QED
  BY <1>1, <1>2, <1>4, <1>5, <1>6 DEF LoadedTypes, es2

LEMMA MoreInOrder ==
  ASSUME NEW f, NEW n, NEW ns, NEW es, LoadedTypes(f, n, ns, es), EdgesInOrder(es),
         n + 1 <= Len(f), EdgeLine(f, n + 1)
  PROVE  EdgesInOrder(MoreEdges(f, n, ns, es))
<1> DEFINE es2 == MoreEdges(f, n, ns, es)
           new == NewEdge(f, n, ns)
           S == EdgeType(Len(Indexed(ns, f[n + 1].sites)))
<1>1. /\ es \in Seq(S) /\ new \in S
      /\ Ascending(new.sites, Len(new.sites))
  BY ReadFacts DEF NewEdge
<1>2. CASE Found(f, n, ns, es)
  BY <1>2 DEF MoreEdges
<1>3. CASE ~ Found(f, n, ns, es)
  <2>1. es2 = Append(es, new)
    BY <1>3 DEF MoreEdges
  <2>2. \A k \in 1 .. Len(es) : es[k].sites # new.sites
    BY <1>3 DEF Found, NewEdge
  <2> HIDE DEF es2, new, S
  <2>3. /\ Len(es2) = Len(es) + 1 /\ es2[Len(es) + 1] = new
        /\ \A k \in 1 .. Len(es) : es2[k] = es[k]
        /\ \A k \in 1 .. Len(es2) : k \in 1 .. Len(es) \/ k = Len(es) + 1
    BY <1>1, <2>1, AppendProps
  <2> QED
    BY <1>1, <2>2, <2>3 DEF EdgesInOrder, es2
<1> QED
  BY <1>2, <1>3

LEMMA MoreCovered ==
  ASSUME NEW f, NEW n, NEW ns, NEW es, LoadedTypes(f, n, ns, es), SitesCovered(ns, es),
         n + 1 <= Len(f), EdgeLine(f, n + 1),
         NEW r, r = Indexed(ns, f[n + 1].sites)
  PROVE  SitesCovered(r, MoreEdges(f, n, ns, es))
<1> DEFINE es2 == MoreEdges(f, n, ns, es)
           new == NewEdge(f, n, ns)
           sites == f[n + 1].sites
           d == LineSites(f, n, ns)
           S == EdgeType(Len(r))
<1>1. /\ sites \in Seq(Names)
      /\ r \in Seq(Names) /\ Injective(r) /\ Extends(r, ns)
      /\ \A k \in 1 .. Len(sites) : sites[k] \in Range(r)
      /\ d = Sites(r, sites) /\ d \in Seq(1 .. Len(r)) /\ Len(d) = Len(sites)
      /\ es \in Seq(S) /\ new \in S
  BY ReadFacts
<1>2. ns \in Seq(Names) /\ new.sites = d
  BY DEF LoadedTypes, NewEdge
<1>3. \A k \in 1 .. Len(r) : Len(ns) < k => r[k] \in Range(sites)
  BY <1>1, <1>2, IndexedProps DEF LoadedTypes
<1>4. /\ Found(f, n, ns, es) => es2 = es
      /\ ~ Found(f, n, ns, es) => es2 = Append(es, new)
  BY DEF MoreEdges
<1>5. Found(f, n, ns, es) => \E k \in 1 .. Len(es) : es[k].sites = d
  BY DEF Found
<1> HIDE DEF es2, new, sites, d, S
<1>6. \E h \in 1 .. Len(es2) : es2[h].sites = d
  BY <1>1, <1>2, <1>4, <1>5, AppendProps
<1>7. \A k \in 1 .. Len(es) : k \in 1 .. Len(es2) /\ es2[k] = es[k]
  <2>1. CASE Found(f, n, ns, es)
    BY <1>4, <2>1
  <2>2. CASE ~ Found(f, n, ns, es)
    <3>1. es2 = Append(es, new)
      BY <1>4, <2>2
    <3>2. /\ Len(es2) = Len(es) + 1 /\ Len(es) \in Nat
          /\ \A k \in 1 .. Len(es) : es2[k] = es[k]
      BY <1>1, <3>1, AppendProps
    <3> QED
      BY <3>2
  <2> QED
    BY <2>1, <2>2
<1>8. ASSUME NEW a0 \in 1 .. Len(r)
      PROVE  \E k \in 1 .. Len(es2) : a0 \in Range(es2[k].sites)
  <2>1. CASE a0 <= Len(ns)
    <3>1. a0 \in 1 .. Len(ns)
      BY <1>2, <2>1
    <3>2. PICK k \in 1 .. Len(es) : a0 \in Range(es[k].sites)
      BY <3>1 DEF SitesCovered
    <3> QED
      BY <1>7, <3>2
  <2>2. CASE Len(ns) < a0
    <3>1. r[a0] \in Range(sites)
      BY <1>3, <2>2
    <3>2. PICK j \in 1 .. Len(sites) : sites[j] = r[a0]
      BY <1>1, <3>1 DEF Range
    <3>3. Number(r, r[a0]) = a0
      <4>1. r[a0] \in Range(r)
        BY <1>1, <3>2
      <4> QED
        BY <1>1, <4>1, NumberIs
    <3>4. PICK p \in Bijection(1 .. Len(sites), 1 .. Len(sites)) :
            \A k \in 1 .. Len(sites) : d[k] = Number(r, sites[p[k]])
      BY <1>1, SitesProps
    <3>5. PICK k \in 1 .. Len(sites) : p[k] = j
      BY <3>4 DEF Bijection, Surjection
    <3>6. d[k] = a0 /\ k \in DOMAIN d
      <4>1. d[k] = Number(r, sites[j])
        BY <3>4, <3>5
      <4>2. DOMAIN d = 1 .. Len(sites)
        BY <1>1
      <4> QED
        BY <3>2, <3>3, <4>1, <4>2
    <3>7. a0 \in Range(d)
      BY <3>6 DEF Range
    <3> QED
      BY <1>6, <3>7
  <2> QED
    BY <1>1, <1>2, <2>1, <2>2
<1> QED
  BY <1>8 DEF SitesCovered, es2

LEMMA MoreFromLines ==
  ASSUME NEW f, NEW n, NEW ns, NEW es, LoadedTypes(f, n, ns, es), ComeFromLines(f, n, es),
         n + 1 <= Len(f), EdgeLine(f, n + 1)
  PROVE  ComeFromLines(f, n + 1, MoreEdges(f, n, ns, es))
<1> DEFINE es2 == MoreEdges(f, n, ns, es)
           new == NewEdge(f, n, ns)
           sites == f[n + 1].sites
           r == Indexed(ns, sites)
           d == LineSites(f, n, ns)
           S == EdgeType(Len(r))
<1>1. /\ sites \in Seq(Names) /\ n \in Nat
      /\ r \in Seq(Names) /\ Injective(r)
      /\ \A k \in 1 .. Len(sites) : sites[k] \in Range(r)
      /\ d = Sites(r, sites) /\ d \in Seq(1 .. Len(r)) /\ Len(d) = Len(sites)
      /\ es \in Seq(S) /\ new \in S /\ new.sites = d
  BY ReadFacts DEF NewEdge
<1>2. es2 = es \/ es2 = Append(es, new)
  BY DEF MoreEdges
<1> HIDE DEF es2, new, sites, r, d, S
<1>3. PICK p \in Bijection(1 .. Len(sites), 1 .. Len(sites)) :
        \A k \in 1 .. Len(sites) :
           /\ Sites(r, sites)[k] = Number(r, sites[p[k]])
           /\ r[Sites(r, sites)[k]] = sites[p[k]]
  BY <1>1, SitesProps
<1>4. /\ p \in [1 .. Len(sites) -> 1 .. Len(sites)]
      /\ \A j, k \in 1 .. Len(sites) : p[j] = p[k] => j = k
  BY <1>3 DEF Bijection, Injection, IsInjective
<1>5. ASSUME Injective(sites)
      PROVE  Injective(d)
  <2> SUFFICES ASSUME NEW j \in 1 .. Len(sites), NEW k \in 1 .. Len(sites), d[j] = d[k]
               PROVE  j = k
    BY <1>1 DEF Injective
  <2>1. p[j] \in 1 .. Len(sites) /\ p[k] \in 1 .. Len(sites)
    BY <1>4
  <2>2. r[d[j]] = sites[p[j]] /\ r[d[k]] = sites[p[k]]
    BY <1>1, <1>3
  <2>3. p[j] = p[k]
    BY <1>5, <2>1, <2>2 DEF Injective
  <2> QED
    BY <1>4, <2>3
<1>6. ASSUME NEW k \in 1 .. Len(es2)
      PROVE  \E j \in 1 .. (n + 1) :
                /\ EdgeLine(f, j) /\ Len(f[j].sites) = Len(es2[k].sites)
                /\ Injective(f[j].sites) => Injective(es2[k].sites)
  <2>1. CASE k \in 1 .. Len(es) /\ es2[k] = es[k]
    <3>1. PICK j \in 1 .. n :
            /\ EdgeLine(f, j) /\ Len(f[j].sites) = Len(es[k].sites)
            /\ Injective(f[j].sites) => Injective(es[k].sites)
      BY <2>1 DEF ComeFromLines
    <3>2. j \in 1 .. (n + 1)
      BY <1>1
    <3> QED
      BY <2>1, <3>1, <3>2
  <2>2. CASE es2[k] = new
    <3>1. n + 1 \in 1 .. (n + 1)
      BY <1>1
    <3>2. /\ EdgeLine(f, n + 1) /\ Len(f[n + 1].sites) = Len(new.sites)
          /\ Injective(f[n + 1].sites) => Injective(new.sites)
      BY <1>1, <1>5 DEF sites
    <3> QED
      BY <2>2, <3>1, <3>2
  <2> QED
    BY <1>1, <1>2, <2>1, <2>2, AppendProps
<1> QED
  BY <1>6 DEF ComeFromLines, es2

LEMMA FirstGrows ==
  ASSUME NEW f, NEW n \in Nat
  PROVE  /\ EdgeLine(f, n + 1) /\ ~ Repeated(f, n) =>
              n + 1 \notin First(f, n) /\ First(f, n + 1) = First(f, n) \cup {n + 1}
         /\ ~ EdgeLine(f, n + 1) \/ Repeated(f, n) => First(f, n + 1) = First(f, n)
<1>1. \A j : j \in 1 .. (n + 1) <=> j \in 1 .. n \/ j = n + 1
  OBVIOUS
<1>2. IsFirst(f, n + 1) <=> EdgeLine(f, n + 1) /\ ~ Repeated(f, n)
  <2>1. (n + 1) - 1 = n
    OBVIOUS
  <2> QED
    BY <2>1 DEF IsFirst, Repeated
<1>3. n + 1 \notin 1 .. n
  OBVIOUS
<1> QED
  BY <1>1, <1>2, <1>3 DEF First

LEMMA MoreMeaning ==
  ASSUME NEW f, NEW n, NEW ns, NEW es, LoadedTypes(f, n, ns, es), EdgesInOrder(es),
         Meaning(f, n, ns, es), n + 1 <= Len(f), EdgeLine(f, n + 1),
         NEW r, r = Indexed(ns, f[n + 1].sites)
  PROVE  Meaning(f, n + 1, r, MoreEdges(f, n, ns, es))
<1> DEFINE es2 == MoreEdges(f, n, ns, es)
           new == NewEdge(f, n, ns)
           sites == f[n + 1].sites
           d == LineSites(f, n, ns)
           S == EdgeType(Len(r))
           old == {ReadBack(ns, es[k]) : k \in 1 .. Len(es)}
           all == {ReadBack(r, es2[k]) : k \in 1 .. Len(es2)}
           given == Given(f, n + 1)
<1>1. /\ sites \in Seq(Names) /\ n \in Nat
      /\ r \in Seq(Names) /\ Injective(r) /\ Extends(r, ns)
      /\ \A k \in 1 .. Len(sites) : sites[k] \in Range(r)
      /\ d = Sites(r, sites) /\ es \in Seq(S) /\ new \in S
  BY ReadFacts
<1>2. /\ new = [sites |-> d, val |-> f[n + 1].val]
      /\ given = [sites |-> Occurrences(sites), val |-> f[n + 1].val]
  BY DEF NewEdge, Given
<1>3. ns \in Seq(Names) /\ es \in Seq(EdgeType(Len(ns)))
  BY DEF LoadedTypes
<1>4. old = MeantBy(f, n) /\ IsFiniteSet(MeantBy(f, n))
      /\ Cardinality(MeantBy(f, n)) = Len(es)
  BY DEF Meaning
<1>5. Found(f, n, ns, es) <=> Repeated(f, n)
  BY FoundIffRepeated
<1>6. \A k \in 1 .. Len(es) : ReadBack(r, es[k]) = ReadBack(ns, es[k])
  BY <1>1, <1>3, ReadBackStays
<1>7. Len(es) \in Nat
  BY <1>3
<1>8. CASE Repeated(f, n)
  <2>1. es2 = es
    BY <1>5, <1>8 DEF MoreEdges
  <2>2. First(f, n + 1) = First(f, n)
    BY <1>1, <1>8, FirstGrows
  <2>3. MeantBy(f, n + 1) = MeantBy(f, n)
    BY <2>2 DEF MeantBy
  <2>4. all = old
    BY <1>6, <2>1
  <2> QED
    BY <1>4, <2>1, <2>3, <2>4 DEF Meaning
<1>9. CASE ~ Repeated(f, n)
  <2>1. es2 = Append(es, new)
    BY <1>5, <1>9 DEF MoreEdges
  <2>2. First(f, n + 1) = First(f, n) \cup {n + 1}
    BY <1>1, <1>9, FirstGrows
  <2>3. MeantBy(f, n + 1) = MeantBy(f, n) \cup {given}
    BY <2>2 DEF MeantBy
  <2>4. given \notin MeantBy(f, n)
    <3> SUFFICES ASSUME NEW j \in First(f, n), given = Given(f, j)
                 PROVE  FALSE
      BY DEF MeantBy
    <3>1. given.sites = Occurrences(sites) /\ Given(f, j).sites = Occurrences(f[j].sites)
      BY <1>2 DEF Given
    <3>2. Occurrences(f[j].sites) = Occurrences(sites)
      BY <3>1
    <3>3. j \in 1 .. n /\ EdgeLine(f, j)
      BY DEF First, IsFirst
    <3> QED
      BY <1>9, <3>2, <3>3 DEF Repeated
  <2>5. IsFiniteSet(MeantBy(f, n + 1)) /\ Cardinality(MeantBy(f, n + 1)) = Len(es) + 1
    <3> HIDE DEF given
    <3> DEFINE M == MeantBy(f, n)
    <3>1. IsFiniteSet(M) /\ Cardinality(M) = Len(es) /\ given \notin M
      BY <1>4, <2>4
    <3> HIDE DEF M
    <3>2. IsFiniteSet(M \cup {given}) /\ Cardinality(M \cup {given}) = Len(es) + 1
      BY <3>1, FS_AddElement
    <3> QED
      BY <2>3, <3>2 DEF M
  <2>6. ReadBack(r, new) = given
    <3>1. Occurrences(NamesOf(r, d)) = Occurrences(sites)
      BY <1>1, OccurrencesOfSites
    <3> QED
      BY <1>2, <3>1 DEF ReadBack
  <2> HIDE DEF es2, new, given, S
  <2>7. /\ Len(es2) = Len(es) + 1 /\ es2[Len(es) + 1] = new
        /\ \A k \in 1 .. Len(es) : es2[k] = es[k]
    BY <1>1, <2>1, AppendProps
  <2>8. \A v : v \in all <=> v \in old \/ v = given
    <3> SUFFICES ASSUME NEW v
                 PROVE  v \in all <=> v \in old \/ v = given
      OBVIOUS
    <3>1. ASSUME v \in all
          PROVE  v \in old \/ v = given
      <4>1. PICK k \in 1 .. (Len(es) + 1) : v = ReadBack(r, es2[k])
        BY <2>7, <3>1
      <4>2. CASE k = Len(es) + 1
        BY <2>6, <2>7, <4>1, <4>2
      <4>3. CASE k \in 1 .. Len(es)
        BY <1>6, <2>7, <4>1, <4>3
      <4> QED
        BY <1>7, <4>2, <4>3
    <3>2. ASSUME v \in old
          PROVE  v \in all
      <4>1. PICK k \in 1 .. Len(es) : v = ReadBack(ns, es[k])
        BY <3>2
      <4>2. k \in 1 .. Len(es2) /\ v = ReadBack(r, es2[k])
        BY <1>6, <1>7, <2>7, <4>1
      <4> QED
        BY <4>2
    <3>3. given \in all
      <4>1. Len(es) + 1 \in 1 .. Len(es2)
        BY <1>7, <2>7
      <4> QED
        BY <2>6, <2>7, <4>1
    <3> QED
      BY <3>1, <3>2, <3>3
  <2>9. all = MeantBy(f, n + 1)
    BY <1>4, <2>3, <2>8
  <2> QED
    BY <2>5, <2>7, <2>9 DEF Meaning, es2
<1> QED
  BY <1>8, <1>9

(***************************************************************************)
(* The energy of the lines is that of the edges.                           *)
(***************************************************************************)

(* What an edge contributes to the energy, and what the lines of the file do. *)
EdgeTerm(config, e) ==
    IF Len(e.sites) = 0 THEN 0 ELSE (2 * Parity(config, e) - 1) * e.val * Sign(e)
EdgeTerms(config, es) == [k \in 1 .. Len(es) |-> EdgeTerm(config, es[k])]
LineTerms(f, n, ns, config) ==
    [j \in 1 .. n |-> IF j \in First(f, n) /\ Len(f[j].sites) # 0
                      THEN LineTerm(ns, config, f[j]) ELSE 0]

(* The edges have the energy of the lines, for spins for these sites or more. *)
SameEnergy(f, n, ns, es) ==
    \A m \in Nat : Len(ns) <= m =>
        \A config \in [1 .. m -> {0, 1}] :
            Total(LineTerms(f, n, ns, config)) = Total(EdgeTerms(config, es))

LEMMA EdgeTermType ==
  ASSUME NEW m \in Nat, NEW config \in [1 .. m -> {0, 1}], NEW e \in EdgeType(m)
  PROVE  Parity(config, e) \in {0, 1} /\ Sign(e) \in Int /\ EdgeTerm(config, e) \in Int
<1> DEFINE f == [k \in DOMAIN e.sites |-> config[e.sites[k]]]
<1>1. e.sites \in Seq(1 .. m) /\ e.val \in Int
  BY DEF EdgeType
<1>2. Len(e.sites) \in Nat /\ f \in [1 .. Len(e.sites) -> {0, 1}]
  BY <1>1
<1>3. Total(f) \in Int
  <2> HIDE DEF f
  <2> QED
    BY <1>2, TotalBits
<1>4. Parity(config, e) \in {0, 1}
  <2>1. Parity(config, e) = Total(f) % 2
    BY DEF Parity
  <2> HIDE DEF f
  <2> QED
    BY <1>3, <2>1, Mod2
<1>5. Sign(e) \in Int
  BY <1>2, Mod2 DEF Sign
<1> QED
  BY <1>1, <1>4, <1>5 DEF EdgeTerm

LEMMA LineTermType ==
  ASSUME NEW ns \in Seq(Names), Injective(ns), NEW m \in Nat, Len(ns) <= m,
         NEW config \in [1 .. m -> {0, 1}], NEW line, line.val \in Int,
         line.sites \in Seq(Names), \A k \in 1 .. Len(line.sites) : line.sites[k] \in Range(ns)
  PROVE  /\ Bits(ns, config, line.sites) \in [1 .. Len(line.sites) -> {0, 1}]
         /\ LineTerm(ns, config, line) \in Int
<1> DEFINE f == Bits(ns, config, line.sites)
           l == Len(line.sites)
<1>1. l \in Nat /\ DOMAIN line.sites = 1 .. l
  OBVIOUS
<1>2. ASSUME NEW k \in 1 .. l
      PROVE  config[Number(ns, line.sites[k])] \in {0, 1}
  <2>1. Number(ns, line.sites[k]) \in 1 .. Len(ns)
    BY NumberIs
  <2>2. Number(ns, line.sites[k]) \in 1 .. m
    BY <2>1
  <2> QED
    BY <2>2
<1>3. f \in [1 .. l -> {0, 1}]
  BY <1>1, <1>2 DEF Bits
<1>4. Total(f) \in Int
  <2> HIDE DEF f, l
  <2> QED
    BY <1>1, <1>3, TotalBits
<1>5. Total(f) % 2 \in {0, 1} /\ l % 2 \in {0, 1}
  <2> HIDE DEF f, l
  <2> QED
    BY <1>1, <1>4, Mod2
<1>6. LineTerm(ns, config, line) = line.val * (2 * (Total(f) % 2) - 1) * (2 * (l % 2) - 1)
  BY DEF LineTerm
<1> HIDE DEF f, l
<1>7. LineTerm(ns, config, line) \in Int
  BY <1>5, <1>6
<1> QED
  BY <1>3, <1>7 DEF f, l

(* An edge has the energy of the line it comes from. *)
LEMMA NewTerm ==
  ASSUME NEW r \in Seq(Names), Injective(r), NEW m \in Nat, Len(r) <= m,
         NEW config \in [1 .. m -> {0, 1}], NEW line, line.val \in Int,
         line.sites \in Seq(Names), \A k \in 1 .. Len(line.sites) : line.sites[k] \in Range(r),
         NEW e, e = [sites |-> Sites(r, line.sites), val |-> line.val]
  PROVE  EdgeTerm(config, e)
            = IF Len(line.sites) # 0 THEN LineTerm(r, config, line) ELSE 0
<1> DEFINE d == Sites(r, line.sites)
           l == Len(line.sites)
           f == Bits(r, config, line.sites)
           g == [k \in DOMAIN d |-> config[d[k]]]
<1>1. e.sites = d /\ e.val = line.val
  OBVIOUS
<1>2. d \in Seq(1 .. Len(r)) /\ Len(d) = l /\ l \in Nat
  BY SitesProps
<1>3. PICK p \in Bijection(1 .. l, 1 .. l) :
        \A k \in 1 .. l : d[k] = Number(r, line.sites[p[k]])
  BY SitesProps
<1>4. f \in [1 .. l -> {0, 1}]
  BY LineTermType
<1>5. \A k \in 1 .. l : p[k] \in 1 .. l
  BY <1>3 DEF Bijection, Injection, Surjection
<1>6. \A k \in 1 .. l : config[d[k]] = f[p[k]]
  BY <1>3, <1>5 DEF Bits
<1>7. DOMAIN d = 1 .. l
  BY <1>2
<1> HIDE DEF d, l, f
<1>8. g \in [1 .. l -> {0, 1}] /\ \A k \in 1 .. l : g[k] = f[p[k]]
  BY <1>4, <1>5, <1>6, <1>7
<1>9. Parity(config, e) = Total(g) % 2
  BY <1>1 DEF Parity
<1> HIDE DEF g
<1>10. Total(g) = Total(f)
  BY <1>2, <1>3, <1>4, <1>8, TotalPermuted
<1>11. Total(f) \in Int
  BY <1>2, <1>4, TotalBits
<1>12. Total(f) % 2 \in {0, 1} /\ l % 2 \in {0, 1}
  BY <1>2, <1>11, Mod2
<1>13. Sign(e) = 2 * (l % 2) - 1
  BY <1>1, <1>2 DEF Sign
<1>14. LineTerm(r, config, line) = line.val * (2 * (Total(f) % 2) - 1) * (2 * (l % 2) - 1)
  BY DEF LineTerm, f, l
<1>15. EdgeTerm(config, e)
         = IF l = 0 THEN 0 ELSE (2 * (Total(f) % 2) - 1) * line.val * (2 * (l % 2) - 1)
  BY <1>1, <1>2, <1>9, <1>10, <1>13 DEF EdgeTerm
<1>16. (2 * (Total(f) % 2) - 1) * line.val * (2 * (l % 2) - 1)
         = line.val * (2 * (Total(f) % 2) - 1) * (2 * (l % 2) - 1)
  BY <1>12
<1> QED
  BY <1>14, <1>15, <1>16 DEF l

(* The lines read before keep their energy when more sites are numbered. *)
LEMMA LineTermsTyped ==
  ASSUME NEW f, NEW n, NEW ns, NEW es, LoadedTypes(f, n, ns, es),
         NEW r \in Seq(Names), Injective(r), Extends(r, ns),
         NEW m \in Nat, Len(r) <= m, NEW config \in [1 .. m -> {0, 1}]
  PROVE  /\ LineTerms(f, n, ns, config) \in [1 .. n -> Int]
         /\ LineTerms(f, n, r, config) = LineTerms(f, n, ns, config)
<1>1. /\ f \in Seq(LineType) /\ n \in Nat /\ n <= Len(f)
      /\ ns \in Seq(Names) /\ Injective(ns) /\ Len(ns) <= m
  BY DEF LoadedTypes, Extends
<1>2. ASSUME NEW j \in First(f, n)
      PROVE  /\ LineTerm(ns, config, f[j]) \in Int
             /\ LineTerm(r, config, f[j]) = LineTerm(ns, config, f[j])
  <2>1. j \in 1 .. n /\ EdgeLine(f, j)
    BY DEF First, IsFirst
  <2>2. \A k \in 1 .. Len(f[j].sites) : f[j].sites[k] \in Range(ns)
    BY <2>1 DEF LoadedTypes
  <2>3. f[j].sites \in Seq(Names) /\ f[j].val \in Int
    BY <1>1, <2>1, LineIsTyped DEF EdgeLine
  <2>4. \A k \in 1 .. Len(f[j].sites) : Number(r, f[j].sites[k]) = Number(ns, f[j].sites[k])
    BY <1>1, <2>2, NumberStays
  <2>5. DOMAIN f[j].sites = 1 .. Len(f[j].sites)
    BY <2>3
  <2>6. Bits(r, config, f[j].sites) = Bits(ns, config, f[j].sites)
    BY <2>4, <2>5 DEF Bits
  <2>7. LineTerm(r, config, f[j]) = LineTerm(ns, config, f[j])
    BY <2>6 DEF LineTerm
  <2>8. LineTerm(ns, config, f[j]) \in Int
    BY <1>1, <2>2, <2>3, LineTermType
  <2> QED
    BY <2>7, <2>8
<1> QED
  BY <1>2 DEF LineTerms

LEMMA MoreEnergy ==
  ASSUME NEW f, NEW n, NEW ns, NEW es, LoadedTypes(f, n, ns, es), EdgesInOrder(es),
         Meaning(f, n, ns, es), SameEnergy(f, n, ns, es),
         n + 1 <= Len(f), EdgeLine(f, n + 1),
         NEW r, r = Indexed(ns, f[n + 1].sites)
  PROVE  SameEnergy(f, n + 1, r, MoreEdges(f, n, ns, es))
<1> DEFINE es2 == MoreEdges(f, n, ns, es)
           new == NewEdge(f, n, ns)
           line == f[n + 1]
<1>1. /\ line.sites \in Seq(Names) /\ line.val \in Int /\ n \in Nat /\ n + 1 \in 1 .. Len(f)
      /\ r \in Seq(Names) /\ Injective(r) /\ Extends(r, ns)
      /\ \A k \in 1 .. Len(line.sites) : line.sites[k] \in Range(r)
      /\ es \in Seq(EdgeType(Len(r))) /\ new \in EdgeType(Len(r))
      /\ LineSites(f, n, ns) = Sites(r, line.sites)
  BY ReadFacts
<1>2. new = [sites |-> Sites(r, line.sites), val |-> line.val]
  BY <1>1 DEF NewEdge
<1>3. Found(f, n, ns, es) <=> Repeated(f, n)
  BY FoundIffRepeated
<1> SUFFICES ASSUME NEW m \in Nat, Len(r) <= m, NEW config \in [1 .. m -> {0, 1}]
             PROVE  Total(LineTerms(f, n + 1, r, config)) = Total(EdgeTerms(config, es2))
  BY DEF SameEnergy
<1> DEFINE old == LineTerms(f, n, ns, config)
           all == LineTerms(f, n + 1, r, config)
           t == EdgeTerms(config, es)
           t2 == EdgeTerms(config, es2)
<1>4. old \in [1 .. n -> Int] /\ LineTerms(f, n, r, config) = old
  BY <1>1, LineTermsTyped
<1>5. Total(old) = Total(t)
  <2>1. Len(ns) <= m
    BY <1>1 DEF Extends, LoadedTypes
  <2> QED
    BY <2>1 DEF SameEnergy
<1>6. \A k \in 1 .. n : k \in 1 .. (n + 1) /\ k # n + 1
  BY <1>1
<1>7. DOMAIN all = 1 .. (n + 1) /\ \A k \in 1 .. n : all[k] = old[k]
  <2>1. \A k \in 1 .. n : k \in First(f, n + 1) <=> k \in First(f, n)
    BY <1>6 DEF First
  <2> QED
    BY <1>4, <1>6, <2>1 DEF LineTerms
<1>8. all[n + 1] = IF n + 1 \in First(f, n + 1) /\ Len(line.sites) # 0
                   THEN LineTerm(r, config, line) ELSE 0
  BY <1>1 DEF LineTerms
<1>9. n + 1 \in First(f, n + 1) <=> ~ Repeated(f, n)
  <2>1. n + 1 \notin First(f, n)
    BY <1>6 DEF First
  <2> QED
    BY <1>1, <2>1, FirstGrows
<1>10. LineTerm(r, config, line) \in Int
  BY <1>1, LineTermType
<1>11. EdgeTerm(config, new) = IF Len(line.sites) # 0 THEN LineTerm(r, config, line) ELSE 0
  <2> HIDE DEF new, line
  <2> QED
    BY <1>1, <1>2, NewTerm
<1>12. all \in Seq(Int) /\ Len(all) = n + 1 /\ old \in Seq(Int) /\ Len(old) = n
       /\ DOMAIN all = 1 .. (n + 1)
  <2>1. all[n + 1] \in Int
    BY <1>8, <1>10
  <2>2. \A k \in 1 .. (n + 1) : k \in 1 .. n \/ k = n + 1
    BY <1>1
  <2>3. \A k \in 1 .. (n + 1) : all[k] \in Int
    BY <1>4, <1>7, <2>1, <2>2
  <2>4. all = [k \in 1 .. (n + 1) |-> all[k]]
    BY <1>7 DEF LineTerms
  <2> HIDE DEF all, old
  <2>5. all \in [1 .. (n + 1) -> Int]
    BY <2>3, <2>4
  <2>6. n + 1 \in Nat
    BY <1>1
  <2> QED
    BY <1>1, <1>4, <1>7, <2>5, <2>6, FiniteSeq
<1>13. Total(all) = Total(old) + all[n + 1]
  <2> HIDE DEF all, old
  <2> QED
    BY <1>7, <1>12, TotalOneMore
<1>14. t \in Seq(Int) /\ Len(t) = Len(es) /\ Len(es) \in Nat
  <2>1. Len(es) \in Nat /\ \A k \in 1 .. Len(es) : es[k] \in EdgeType(m)
    <3>1. Len(r) \in Nat
      BY <1>1
    <3>2. EdgeType(Len(r)) \subseteq EdgeType(m)
      BY <3>1 DEF EdgeType
    <3> QED
      BY <1>1, <3>2
  <2>2. \A k \in 1 .. Len(es) : EdgeTerm(config, es[k]) \in Int
    BY <2>1, EdgeTermType
  <2>3. t \in [1 .. Len(es) -> Int]
    BY <2>2 DEF EdgeTerms
  <2> HIDE DEF t
  <2> QED
    BY <2>1, <2>3, FiniteSeq
<1>15. CASE Repeated(f, n)
  <2>1. es2 = es
    BY <1>3, <1>15 DEF MoreEdges
  <2>2. all[n + 1] = 0
    BY <1>8, <1>9, <1>15
  <2>3. Total(old) \in Int
    <3> HIDE DEF old
    <3> QED
      BY <1>12, TotalType
  <2>4. Total(all) = Total(old)
    <3> HIDE DEF all, old
    <3> QED
      BY <1>13, <2>2, <2>3
  <2> QED
    BY <1>5, <2>1, <2>4
<1>16. CASE ~ Repeated(f, n)
  <2>1. es2 = Append(es, new)
    BY <1>3, <1>16 DEF MoreEdges
  <2> HIDE DEF es2, new
  <2>2. /\ Len(es2) = Len(es) + 1 /\ es2[Len(es) + 1] = new
        /\ \A k \in 1 .. Len(es) : es2[k] = es[k] /\ k \in 1 .. (Len(es) + 1)
        /\ \A k \in 1 .. (Len(es) + 1) : k \in 1 .. Len(es) \/ k = Len(es) + 1
        /\ Len(es) + 1 \in 1 .. (Len(es) + 1)
    BY <1>1, <2>1, AppendProps
  <2>3. all[n + 1] = EdgeTerm(config, new)
    BY <1>8, <1>9, <1>11, <1>16
  <2>4. all[n + 1] \in Int
    BY <1>8, <1>10
  <2>5. /\ \A k \in 1 .. Len(es) : t2[k] = t[k]
        /\ t2[Len(es) + 1] = all[n + 1]
    BY <2>2, <2>3 DEF EdgeTerms
  <2>6. t2 \in [1 .. (Len(es) + 1) -> Int]
    <3>1. t2 = [k \in 1 .. (Len(es) + 1) |-> t2[k]]
      BY <2>2 DEF EdgeTerms
    <3>2. \A k \in 1 .. Len(es) : t[k] \in Int
      BY <1>14
    <3> HIDE DEF t2, t, all
    <3>3. \A k \in 1 .. (Len(es) + 1) : t2[k] \in Int
      BY <2>2, <2>4, <2>5, <3>2
    <3> QED
      BY <3>1, <3>3
  <2>7. t2 \in Seq(Int) /\ Len(t2) = Len(es) + 1
    <3> HIDE DEF t2
    <3>1. Len(es) + 1 \in Nat
      BY <1>14
    <3> QED
      BY <2>6, <3>1, FiniteSeq
  <2>8. Total(t2) = Total(t) + all[n + 1]
    <3> HIDE DEF t2, t, all
    <3> QED
      BY <1>14, <2>5, <2>7, TotalOneMore
  <2> QED
    BY <1>5, <1>13, <2>8
<1> QED
  BY <1>15, <1>16

(* All that holds of the index and the edges after n lines. *)
Loaded(f, n, ns, es) ==
    /\ LoadedTypes(f, n, ns, es)
    /\ EdgesInOrder(es)
    /\ SitesCovered(ns, es)
    /\ ComeFromLines(f, n, es)
    /\ Meaning(f, n, ns, es)
    /\ SameEnergy(f, n, ns, es)

LEMMA NothingLoaded ==
  ASSUME NEW f \in Seq(LineType)
  PROVE  Loaded(f, 0, <<>>, <<>>)
<1> DEFINE o == <<>>
<1>1. /\ o \in Seq(Names) /\ Injective(o) /\ o \in Seq(EdgeType(0)) /\ Len(o) = 0
      /\ 0 \in 0 .. Len(f)
  BY DEF Injective
<1>2. LoadedTypes(f, 0, o, o)
  BY <1>1 DEF LoadedTypes
<1>3. EdgesInOrder(o) /\ SitesCovered(o, o) /\ ComeFromLines(f, 0, o)
  BY <1>1 DEF EdgesInOrder, SitesCovered, ComeFromLines
<1>4. First(f, 0) = {}
  BY DEF First
<1>5. MeantBy(f, 0) = {} /\ IsFiniteSet(MeantBy(f, 0)) /\ Cardinality(MeantBy(f, 0)) = 0
  BY <1>4, FS_EmptySet DEF MeantBy
<1>6. Meaning(f, 0, o, o)
  BY <1>1, <1>5 DEF Meaning
<1>7. SameEnergy(f, 0, o, o)
  <2> SUFFICES ASSUME NEW m \in Nat, NEW config \in [1 .. m -> {0, 1}]
               PROVE  Total(LineTerms(f, 0, o, config)) = Total(EdgeTerms(config, o))
    BY DEF SameEnergy
  <2>1. LineTerms(f, 0, o, config) = <<>> /\ EdgeTerms(config, o) = <<>>
    BY <1>1 DEF LineTerms, EdgeTerms
  <2> QED
    BY <2>1
<1> QED
  BY <1>2, <1>3, <1>6, <1>7 DEF Loaded

LEMMA OneMoreLine ==
  ASSUME NEW f, NEW n, NEW ns, NEW es, Loaded(f, n, ns, es),
         n + 1 <= Len(f), EdgeLine(f, n + 1),
         NEW r, r = Indexed(ns, f[n + 1].sites)
  PROVE  Loaded(f, n + 1, r, MoreEdges(f, n, ns, es))
<1>1. /\ LoadedTypes(f, n, ns, es) /\ EdgesInOrder(es) /\ SitesCovered(ns, es)
      /\ ComeFromLines(f, n, es) /\ Meaning(f, n, ns, es) /\ SameEnergy(f, n, ns, es)
  BY DEF Loaded
<1>2. LoadedTypes(f, n + 1, r, MoreEdges(f, n, ns, es))
  BY <1>1, MoreTypes
<1>3. EdgesInOrder(MoreEdges(f, n, ns, es))
  BY <1>1, MoreInOrder
<1>4. SitesCovered(r, MoreEdges(f, n, ns, es))
  BY <1>1, MoreCovered
<1>5. ComeFromLines(f, n + 1, MoreEdges(f, n, ns, es))
  BY <1>1, MoreFromLines
<1>6. Meaning(f, n + 1, r, MoreEdges(f, n, ns, es))
  BY <1>1, MoreMeaning
<1>7. SameEnergy(f, n + 1, r, MoreEdges(f, n, ns, es))
  BY <1>1, MoreEnergy
<1> QED
  BY <1>2, <1>3, <1>4, <1>5, <1>6, <1>7 DEF Loaded

(* A line that is no edge changes nothing. *)
LEMMA OtherLine ==
  ASSUME NEW f, NEW n, NEW ns, NEW es, Loaded(f, n, ns, es),
         n + 1 <= Len(f), ~ EdgeLine(f, n + 1)
  PROVE  Loaded(f, n + 1, ns, es)
<1>1. /\ LoadedTypes(f, n, ns, es) /\ EdgesInOrder(es) /\ SitesCovered(ns, es)
      /\ ComeFromLines(f, n, es) /\ Meaning(f, n, ns, es) /\ SameEnergy(f, n, ns, es)
  BY DEF Loaded
<1>2. /\ n \in Nat /\ n + 1 \in 0 .. Len(f) /\ ns \in Seq(Names) /\ Injective(ns)
      /\ \A j \in 1 .. n : j \in 1 .. (n + 1)
      /\ \A j \in 1 .. (n + 1) : j \in 1 .. n \/ j = n + 1
      /\ n + 1 \notin 1 .. n
  BY <1>1 DEF LoadedTypes
<1>3. First(f, n + 1) = First(f, n)
  BY <1>2, FirstGrows
<1>4. LoadedTypes(f, n + 1, ns, es)
  BY <1>1, <1>2 DEF LoadedTypes
<1>5. ComeFromLines(f, n + 1, es)
  BY <1>1, <1>2 DEF ComeFromLines
<1>6. Meaning(f, n + 1, ns, es)
  BY <1>1, <1>3 DEF Meaning, MeantBy
<1>7. SameEnergy(f, n + 1, ns, es)
  <2> SUFFICES ASSUME NEW m \in Nat, Len(ns) <= m, NEW config \in [1 .. m -> {0, 1}]
               PROVE  Total(LineTerms(f, n + 1, ns, config)) = Total(EdgeTerms(config, es))
    BY DEF SameEnergy
  <2> DEFINE old == LineTerms(f, n, ns, config)
             all == LineTerms(f, n + 1, ns, config)
  <2>1. Extends(ns, ns)
    BY <1>2 DEF Extends
  <2>2. old \in [1 .. n -> Int]
    BY <1>1, <1>2, <2>1, LineTermsTyped
  <2>3. Total(old) = Total(EdgeTerms(config, es))
    BY <1>1 DEF SameEnergy
  <2>4. n + 1 \notin First(f, n)
    BY <1>2 DEF First
  <2>5. all[n + 1] = 0 /\ \A k \in 1 .. n : all[k] = old[k]
    BY <1>2, <1>3, <2>4 DEF LineTerms
  <2>6. all = [k \in 1 .. (n + 1) |-> all[k]]
    BY DEF LineTerms
  <2> HIDE DEF all, old
  <2>7. all \in [1 .. (n + 1) -> Int]
    <3>1. \A k \in 1 .. (n + 1) : all[k] \in Int
      BY <1>2, <2>2, <2>5
    <3> QED
      BY <2>6, <3>1
  <2>8. all \in Seq(Int) /\ Len(all) = n + 1 /\ old \in Seq(Int) /\ Len(old) = n
    <3>1. n + 1 \in Nat
      BY <1>2
    <3> QED
      BY <1>2, <2>2, <2>7, <3>1, FiniteSeq
  <2>9. Total(all) = Total(old) + 0
    BY <2>5, <2>8, TotalOneMore
  <2>10. Total(old) \in Int
    BY <2>8, TotalType
  <2> QED
    BY <2>3, <2>9, <2>10 DEF all, old
<1> QED
  BY <1>1, <1>4, <1>5, <1>6, <1>7 DEF Loaded

(***************************************************************************)
(* The adjacency lists, and the two functions that read them.              *)
(***************************************************************************)

(* The lists of n sites hold the first m edges, each once at each of its sites;
   a sum over the list of a site is the sum over the edges that have the site. *)
Weights(list, w) == [k \in 1 .. Len(list) |-> w[list[k]]]
AtSite(es, m, a, w) ==
    [k \in 1 .. m |-> IF a \in Range(es[k].sites) THEN w[es[k]] ELSE 0]
ListsSite(list, es, m, a, n) ==
    /\ list \in Seq(EdgeType(n))
    /\ Injective(list)
    /\ \A v : v \in Range(list) <=> \E k \in 1 .. m : es[k] = v /\ a \in Range(es[k].sites)
    /\ \A w \in [EdgeType(n) -> Int] : Total(Weights(list, w)) = Total(AtSite(es, m, a, w))
Lists(lists, es, m, n) ==
    /\ lists \in [1 .. n -> Seq(EdgeType(n))]
    /\ \A a \in 1 .. n : ListsSite(lists[a], es, m, a, n)

LEMMA InRange ==
  ASSUME NEW S, NEW q \in Seq(S), NEW v
  PROVE  v \in Range(q) <=> \E k \in 1 .. Len(q) : q[k] = v
BY DEF Range

LEMMA AtSiteTyped ==
  ASSUME NEW n \in Nat, NEW es \in Seq(EdgeType(n)), NEW m \in Nat, m <= Len(es),
         NEW a \in 1 .. n, NEW w \in [EdgeType(n) -> Int]
  PROVE  AtSite(es, m, a, w) \in Seq(Int) /\ Len(AtSite(es, m, a, w)) = m
<1>1. \A k \in 1 .. m : es[k] \in EdgeType(n)
  <2>1. \A k \in 1 .. m : k \in 1 .. Len(es)
    OBVIOUS
  <2> QED
    BY <2>1
<1>2. AtSite(es, m, a, w) \in [1 .. m -> Int]
  BY <1>1 DEF AtSite
<1> QED
  BY <1>2, FiniteSeq

LEMMA WeightsTyped ==
  ASSUME NEW S, NEW w \in [S -> Int], NEW list \in Seq(S)
  PROVE  Weights(list, w) \in Seq(Int) /\ Len(Weights(list, w)) = Len(list)
<1>1. \A k \in 1 .. Len(list) : list[k] \in S
  OBVIOUS
<1>2. Weights(list, w) \in [1 .. Len(list) -> Int] /\ Len(list) \in Nat
  BY <1>1 DEF Weights
<1> QED
  BY <1>2, FiniteSeq

LEMMA ListOneMore ==
  ASSUME NEW n \in Nat, NEW es \in Seq(EdgeType(n)), EdgesInOrder(es),
         NEW m \in Nat, m + 1 <= Len(es), NEW a \in 1 .. n,
         NEW list, ListsSite(list, es, m, a, n), NEW list2,
         list2 = IF a \in Range(es[m + 1].sites) THEN Append(list, es[m + 1]) ELSE list
  PROVE  ListsSite(list2, es, m + 1, a, n)
<1> DEFINE e == es[m + 1]
<1>1. /\ list \in Seq(EdgeType(n)) /\ Injective(list) /\ e \in EdgeType(n)
      /\ \A v : v \in Range(list) <=> \E k \in 1 .. m : es[k] = v /\ a \in Range(es[k].sites)
      /\ m + 1 \in 1 .. Len(es)
      /\ \A k \in 1 .. (m + 1) : k \in 1 .. m \/ k = m + 1
      /\ \A k \in 1 .. m : k \in 1 .. (m + 1) /\ k # m + 1 /\ k \in 1 .. Len(es)
      /\ m + 1 \in 1 .. (m + 1)
  BY DEF ListsSite
<1>2. ASSUME NEW w \in [EdgeType(n) -> Int]
      PROVE  /\ AtSite(es, m, a, w) \in Seq(Int) /\ AtSite(es, m + 1, a, w) \in Seq(Int)
             /\ Total(AtSite(es, m, a, w)) \in Int
             /\ Total(AtSite(es, m + 1, a, w))
                  = Total(AtSite(es, m, a, w))
                      + (IF a \in Range(e.sites) THEN w[e] ELSE 0)
  <2> DEFINE f == AtSite(es, m, a, w)
             h == AtSite(es, m + 1, a, w)
  <2>1. f \in Seq(Int) /\ Len(f) = m /\ h \in Seq(Int) /\ Len(h) = m + 1
    <3>1. m <= Len(es) /\ m + 1 \in Nat
      BY <1>1
    <3>2. f \in Seq(Int) /\ Len(f) = m
      BY <3>1, AtSiteTyped
    <3>3. h \in Seq(Int) /\ Len(h) = m + 1
      BY <3>1, AtSiteTyped
    <3> QED
      BY <3>2, <3>3
  <2>2. \A k \in 1 .. m : h[k] = f[k]
    BY <1>1 DEF AtSite
  <2>3. h[m + 1] = IF a \in Range(e.sites) THEN w[e] ELSE 0
    BY <1>1 DEF AtSite
  <2> HIDE DEF f, h
  <2>4. Total(h) = Total(f) + h[m + 1]
    BY <2>1, <2>2, TotalOneMore
  <2>5. Total(f) \in Int
    BY <2>1, TotalType
  <2> QED
    BY <2>1, <2>3, <2>4, <2>5 DEF f, h
<1>3. CASE a \notin Range(e.sites)
  <2>1. list2 = list
    BY <1>3
  <2>2. \A v : v \in Range(list2) <=>
               \E k \in 1 .. (m + 1) : es[k] = v /\ a \in Range(es[k].sites)
    BY <1>1, <1>3, <2>1
  <2>3. ASSUME NEW w \in [EdgeType(n) -> Int]
        PROVE  Total(Weights(list2, w)) = Total(AtSite(es, m + 1, a, w))
    <3>1. Total(Weights(list, w)) = Total(AtSite(es, m, a, w))
      BY DEF ListsSite
    <3>2. Total(AtSite(es, m + 1, a, w)) = Total(AtSite(es, m, a, w))
      BY <1>2, <1>3
    <3> QED
      BY <2>1, <3>1, <3>2
  <2> QED
    BY <1>1, <2>1, <2>2, <2>3 DEF ListsSite
<1>4. CASE a \in Range(e.sites)
  <2>1. list2 = Append(list, e)
    BY <1>4
  <2>2. e \notin Range(list)
    <3> SUFFICES ASSUME NEW k \in 1 .. m, es[k] = e
                 PROVE  FALSE
      BY <1>1
    <3>1. es[k].sites = es[m + 1].sites
      OBVIOUS
    <3> HIDE DEF e
    <3>2. \A j1, k1 \in 1 .. Len(es) : es[j1].sites = es[k1].sites => j1 = k1
      BY DEF EdgesInOrder
    <3> QED
      BY <1>1, <3>1, <3>2
  <2> HIDE DEF e
  <2>3. /\ list2 \in Seq(EdgeType(n)) /\ Len(list2) = Len(list) + 1 /\ Len(list) \in Nat
        /\ list2[Len(list) + 1] = e /\ \A k \in 1 .. Len(list) : list2[k] = list[k]
        /\ \A k \in 1 .. (Len(list) + 1) : k \in 1 .. Len(list) \/ k = Len(list) + 1
        /\ \A k \in 1 .. Len(list) : k \in 1 .. (Len(list) + 1)
        /\ Len(list) + 1 \in 1 .. (Len(list) + 1)
    BY <1>1, <2>1, AppendProps
  <2>4. \A k \in 1 .. Len(list) : list[k] # e
    BY <1>1, <2>2, InRange
  <2>5. Injective(list2)
    BY <1>1, <2>3, <2>4 DEF Injective
  <2>6. \A v : v \in Range(list2) <=> v \in Range(list) \/ v = e
    <3> SUFFICES ASSUME NEW v
                 PROVE  v \in Range(list2) <=> v \in Range(list) \/ v = e
      OBVIOUS
    <3>1. v \in Range(list2) <=> \E k \in 1 .. (Len(list) + 1) : list2[k] = v
      <4>1. v \in Range(list2) <=> \E k \in 1 .. Len(list2) : list2[k] = v
        <5>1. list2 \in Seq(EdgeType(n))
          BY <2>3
        <5> HIDE DEF e
        <5> QED
          BY ONLY <5>1, InRange
      <4> QED
        BY <2>3, <4>1
    <3>2. v \in Range(list) <=> \E k \in 1 .. Len(list) : list[k] = v
      BY <1>1, InRange
    <3> QED
      BY <2>3, <3>1, <3>2
  <2>7. \A v : v \in Range(list2) <=>
               \E k \in 1 .. (m + 1) : es[k] = v /\ a \in Range(es[k].sites)
    <3> SUFFICES ASSUME NEW v
                 PROVE  v \in Range(list2) <=>
                            \E k \in 1 .. (m + 1) : es[k] = v /\ a \in Range(es[k].sites)
      OBVIOUS
    <3>1. es[m + 1] = e
      BY DEF e
    <3>2. ASSUME v \in Range(list2)
          PROVE  \E k \in 1 .. (m + 1) : es[k] = v /\ a \in Range(es[k].sites)
      <4>1. CASE v \in Range(list)
        BY <1>1, <4>1
      <4>2. CASE v = e
        BY <1>1, <1>4, <3>1, <4>2
      <4> QED
        BY <2>6, <3>2, <4>1, <4>2
    <3>3. ASSUME NEW k \in 1 .. (m + 1), es[k] = v, a \in Range(es[k].sites)
          PROVE  v \in Range(list2)
      <4>1. CASE k \in 1 .. m
        BY <1>1, <2>6, <3>3, <4>1
      <4>2. CASE k = m + 1
        BY <2>6, <3>1, <3>3, <4>2
      <4> QED
        BY <1>1, <4>1, <4>2
    <3> QED
      BY <3>2, <3>3
  <2>8. ASSUME NEW w \in [EdgeType(n) -> Int]
        PROVE  Total(Weights(list2, w)) = Total(AtSite(es, m + 1, a, w))
    <3>1. Total(Weights(list, w)) = Total(AtSite(es, m, a, w))
      BY DEF ListsSite
    <3>2. Total(AtSite(es, m + 1, a, w)) = Total(AtSite(es, m, a, w)) + w[e]
      BY <1>2, <1>4 DEF e
    <3> DEFINE f == Weights(list, w)
               h == Weights(list2, w)
    <3>3. f \in Seq(Int) /\ Len(f) = Len(list) /\ h \in Seq(Int) /\ Len(h) = Len(list) + 1
      <4>1. f \in Seq(Int) /\ Len(f) = Len(list)
        BY <1>1, WeightsTyped
      <4>2. h \in Seq(Int) /\ Len(h) = Len(list2)
        BY <2>3, WeightsTyped
      <4> QED
        BY <2>3, <4>1, <4>2
    <3>4. h[Len(list) + 1] = w[e] /\ \A k \in 1 .. Len(list) : h[k] = f[k]
      BY <2>3 DEF Weights
    <3> HIDE DEF f, h
    <3>5. Total(h) = Total(f) + w[e]
      BY <3>3, <3>4, TotalOneMore
    <3> QED
      BY <3>1, <3>2, <3>5 DEF f, h
  <2> QED
    BY <2>3, <2>5, <2>7, <2>8 DEF ListsSite
<1> QED
  BY <1>3, <1>4

LEMMA AddEdgeType ==
  ASSUME NEW n \in Nat, NEW lists \in [1 .. n -> Seq(EdgeType(n))], NEW e \in EdgeType(n)
  PROVE  AddEdge(lists, e) \in [1 .. n -> Seq(EdgeType(n))]
<1>1. \A a \in 1 .. n : Append(lists[a], e) \in Seq(EdgeType(n))
  OBVIOUS
<1> QED
  BY <1>1 DEF AddEdge

LEMMA ListsOneMore ==
  ASSUME NEW n \in Nat, NEW es \in Seq(EdgeType(n)), EdgesInOrder(es),
         NEW m \in Nat, m + 1 <= Len(es), NEW lists, Lists(lists, es, m, n)
  PROVE  Lists(AddEdge(lists, es[m + 1]), es, m + 1, n)
<1> DEFINE e == es[m + 1]
           more == AddEdge(lists, e)
<1>1. DOMAIN lists = 1 .. n /\ \A a \in 1 .. n : ListsSite(lists[a], es, m, a, n)
  BY DEF Lists
<1>2. \A k \in 1 .. m : k \in 1 .. Len(es) /\ k # m + 1
  OBVIOUS
<1>3. m + 1 \in 1 .. Len(es)
  OBVIOUS
<1>4. ASSUME NEW a \in 1 .. n
      PROVE  ListsSite(more[a], es, m + 1, a, n)
  <2>1. \A v \in Range(lists[a]) : v.sites # e.sites
    <3> SUFFICES ASSUME NEW v \in Range(lists[a]), v.sites = e.sites
                 PROVE  FALSE
      OBVIOUS
    <3>1. PICK k \in 1 .. m : es[k] = v
      BY <1>1 DEF ListsSite
    <3>2. es[k].sites = e.sites
      BY <3>1
    <3> QED
      BY <1>2, <1>3, <3>2 DEF EdgesInOrder
  <2>2. more[a] = IF a \in Range(e.sites) THEN Append(lists[a], e) ELSE lists[a]
    BY <1>1, <2>1 DEF AddEdge
  <2>3. ListsSite(lists[a], es, m, a, n)
    BY <1>1
  <2> HIDE DEF more
  <2> QED
    BY <2>2, <2>3, ListOneMore
<1>5. more \in [1 .. n -> Seq(EdgeType(n))]
  BY <1>3, AddEdgeType DEF Lists
<1> QED
  BY <1>4, <1>5 DEF Lists

(* The lists that Build makes. *)
LEMMA NodesProps ==
  ASSUME NEW n \in Nat, NEW es \in Seq(EdgeType(n)), EdgesInOrder(es)
  PROVE  Lists(NodesOf(es, n), es, Len(es), n)
<1> DEFINE m == Len(es)
           S == [1 .. n -> Seq(EdgeType(n))]
           none == [a \in 1 .. n |-> <<>>]
           step == [k \in 1 .. m |-> [v \in S |-> AddEdge(v, es[k])]]
           t == CHOOSE g : g = [k \in 0 .. m |-> IF k = 0 THEN none
                                                  ELSE AddEdge(g[k - 1], es[k])]
<1>1. NodesOf(es, n) = t[m]
  BY DEF NodesOf
<1>2. m \in Nat /\ none \in S /\ \A k \in 1 .. m : es[k] \in EdgeType(n)
  OBVIOUS
<1>3. \A k \in 1 .. m : \A v \in S : AddEdge(v, es[k]) \in S
  BY <1>2, AddEdgeType
<1>4. \A k \in 1 .. m : \A v \in S : step[k][v] = AddEdge(v, es[k])
  OBVIOUS
<1> HIDE DEF m, S, none, step
<1>5. Steps1(step, m, S)
  BY <1>3, <1>4 DEF Steps1
<1>6. PICK g \in [0 .. m -> S] : Runs(g, none, m, step)
  BY <1>2, <1>5, Recursion
<1>7. g[0] = none /\ \A k \in 1 .. m : g[k] = AddEdge(g[k - 1], es[k])
  <2>1. g[0] = none
    BY <1>6 DEF Runs
  <2>2. ASSUME NEW k \in 1 .. m
        PROVE  g[k] = AddEdge(g[k - 1], es[k])
    <3>1. g[k] = step[k][g[k - 1]]
      BY <1>6 DEF Runs
    <3>2. k - 1 \in 0 .. m
      BY <1>2
    <3>3. g[k - 1] \in S
      BY <3>2
    <3> QED
      BY <1>4, <3>1, <3>3
  <2> QED
    BY <2>1, <2>2
<1>8. g = [k \in 0 .. m |-> IF k = 0 THEN none ELSE AddEdge(g[k - 1], es[k])]
  <2>1. \A k \in 0 .. m : k = 0 \/ k \in 1 .. m
    BY <1>2
  <2>2. \A k \in 0 .. m : g[k] = IF k = 0 THEN none ELSE AddEdge(g[k - 1], es[k])
    BY <1>7, <2>1
  <2> QED
    BY <2>2
<1>9. t = [k \in 0 .. m |-> IF k = 0 THEN none ELSE AddEdge(t[k - 1], es[k])]
  BY <1>8
<1> HIDE DEF t
<1>10. t[0] = none /\ \A k \in 1 .. m : t[k] = AddEdge(t[k - 1], es[k])
  <2>1. 0 \in 0 .. m /\ \A k \in 1 .. m : k \in 0 .. m /\ k # 0
    BY <1>2
  <2> QED
    BY <1>9, <2>1
<1> DEFINE T == {k \in Nat : k <= m => Lists(t[k], es, k, n)}
<1>11. 0 \in T
  <2>1. none \in [1 .. n -> Seq(EdgeType(n))]
    BY DEF none
  <2>2. ASSUME NEW a \in 1 .. n
        PROVE  ListsSite(none[a], es, 0, a, n)
    <3> DEFINE o == none[a]
    <3>1. o = <<>>
      BY DEF none
    <3>2. o \in Seq(EdgeType(n)) /\ Len(o) = 0 /\ Injective(o)
      BY <3>1 DEF Injective
    <3>3. Range(o) = {}
      BY <3>1 DEF Range
    <3>4. ASSUME NEW w \in [EdgeType(n) -> Int]
          PROVE  Total(Weights(o, w)) = Total(AtSite(es, 0, a, w))
      <4>1. Weights(o, w) = <<>> /\ AtSite(es, 0, a, w) = <<>>
        BY <3>2 DEF Weights, AtSite
      <4> QED
        BY <4>1
    <3> HIDE DEF o
    <3>5. ListsSite(o, es, 0, a, n)
      BY <3>2, <3>3, <3>4 DEF ListsSite
    <3> QED
      BY <3>5 DEF o
  <2>3. Lists(none, es, 0, n)
    BY <2>1, <2>2 DEF Lists
  <2> QED
    BY <1>10, <2>3
<1>12. ASSUME NEW k \in Nat, k \in T
       PROVE  k + 1 \in T
  <2> SUFFICES ASSUME k + 1 <= m
               PROVE  Lists(t[k + 1], es, k + 1, n)
    OBVIOUS
  <2>1. k <= m /\ k + 1 \in 1 .. m /\ (k + 1) - 1 = k
    BY <1>2
  <2>2. Lists(t[k], es, k, n)
    BY <1>12, <2>1
  <2>3. t[k + 1] = AddEdge(t[k], es[k + 1])
    BY <1>10, <2>1
  <2>4. k + 1 <= Len(es)
    BY DEF m
  <2>5. Lists(AddEdge(t[k], es[k + 1]), es, k + 1, n)
    BY <2>2, <2>4, ListsOneMore
  <2> QED
    BY <2>3, <2>5
<1>13. Nat \subseteq T
  <2> HIDE DEF T
  <2> QED
    BY <1>11, <1>12, NatSet
<1>14. Lists(t[m], es, m, n)
  BY <1>2, <1>13
<1> QED
  BY <1>1, <1>14 DEF m

(* An edge is on the list of a site once or not at all. *)
LEMMA ListCounts ==
  ASSUME NEW n, NEW m, NEW es, NEW a, NEW list, ListsSite(list, es, m, a, n),
         NEW e, \E k \in 1 .. m : es[k] = e
  PROVE  Cardinality({k \in DOMAIN list : list[k] = e})
            = (IF a \in Range(e.sites) THEN 1 ELSE 0)
<1> DEFINE D == {k \in DOMAIN list : list[k] = e}
<1>1. /\ list \in Seq(EdgeType(n)) /\ Injective(list)
      /\ \A v : v \in Range(list) <=> \E k \in 1 .. m : es[k] = v /\ a \in Range(es[k].sites)
  BY DEF ListsSite
<1>2. DOMAIN list = 1 .. Len(list)
  BY <1>1
<1>3. CASE a \in Range(e.sites)
  <2>1. e \in Range(list)
    BY <1>1, <1>3
  <2>2. PICK j \in 1 .. Len(list) : list[j] = e
    BY <1>1, <2>1, InRange
  <2>3. D = {j}
    BY <1>1, <1>2, <2>2 DEF Injective
  <2> QED
    BY <1>3, <2>3, FS_Singleton
<1>4. CASE a \notin Range(e.sites)
  <2>1. e \notin Range(list)
    BY <1>1, <1>4
  <2>2. D = {}
    BY <1>1, <1>2, <2>1, InRange
  <2> QED
    BY <1>4, <2>2, FS_EmptySet
<1> QED
  BY <1>3, <1>4

LEMMA Shared ==
  ASSUME NEW u \in Nat, NEW l \in Nat \ {0}, u % l = 0
  PROVE  u \div l \in Int /\ l * (u \div l) = u
OBVIOUS

(* The sum of a table by rows is its sum by columns. *)
LEMMA RowsAndColumns ==
  ASSUME NEW n \in Nat, NEW m \in Nat, NEW c \in [1 .. n -> [1 .. m -> Int]]
  PROVE  Total([a \in 1 .. n |-> Total(c[a])])
            = Total([k \in 1 .. m |-> Total([a \in 1 .. n |-> c[a][k]])])
<1> DEFINE rows(j) == [a \in 1 .. j |-> Total(c[a])]
           column(j, k) == [a \in 1 .. j |-> c[a][k]]
           columns(j) == [k \in 1 .. m |-> Total(column(j, k))]
           Same(j) == Total(rows(j)) = Total(columns(j))
           T == {j \in Nat : j <= n => Same(j)}
<1>1. \A a \in 1 .. n : c[a] \in [1 .. m -> Int] /\ Total(c[a]) \in Int
  <2>1. \A a \in 1 .. n : c[a] \in Seq(Int)
    BY FiniteSeq
  <2> QED
    BY <2>1, TotalType
<1>2. ASSUME NEW j \in Nat, j <= n
      PROVE  /\ rows(j) \in Seq(Int) /\ Len(rows(j)) = j
             /\ \A k \in 1 .. m : column(j, k) \in Seq(Int) /\ Len(column(j, k)) = j
             /\ columns(j) \in [1 .. m -> Int]
  <2>1. \A a \in 1 .. j : a \in 1 .. n
    BY <1>2
  <2>2. rows(j) \in [1 .. j -> Int]
    BY <1>1, <2>1
  <2>3. \A k \in 1 .. m : column(j, k) \in [1 .. j -> Int]
    BY <2>1
  <2>4. ASSUME NEW k \in 1 .. m
        PROVE  column(j, k) \in Seq(Int) /\ Len(column(j, k)) = j
    <3>1. column(j, k) \in [1 .. j -> Int]
      BY <2>3
    <3> HIDE DEF column
    <3> QED
      BY <3>1, FiniteSeq
  <2>5. \A k \in 1 .. m : Total(column(j, k)) \in Int
    <3> HIDE DEF column
    <3> QED
      BY <2>4, TotalType
  <2>50. \A k \in 1 .. m : column(j, k) \in Seq(Int) /\ Len(column(j, k)) = j
    BY <2>4
  <2>51. columns(j) \in [1 .. m -> Int]
    <3> HIDE DEF column
    <3> QED
      BY <2>5
  <2>6. rows(j) \in Seq(Int) /\ Len(rows(j)) = j
    <3> HIDE DEF rows
    <3> QED
      BY <2>2, FiniteSeq
  <2> HIDE DEF rows, column, columns
  <2> QED
    BY <2>50, <2>51, <2>6
<1>3. 0 \in T
  <2>1. rows(0) = <<>>
    OBVIOUS
  <2>2. \A k \in 1 .. m : column(0, k) = <<>>
    OBVIOUS
  <2> HIDE DEF column, rows
  <2>3. \A k \in 1 .. m : columns(0)[k] = 0 * columns(0)[k]
    BY <2>2, TotalEmpty
  <2>4. columns(0) \in [1 .. m -> Int]
    BY <1>2
  <2> HIDE DEF columns
  <2>5. Total(columns(0)) = 0 * Total(columns(0))
    BY <2>3, <2>4, TotalScale
  <2>6. Total(columns(0)) \in Int
    BY <2>4, FiniteSeq, TotalType
  <2>7. Same(0)
    BY <2>1, <2>5, <2>6, TotalEmpty
  <2> QED
    BY <2>7
<1>4. ASSUME NEW j \in Nat, j \in T
      PROVE  j + 1 \in T
  <2> SUFFICES ASSUME j + 1 <= n
               PROVE  Same(j + 1)
    OBVIOUS
  <2>1. j <= n /\ j + 1 \in 1 .. n /\ j + 1 \in Nat /\ j + 1 \in 1 .. (j + 1)
        /\ \A a \in 1 .. j : a \in 1 .. (j + 1)
    OBVIOUS
  <2>2. Same(j)
    BY <1>4, <2>1
  <2>3. rows(j + 1)[j + 1] = Total(c[j + 1]) /\ \A a \in 1 .. j : rows(j + 1)[a] = rows(j)[a]
    BY <2>1
  <2>4. \A k \in 1 .. m : /\ column(j + 1, k)[j + 1] = c[j + 1][k]
                          /\ \A a \in 1 .. j : column(j + 1, k)[a] = column(j, k)[a]
    BY <2>1
  <2> HIDE DEF rows, column, Same, T
  <2>5. Total(rows(j + 1)) = Total(rows(j)) + Total(c[j + 1])
    <3>1. rows(j) \in Seq(Int) /\ Len(rows(j)) = j
      BY <1>2, <2>1
    <3>2. rows(j + 1) \in Seq(Int) /\ Len(rows(j + 1)) = j + 1
      BY <1>2, <2>1
    <3> QED
      BY <2>3, <3>1, <3>2, TotalOneMore
  <2>6. ASSUME NEW k \in 1 .. m
        PROVE  Total(column(j + 1, k)) = Total(column(j, k)) + c[j + 1][k]
    <3>1. column(j, k) \in Seq(Int) /\ Len(column(j, k)) = j
      BY <1>2, <2>1
    <3>2. column(j + 1, k) \in Seq(Int) /\ Len(column(j + 1, k)) = j + 1
      BY <1>2, <2>1
    <3> DEFINE f == column(j, k)
               h == column(j + 1, k)
    <3>3. f \in Seq(Int) /\ Len(f) = j /\ h \in Seq(Int) /\ Len(h) = j + 1
      BY <3>1, <3>2
    <3>4. h[j + 1] = c[j + 1][k] /\ \A a \in 1 .. j : h[a] = f[a]
      BY <2>4
    <3> HIDE DEF f, h
    <3>5. Total(h) = Total(f) + h[j + 1]
      BY <3>3, <3>4, TotalOneMore
    <3> QED
      BY <3>4, <3>5 DEF f, h
  <2>7. \A k \in 1 .. m : columns(j + 1)[k] = columns(j)[k] + c[j + 1][k]
    BY <2>6
  <2>8. columns(j) \in [1 .. m -> Int] /\ columns(j + 1) \in [1 .. m -> Int]
        /\ c[j + 1] \in [1 .. m -> Int]
    BY <1>1, <1>2, <2>1
  <2> HIDE DEF columns
  <2>9. Total(columns(j + 1)) = Total(columns(j)) + Total(c[j + 1])
    BY <2>7, <2>8, TotalAdd
  <2> QED
    BY <2>2, <2>5, <2>9 DEF Same
<1>5. Nat \subseteq T
  <2> HIDE DEF T
  <2> QED
    BY <1>3, <1>4, NatSet
<1>6. Same(n)
  <2> HIDE DEF Same
  <2> QED
    BY <1>5
<1> QED
  BY <1>6

(* Each site of an edge that names none twice is one of its sites once. *)
LEMMA SitesCounted ==
  ASSUME NEW n \in Nat, NEW sites \in Seq(1 .. n), Injective(sites)
  PROVE  Cardinality(Range(sites) \cap (1 .. n)) = Len(sites)
<1>1. Range(sites) \cap (1 .. n) = Range(sites)
  BY DEF Range
<1>2. DOMAIN sites = 1 .. Len(sites) /\ Len(sites) \in Nat
  OBVIOUS
<1> DEFINE l == Len(sites)
           D == Range(sites)
<1>3. sites \in Bijection(1 .. l, D)
  <2>1. \A k \in 1 .. l : sites[k] \in D
    BY <1>2 DEF Range
  <2>2. \A v \in D : \E k \in 1 .. l : sites[k] = v
    BY <1>2 DEF Range
  <2>3. sites \in [1 .. l -> D]
    BY <1>2, <2>1
  <2>4. \A j, k \in 1 .. l : sites[j] = sites[k] => j = k
    BY DEF Injective
  <2> HIDE DEF l, D
  <2> QED
    BY <2>2, <2>3, <2>4 DEF Bijection, Injection, Surjection, IsInjective
<1>4. ExistsBijection(1 .. l, D)
  BY <1>3 DEF ExistsBijection
<1>5. IsFiniteSet(1 .. l) /\ Cardinality(1 .. l) = l
  <2>1. l \in Nat
    OBVIOUS
  <2> HIDE DEF l
  <2> QED
    BY <2>1, FS_Interval
<1> QED
  BY <1>1, <1>4, <1>5, FS_Bijection

Simple(es) == \A k \in 1 .. Len(es) : Injective(es[k].sites)
Divisible(es) ==
    \A k \in 1 .. Len(es) :
        Len(es[k].sites) # 0 => EnergyUnit % Len(es[k].sites) = 0
ShareOf(n, config) ==
    [e \in EdgeType(n) |-> IF Len(e.sites) = 0 THEN 0 ELSE Share(config, e)]

LEMMA ShareType ==
  ASSUME NEW n \in Nat, NEW config \in [1 .. n -> {0, 1}]
  PROVE  ShareOf(n, config) \in [EdgeType(n) -> Int]
<1> SUFFICES ASSUME NEW e \in EdgeType(n), Len(e.sites) # 0
             PROVE  Share(config, e) \in Int
  BY DEF ShareOf
<1>1. Parity(config, e) \in {0, 1} /\ Sign(e) \in Int
  BY EdgeTermType
<1>2. e.val \in Int /\ Len(e.sites) \in Nat \ {0}
  BY DEF EdgeType
<1>3. EnergyUnit \in Nat
  BY EnergyUnitAssumption
<1>4. EnergyUnit \div Len(e.sites) \in Int
  BY <1>2, <1>3
<1> QED
  BY <1>1, <1>2, <1>4 DEF Share

(* compute_energy sums the energies of the edges. *)
LEMMA ComputedEnergy ==
  ASSUME NEW n \in Nat, NEW es \in Seq(EdgeType(n)), Lists(nodes, es, Len(es), n),
         NEW config \in [1 .. n -> {0, 1}]
  PROVE  /\ ComputeEnergy(config) \in Int
         /\ Simple(es) /\ Divisible(es) =>
              ComputeEnergy(config) = EnergyUnit * Total(EdgeTerms(config, es))
<1> DEFINE m == Len(es)
           w == ShareOf(n, config)
           c == [a \in 1 .. n |-> AtSite(es, m, a, w)]
           column(k) == [a \in 1 .. n |-> c[a][k]]
           columns == [k \in 1 .. m |-> Total(column(k))]
<1>1. /\ m \in Nat /\ N = n
      /\ \A a \in 1 .. n : nodes[a] \in Seq(EdgeType(n)) /\ ListsSite(nodes[a], es, m, a, n)
  BY DEF Lists, N
<1>2. w \in [EdgeType(n) -> Int]
  BY ShareType
<1>3. ASSUME NEW a \in 1 .. n
      PROVE  Total([k \in DOMAIN Node(a) |-> Share(config, Node(a)[k])]) = Total(c[a])
  <2> DEFINE list == nodes[a]
  <2>1. list \in Seq(EdgeType(n)) /\ ListsSite(list, es, m, a, n)
    BY <1>1
  <2>2. DOMAIN list = 1 .. Len(list)
    BY <2>1
  <2>3. ASSUME NEW k \in 1 .. Len(list)
        PROVE  Share(config, list[k]) = w[list[k]]
    <3>1. list[k] \in Range(list) /\ list[k] \in EdgeType(n)
      BY <2>1, InRange
    <3>2. a \in Range(list[k].sites)
      BY <2>1, <3>1 DEF ListsSite
    <3>3. list[k].sites \in Seq(1 .. n)
      BY <3>1 DEF EdgeType
    <3>4. Len(list[k].sites) # 0
      BY <3>2, <3>3, InRange
    <3> QED
      BY <3>1, <3>4 DEF ShareOf
  <2>4. [k \in DOMAIN list |-> Share(config, list[k])] = Weights(list, w)
    BY <2>2, <2>3 DEF Weights
  <2>5. Total(Weights(list, w)) = Total(AtSite(es, m, a, w))
    BY <1>2, <2>1 DEF ListsSite
  <2> QED
    BY <2>4, <2>5 DEF Node
<1>4. ASSUME NEW a \in 1 .. n
      PROVE  AtSite(es, m, a, w) \in [1 .. m -> Int]
  <2>1. AtSite(es, m, a, w) \in Seq(Int) /\ Len(AtSite(es, m, a, w)) = m
    BY <1>1, <1>2, AtSiteTyped
  <2> QED
    BY <2>1
<1>5. c \in [1 .. n -> [1 .. m -> Int]]
  BY <1>4
<1>6. ComputeEnergy(config) = Total([a \in 1 .. n |-> Total(c[a])])
  <2> HIDE DEF c
  <2> QED
    BY <1>1, <1>3 DEF ComputeEnergy
<1>7. Total([a \in 1 .. n |-> Total(c[a])]) = Total(columns)
  <2> HIDE DEF c, m
  <2> QED
    BY <1>1, <1>5, RowsAndColumns
<1>8. ASSUME NEW k \in 1 .. m
      PROVE  column(k) \in [1 .. n -> Int] /\ Total(column(k)) \in Int
  <2>1. column(k) \in [1 .. n -> Int]
    <3> HIDE DEF c, m
    <3> QED
      BY <1>5
  <2> HIDE DEF column
  <2> QED
    BY <2>1, FiniteSeq, TotalType
<1>9. columns \in [1 .. m -> Int]
  <2> HIDE DEF column, m
  <2> QED
    BY <1>8
<1>10. ComputeEnergy(config) \in Int
  <2>1. columns \in Seq(Int)
    <3> HIDE DEF columns, m
    <3> QED
      BY <1>1, <1>9, FiniteSeq
  <2> HIDE DEF columns, c
  <2> QED
    BY <1>6, <1>7, <2>1, TotalType
<1>11. ASSUME Simple(es), Divisible(es)
       PROVE  ComputeEnergy(config) = EnergyUnit * Total(EdgeTerms(config, es))
  <2> DEFINE t == EdgeTerms(config, es)
  <2>1. ASSUME NEW k \in 1 .. m
        PROVE  columns[k] = EnergyUnit * t[k] /\ t[k] \in Int
    <3> DEFINE e == es[k]
               l == Len(e.sites)
               D == Range(e.sites)
               ones == [a \in 1 .. n |-> IF a \in D THEN 1 ELSE 0]
    <3>1. e \in EdgeType(n)
      OBVIOUS
    <3>2. e.sites \in Seq(1 .. n) /\ e.val \in Int /\ l \in Nat /\ Injective(e.sites)
      BY <1>11, <3>1 DEF EdgeType, Simple
    <3>3. w[e] \in Int
      BY <1>2, <3>1
    <3>4. ones \in [1 .. n -> Int] /\ \A a \in 1 .. n : ones[a] = IF a \in D THEN 1 ELSE 0
      OBVIOUS
    <3>5. \A a \in 1 .. n : column(k)[a] = w[e] * ones[a]
      <4>1. \A a \in 1 .. n : column(k)[a] = IF a \in D THEN w[e] ELSE 0
        BY DEF AtSite
      <4> HIDE DEF column, w, e, D
      <4> QED
        BY <3>3, <4>1
    <3> HIDE DEF ones, D
    <3>6. Total(ones) = Cardinality(D \cap (1 .. n))
      BY <3>4, TotalCount
    <3>7. Total(ones) = l
      BY <3>2, <3>6, SitesCounted DEF D
    <3>8. Total(column(k)) = w[e] * Total(ones)
      <4> DEFINE f == column(k)
                 c0 == w[e]
      <4>1. f \in [1 .. n -> Int] /\ \A a \in 1 .. n : f[a] = c0 * ones[a]
        BY <1>8, <3>5
      <4>2. c0 \in Int
        BY <3>3
      <4> HIDE DEF f, c0
      <4>3. Total(f) = c0 * Total(ones)
        BY <3>4, <4>1, <4>2, TotalScale
      <4> QED
        BY <4>3 DEF f, c0
    <3>9. t[k] = EdgeTerm(config, e) /\ t[k] \in Int
      BY <3>1, EdgeTermType DEF EdgeTerms
    <3>10. columns[k] = Total(column(k))
      OBVIOUS
    <3>11. columns[k] = w[e] * l
      <4> HIDE DEF columns, column, w, e
      <4> QED
        BY <3>7, <3>8, <3>10
    <3>12. Parity(config, e) \in {0, 1} /\ Sign(e) \in Int
      BY <3>1, EdgeTermType
    <3>13. EnergyUnit \in Nat
      BY EnergyUnitAssumption
    <3>14. CASE l = 0
      <4>1. EdgeTerm(config, e) = 0
        BY <3>14 DEF EdgeTerm
      <4> HIDE DEF columns, w, e, l, t
      <4> QED
        BY <3>3, <3>9, <3>11, <3>13, <3>14, <4>1
    <3>15. CASE l # 0
      <4> DEFINE q == EnergyUnit \div l
                 u == (2 * Parity(config, e) - 1) * e.val * Sign(e)
      <4>1. EnergyUnit % l = 0
        BY <1>11, <3>15 DEF Divisible
      <4>2. q \in Int /\ l * q = EnergyUnit
        <5> HIDE DEF l
        <5> QED
          BY <3>2, <3>13, <3>15, <4>1, Shared
      <4>3. w[e] = u * q
        BY <3>1, <3>15 DEF ShareOf, Share
      <4>4. EdgeTerm(config, e) = u
        BY <3>15 DEF EdgeTerm
      <4>5. u \in Int
        <5> HIDE DEF e
        <5> QED
          BY <3>2, <3>12
      <4> HIDE DEF columns, w, e, l, t, q, u
      <4>6. (u * q) * l = EnergyUnit * u
        <5>1. (u * q) * l = u * (l * q)
          BY <3>2, <4>2, <4>5
        <5>2. u * EnergyUnit = EnergyUnit * u
          BY <3>13, <4>5
        <5> QED
          BY <4>2, <5>1, <5>2
      <4> QED
        BY <3>9, <3>11, <4>3, <4>4, <4>6
    <3> QED
      BY <3>9, <3>14, <3>15
  <2>2. t = [k \in 1 .. m |-> t[k]]
    BY DEF EdgeTerms
  <2> HIDE DEF columns, c, t, m
  <2>3. t \in [1 .. m -> Int]
    BY <2>1, <2>2
  <2>4. EnergyUnit \in Int
    BY EnergyUnitAssumption
  <2>5. Total(columns) = EnergyUnit * Total(t)
    <3>1. \A k \in 1 .. m : columns[k] = EnergyUnit * t[k]
      BY <2>1
    <3>2. m \in Nat /\ columns \in [1 .. m -> Int]
      BY <1>1, <1>9
    <3> QED
      BY <2>3, <2>4, <3>1, <3>2, TotalScale
  <2> QED
    BY <1>6, <1>7, <2>5 DEF t
<1> QED
  BY <1>10, <1>11

(* Flipping a spin changes the parity of the edges at its site, and of no other. *)
FlippedAt(flipped, config, a, n) ==
    /\ flipped \in [1 .. n -> {0, 1}] /\ flipped[a] = 1 - config[a]
    /\ \A k \in 1 .. n : k # a => flipped[k] = config[k]

LEMMA FlipParity ==
  ASSUME NEW n \in Nat, NEW config \in [1 .. n -> {0, 1}], NEW a \in 1 .. n,
         NEW flipped, FlippedAt(flipped, config, a, n), NEW e \in EdgeType(n), Injective(e.sites)
  PROVE  Parity(flipped, e) = IF a \in Range(e.sites) THEN 1 - Parity(config, e)
                                                      ELSE Parity(config, e)
<1> DEFINE sites == e.sites
           l == Len(sites)
           f == [k \in DOMAIN sites |-> config[sites[k]]]
           g == [k \in DOMAIN sites |-> flipped[sites[k]]]
<1>1. sites \in Seq(1 .. n) /\ l \in Nat /\ DOMAIN sites = 1 .. l
      /\ \A k \in 1 .. l : sites[k] \in 1 .. n
  BY DEF EdgeType
<1>2. /\ flipped \in [1 .. n -> {0, 1}] /\ flipped[a] = 1 - config[a]
      /\ \A k \in 1 .. n : k # a => flipped[k] = config[k]
  BY DEF FlippedAt
<1>3. f \in [1 .. l -> Int] /\ g \in [1 .. l -> Int] /\ f \in [1 .. l -> {0, 1}]
  <2> HIDE DEF sites, l
  <2> QED
    BY <1>1, <1>2
<1>4. Parity(config, e) = Total(f) % 2 /\ Parity(flipped, e) = Total(g) % 2
  BY DEF Parity
<1>5. Total(f) \in Int
  <2> HIDE DEF f, l
  <2> QED
    BY <1>1, <1>3, TotalBits
<1>6. CASE a \in Range(sites)
  <2>1. PICK j \in 1 .. l : sites[j] = a
    BY <1>1, <1>6, InRange
  <2>2. \A k \in 1 .. l : k # j => sites[k] # a
    BY <2>1 DEF Injective
  <2>3. \A k \in 1 .. l : k # j => g[k] = f[k]
    BY <1>1, <1>2, <2>2
  <2>4. f[j] \in {0, 1} /\ g[j] = 1 - f[j]
    BY <1>1, <1>2, <2>1
  <2> HIDE DEF f, g, l, sites
  <2>5. Total(g) = Total(f) + (g[j] - f[j])
    BY <1>1, <1>3, <2>3, TotalChange
  <2>6. Total(g) = Total(f) + 1 \/ Total(g) = Total(f) - 1
    BY <1>5, <2>4, <2>5
  <2>7. Total(g) % 2 = 1 - (Total(f) % 2)
    BY <1>5, <2>6, Mod2
  <2> QED
    BY <1>4, <1>6, <2>7 DEF sites
<1>7. CASE a \notin Range(sites)
  <2>1. \A k \in 1 .. l : sites[k] # a
    BY <1>1, <1>7, InRange
  <2>2. g = f
    BY <1>1, <1>2, <2>1
  <2> QED
    BY <1>4, <1>7, <2>2
<1> QED
  BY <1>6, <1>7

(* A flip changes the energy by what delta_energy says. *)
LEMMA FlipEnergy ==
  ASSUME NEW n \in Nat, NEW es \in Seq(EdgeType(n)), Lists(nodes, es, Len(es), n),
         spins \in [1 .. n -> {0, 1}], NEW a \in 1 .. n,
         NEW flipped, flipped = [spins EXCEPT ![a] = 1 - @]
  PROVE  /\ DeltaEnergy(a) \in Int
         /\ Simple(es) =>
              EnergyUnit * Total(EdgeTerms(flipped, es))
                = EnergyUnit * Total(EdgeTerms(spins, es)) + DeltaEnergy(a)
<1> DEFINE m == Len(es)
           list == nodes[a]
           w == [e \in EdgeType(n) |-> Change(e)]
           at == AtSite(es, m, a, w)
           old == EdgeTerms(spins, es)
           new == EdgeTerms(flipped, es)
<1>1. m \in Nat /\ list \in Seq(EdgeType(n)) /\ ListsSite(list, es, m, a, n)
  BY DEF Lists
<1>2. \A e \in EdgeType(n) : Parity(spins, e) \in {0, 1} /\ Sign(e) \in Int /\ e.val \in Int
  <2>1. \A e \in EdgeType(n) : e.val \in Int
    BY DEF EdgeType
  <2> QED
    BY <2>1, EdgeTermType
<1>3. w \in [EdgeType(n) -> Int]
  BY <1>2 DEF Change
<1>4. [k \in DOMAIN Node(a) |-> Change(Node(a)[k])] = Weights(list, w)
  <2>1. DOMAIN list = 1 .. Len(list) /\ \A k \in 1 .. Len(list) : list[k] \in EdgeType(n)
    BY <1>1
  <2> QED
    BY <2>1 DEF Weights, Node
<1>5. Total(Weights(list, w)) = Total(at)
  <2> HIDE DEF w
  <2> QED
    BY <1>1, <1>3 DEF ListsSite
<1>6. at \in [1 .. m -> Int]
  <2>1. at \in Seq(Int) /\ Len(at) = m
    <3>1. m \in Nat /\ m <= Len(es)
      BY <1>1
    <3> HIDE DEF w, m
    <3> QED
      BY <1>3, <3>1, AtSiteTyped
  <2> QED
    BY <2>1
<1>7. DeltaEnergy(a) = 2 * EnergyUnit * Total(at)
  BY <1>4, <1>5 DEF DeltaEnergy
<1>8. EnergyUnit \in Nat /\ Total(at) \in Int
  <2>1. at \in Seq(Int)
    <3> HIDE DEF at, m
    <3> QED
      BY <1>1, <1>6, FiniteSeq
  <2> HIDE DEF at
  <2> QED
    BY <2>1, TotalType, EnergyUnitAssumption
<1>9. DeltaEnergy(a) \in Int
  <2> HIDE DEF at
  <2> QED
    BY <1>7, <1>8
<1>10. ASSUME Simple(es)
       PROVE  EnergyUnit * Total(new) = EnergyUnit * Total(old) + DeltaEnergy(a)
  <2>1. flipped \in [1 .. n -> {0, 1}]
    OBVIOUS
  <2>11. FlippedAt(flipped, spins, a, n)
    BY DEF FlippedAt
  <2>2. ASSUME NEW k \in 1 .. m
        PROVE  new[k] = old[k] + 2 * at[k] /\ old[k] \in Int /\ new[k] \in Int
    <3> DEFINE e == es[k]
               p == Parity(spins, e)
    <3>1. e \in EdgeType(n) /\ Injective(e.sites) /\ e.sites \in Seq(1 .. n)
      <4>1. e \in EdgeType(n)
        OBVIOUS
      <4>2. Injective(e.sites)
        BY <1>10 DEF Simple
      <4> QED
        BY <4>1, <4>2 DEF EdgeType
    <3>2. p \in {0, 1} /\ Sign(e) \in Int /\ e.val \in Int
      BY <1>2, <3>1
    <3>3. Parity(flipped, e) = IF a \in Range(e.sites) THEN 1 - p ELSE p
      <4> HIDE DEF e
      <4>1. Parity(flipped, e) = IF a \in Range(e.sites) THEN 1 - Parity(spins, e)
                                                         ELSE Parity(spins, e)
        BY <2>11, <3>1, FlipParity
      <4> QED
        BY <4>1
    <3>4. /\ old[k] = EdgeTerm(spins, e) /\ new[k] = EdgeTerm(flipped, e)
          /\ at[k] = IF a \in Range(e.sites) THEN Change(e) ELSE 0
      BY <3>1 DEF EdgeTerms, AtSite
    <3>5. old[k] \in Int /\ new[k] \in Int
      <4> HIDE DEF e, old, new
      <4>1. EdgeTerm(spins, e) \in Int
        BY <3>1, EdgeTermType
      <4>2. EdgeTerm(flipped, e) \in Int
        BY <2>1, <3>1, EdgeTermType
      <4> QED
        BY <3>4, <4>1, <4>2
    <3>6. CASE a \in Range(e.sites)
      <4>1. Len(e.sites) # 0
        BY <3>1, <3>6, InRange
      <4>2. /\ old[k] = (2 * p - 1) * e.val * Sign(e)
            /\ new[k] = (2 * (1 - p) - 1) * e.val * Sign(e)
            /\ at[k] = (1 - 2 * p) * e.val * Sign(e)
        BY <3>3, <3>4, <3>6, <4>1 DEF EdgeTerm, Change
      <4> HIDE DEF p, e, old, new, at
      <4>3. (2 * (1 - p) - 1) * e.val * Sign(e)
              = (2 * p - 1) * e.val * Sign(e) + 2 * ((1 - 2 * p) * e.val * Sign(e))
        BY <3>2
      <4> QED
        BY <3>5, <4>2, <4>3
    <3>7. CASE a \notin Range(e.sites)
      <4>1. new[k] = old[k] /\ at[k] = 0
        BY <3>3, <3>4, <3>7 DEF EdgeTerm
      <4> HIDE DEF old, new, at
      <4> QED
        BY <3>5, <4>1
    <3> QED
      BY <3>5, <3>6, <3>7
  <2> DEFINE twice == [k \in 1 .. m |-> 2 * at[k]]
  <2>3. old = [k \in 1 .. m |-> old[k]] /\ new = [k \in 1 .. m |-> new[k]]
    BY DEF EdgeTerms
  <2> HIDE DEF old, new, at, m
  <2>4. old \in [1 .. m -> Int] /\ new \in [1 .. m -> Int] /\ twice \in [1 .. m -> Int]
    BY <1>6, <2>2, <2>3
  <2>5. \A k \in 1 .. m : twice[k] = 2 * at[k] /\ new[k] = old[k] + twice[k]
    BY <2>2
  <2> HIDE DEF twice
  <2>6. Total(twice) = 2 * Total(at)
    <3>1. 2 \in Int
      OBVIOUS
    <3> QED
      BY <1>1, <1>6, <2>4, <2>5, <3>1, TotalScale
  <2>7. Total(new) = Total(old) + Total(twice)
    BY <1>1, <2>4, <2>5, TotalAdd
  <2>8. Total(old) \in Int
    <3>1. old \in Seq(Int)
      BY <1>1, <2>4, FiniteSeq
    <3> QED
      BY <3>1, TotalType
  <2> QED
    BY <1>7, <1>8, <2>6, <2>7, <2>8
<1> QED
  BY <1>9, <1>10

(* The lists of the loaded edges are exact. *)
LEMMA ExactLists ==
  ASSUME NEW n \in Nat, NEW es \in Seq(EdgeType(n)), EdgesInOrder(es),
         \A a \in 1 .. n : \E k \in 1 .. Len(es) : a \in Range(es[k].sites),
         NEW lists, Lists(lists, es, Len(es), n)
  PROVE  /\ DOMAIN lists = 1 .. n
         /\ \A a \in DOMAIN lists :
               /\ lists[a] # <<>>
               /\ \A e \in Range(es) :
                     Cardinality({k \in DOMAIN lists[a] : lists[a][k] = e})
                         = (IF a \in Range(e.sites) THEN 1 ELSE 0)
<1>1. DOMAIN lists = 1 .. n
  BY DEF Lists
<1>2. ASSUME NEW a \in 1 .. n
      PROVE  lists[a] # <<>>
  <2>1. ListsSite(lists[a], es, Len(es), a, n)
    BY DEF Lists
  <2>2. PICK k \in 1 .. Len(es) : a \in Range(es[k].sites)
    OBVIOUS
  <2>3. es[k] \in Range(lists[a])
    BY <2>1, <2>2 DEF ListsSite
  <2> QED
    BY <2>3 DEF Range
<1>3. ASSUME NEW a \in 1 .. n, NEW e \in Range(es)
      PROVE  Cardinality({k \in DOMAIN lists[a] : lists[a][k] = e})
                = (IF a \in Range(e.sites) THEN 1 ELSE 0)
  <2>1. ListsSite(lists[a], es, Len(es), a, n)
    BY DEF Lists
  <2>2. \E k \in 1 .. Len(es) : es[k] = e
    BY InRange
  <2> QED
    BY <2>1, <2>2, ListCounts
<1> QED
  BY <1>1, <1>2, <1>3

(***************************************************************************)
(* The inductive invariant, step by step.                                  *)
(***************************************************************************)

(* The loader: what is numbered and stored is what the
   lines read so far say, and the lists are those of the edges. *)
LoaderInv ==
    /\ file \in Files \cup {<<>>}
    /\ loading \in {"opening", "reading", "built", "threw", "aborted"}
    /\ loading = "opening" => count = 0 /\ names = <<>> /\ edges = <<>>
    /\ Loaded(file, count, names, edges)
    /\ loading = "built" => Lists(nodes, edges, Len(edges), Len(names))

(* The solver runs only while the program solves, on a lattice that is built. *)
StageInv ==
    /\ stage \in {"options", "load", "solve", "write", "returned"}
    /\ stage \in {"options", "load"} => pc = "idle" /\ x = <<>> /\ out = <<>>
    /\ stage \in {"solve", "write"} => loading = "built"
    /\ pc = "anneal" => stage = "solve"

Spins(n) == [1 .. n -> {0, 1}]
Energy(config, es) == EnergyUnit * Total(EdgeTerms(config, es))

SolverInv ==
    /\ pc \in {"idle", "anneal"}
    /\ pc = "idle" => spins = <<>>
    /\ pc = "anneal" =>
          /\ spins \in Spins(Len(names)) /\ E \in Int
          /\ Len(names) # 0 => i \in 1 .. Len(names)
          /\ Simple(edges) => E = Energy(spins, edges)

(* The results: a spin for every site, and the energy of these spins. *)
Results(q, n, es) ==
    /\ q \in Seq([E : Int, spins : Spins(n)])
    /\ Simple(es) => \A k \in 1 .. Len(q) : q[k].E = Energy(q[k].spins, es)
ResultsInv == Results(x, Len(names), edges) /\ Results(out, Len(names), edges)

IInv == LoaderInv /\ StageInv /\ SolverInv /\ ResultsInv

LEMMA NoResults ==
  ASSUME NEW n, NEW es
  PROVE  Results(<<>>, n, es)
<1> DEFINE o == <<>>
<1>1. o \in Seq([E : Int, spins : Spins(n)]) /\ Len(o) = 0
  OBVIOUS
<1> QED
  BY <1>1 DEF Results

LEMMA FilesAreTyped ==
  ASSUME NEW f \in Files \cup {<<>>}
  PROVE  f \in Seq(LineType)
<1>1. <<>> \in Seq(LineType)
  OBVIOUS
<1>2. \A g \in Files : g \in Seq(LineType)
  BY FilesAssumption DEF LineType
<1> QED
  BY <1>1, <1>2

LEMMA InitIInv == Init => IInv
<1> SUFFICES ASSUME Init PROVE IInv
  OBVIOUS
<1> USE DEF Init, LoaderInit, SolverInit
<1>1. LoaderInv
  <2>1. Loaded(file, 0, <<>>, <<>>)
    BY FilesAreTyped, NothingLoaded
  <2> QED
    BY <2>1 DEF LoaderInv
<1>2. StageInv /\ SolverInv
  BY DEF StageInv, SolverInv
<1>3. ResultsInv
  BY NoResults DEF ResultsInv
<1> QED
  BY <1>1, <1>2, <1>3 DEF IInv

(* Each action of the constructor keeps what the loader promises. *)
LEMMA OpenKeeps ==
  ASSUME LoaderInv, Open
  PROVE  LoaderInv'
<1>1. Loaded(<<>>, 0, <<>>, <<>>)
  <2>1. <<>> \in Seq(LineType)
    BY FilesAreTyped
  <2> QED
    BY <2>1, NothingLoaded
<1> QED
  BY <1>1 DEF LoaderInv, Open

LEMMA SkipLineKeeps ==
  ASSUME LoaderInv, SkipLine
  PROVE  LoaderInv'
<1>1. /\ loading = "reading" /\ loading' = "reading" /\ count' = count + 1
      /\ UNCHANGED <<file, names, edges, nodes>> /\ count < Len(file)
      /\ ~ EdgeLine(file, count + 1)
  BY DEF SkipLine, ReadLine, Line, EdgeLine
<1>2. Loaded(file, count, names, edges) /\ file \in Seq(LineType) /\ count \in Nat
  BY DEF LoaderInv, Loaded, LoadedTypes
<1>3. count + 1 <= Len(file)
  BY <1>1, <1>2
<1>4. Loaded(file, count + 1, names, edges)
  BY <1>1, <1>2, <1>3, OtherLine
<1> QED
  BY <1>1, <1>4 DEF LoaderInv

LEMMA BadLineKeeps ==
  ASSUME LoaderInv, BadLine
  PROVE  LoaderInv'
<1>1. /\ loading = "reading" /\ loading' = "threw" /\ count' = count + 1
      /\ UNCHANGED <<file, names, edges, nodes>> /\ count < Len(file)
      /\ ~ EdgeLine(file, count + 1)
  BY DEF BadLine, ReadLine, Line, EdgeLine
<1>2. Loaded(file, count, names, edges) /\ file \in Seq(LineType) /\ count \in Nat
  BY DEF LoaderInv, Loaded, LoadedTypes
<1>3. count + 1 <= Len(file)
  BY <1>1, <1>2
<1>4. Loaded(file, count + 1, names, edges)
  BY <1>1, <1>2, <1>3, OtherLine
<1> QED
  BY <1>1, <1>4 DEF LoaderInv

LEMMA ReadEdgeKeeps ==
  ASSUME LoaderInv, ReadEdge
  PROVE  LoaderInv'
<1> DEFINE r == Indexed(names, file[count + 1].sites)
           sites == LineSites(file, count, names)
<1>1. /\ loading = "reading" /\ loading' = "reading" /\ count' = count + 1
      /\ UNCHANGED <<file, nodes>> /\ count < Len(file)
      /\ EdgeLine(file, count + 1)
      /\ names' = r
  BY DEF ReadEdge, ReadLine, Line, EdgeLine
<1>2. /\ Loaded(file, count, names, edges) /\ file \in Seq(LineType) /\ count \in Nat
      /\ edges \in Seq(EdgeType(Len(names)))
  BY DEF LoaderInv, Loaded, LoadedTypes
<1>3. edges' = IF \E e \in Range(edges) : e.sites = sites THEN edges
               ELSE Append(edges, NewEdge(file, count, names))
  BY <1>1 DEF ReadEdge, Line, LineSites, NewEdge
<1>4. (\E e \in Range(edges) : e.sites = sites) <=> Found(file, count, names, edges)
  BY <1>2, InRange DEF Found
<1>5. edges' = MoreEdges(file, count, names, edges)
  BY <1>3, <1>4 DEF MoreEdges
<1>6. count + 1 <= Len(file)
  BY <1>1, <1>2
<1>7. Loaded(file, count + 1, r, MoreEdges(file, count, names, edges))
  BY <1>1, <1>2, <1>6, OneMoreLine
<1> QED
  BY <1>1, <1>5, <1>7 DEF LoaderInv

LEMMA BuildKeeps ==
  ASSUME LoaderInv, Build
  PROVE  LoaderInv'
<1>1. /\ Loaded(file, count, names, edges) /\ edges \in Seq(EdgeType(Len(names)))
      /\ EdgesInOrder(edges) /\ Len(names) \in Nat
  BY DEF LoaderInv, Loaded, LoadedTypes
<1>2. Lists(NodesOf(edges, Len(names)), edges, Len(edges), Len(names))
  BY <1>1, NodesProps
<1> QED
  BY <1>2 DEF LoaderInv, Build

LEMMA LoadKeeps ==
  ASSUME IInv, LoadHamiltonian
  PROVE  IInv'
<1>1. /\ stage = "load" /\ stage' = "load" /\ pc = "idle" /\ x = <<>> /\ out = <<>>
      /\ UNCHANGED <<spins, E, i, pc, x, out>> /\ spins = <<>>
  BY DEF IInv, StageInv, SolverInv, LoadHamiltonian, solver, main
<1>2. LoaderInv'
  BY OpenKeeps, SkipLineKeeps, BadLineKeeps, ReadEdgeKeeps, BuildKeeps
     DEF IInv, LoadHamiltonian, Load
<1>3. StageInv' /\ SolverInv'
  BY <1>1 DEF IInv, StageInv, SolverInv
<1>4. ResultsInv'
  BY <1>1, NoResults DEF ResultsInv
<1> QED
  BY <1>2, <1>3, <1>4 DEF IInv

(* What the solver finds: as many lists as sites, of the edges of the file. *)
LEMMA Lattice ==
  ASSUME IInv, stage = "solve"
  PROVE  /\ Len(names) \in Nat /\ N = Len(names)
         /\ edges \in Seq(EdgeType(Len(names)))
         /\ Lists(nodes, edges, Len(edges), Len(names))
         /\ Divisible(edges)
<1>1. /\ loading = "built" /\ Loaded(file, count, names, edges)
      /\ Lists(nodes, edges, Len(edges), Len(names)) /\ file \in Files \cup {<<>>}
  BY DEF IInv, LoaderInv, StageInv
<1>2. /\ Len(names) \in Nat /\ edges \in Seq(EdgeType(Len(names)))
      /\ file \in Seq(LineType) /\ count \in 0 .. Len(file)
  BY <1>1 DEF Loaded, LoadedTypes
<1>3. N = Len(names)
  BY <1>1, <1>2 DEF Lists, N
<1>4. Divisible(edges)
  <2> SUFFICES ASSUME NEW k \in 1 .. Len(edges), Len(edges[k].sites) # 0
               PROVE  EnergyUnit % Len(edges[k].sites) = 0
    BY DEF Divisible
  <2>1. PICK j \in 1 .. count : EdgeLine(file, j) /\ Len(file[j].sites) = Len(edges[k].sites)
    BY <1>1 DEF Loaded, ComeFromLines
  <2>2. j \in 1 .. Len(file) /\ DOMAIN file = 1 .. Len(file)
    BY <1>2
  <2>3. file \in Files
    BY <1>1, <2>2
  <2>4. file[j].kind = "edge" /\ file[j].sites # <<>>
    BY <2>1 DEF EdgeLine
  <2>5. EnergyUnit % Len(file[j].sites) = 0
    BY <2>2, <2>3, <2>4, EnergyUnitAssumption
  <2> QED
    BY <2>1, <2>5
<1> QED
  BY <1>1, <1>2, <1>3, <1>4

LEMMA RepeatKeeps ==
  ASSUME IInv, Repeat
  PROVE  IInv'
<1>1. /\ stage = "solve" /\ pc = "idle" /\ spins = <<>>
      /\ UNCHANGED <<file, count, names, edges, loading, nodes, stage, x, out>>
      /\ pc' = "anneal" /\ i' = 1 /\ E' = ComputeEnergy(spins')
      /\ \E random \in [1 .. N -> {0, 1}] : spins' = spins \o random
  BY DEF IInv, SolverInv, Repeat, Start, main
<1>2. /\ Len(names) \in Nat /\ N = Len(names)
      /\ edges \in Seq(EdgeType(Len(names)))
      /\ Lists(nodes, edges, Len(edges), Len(names)) /\ Divisible(edges)
  BY <1>1, Lattice
<1>3. PICK random \in [1 .. Len(names) -> {0, 1}] : spins' = spins \o random
  BY <1>1, <1>2
<1>4. spins' = random
  BY <1>1, <1>2, <1>3
<1>5. E' = ComputeEnergy(random)
  BY <1>1, <1>4
<1>6. /\ ComputeEnergy(random) \in Int
      /\ Simple(edges) => ComputeEnergy(random) = Energy(random, edges)
  BY <1>2, ComputedEnergy DEF Energy
<1>7. SolverInv'
  <2>1. spins' \in Spins(Len(names)) /\ E' \in Int
    BY <1>4, <1>5, <1>6 DEF Spins
  <2>2. Simple(edges) => E' = Energy(spins', edges)
    BY <1>4, <1>5, <1>6
  <2>3. Len(names) # 0 => i' \in 1 .. Len(names)
    BY <1>1, <1>2
  <2> QED
    BY <1>1, <2>1, <2>2, <2>3 DEF SolverInv
<1>8. LoaderInv' /\ StageInv' /\ ResultsInv'
  BY <1>1 DEF IInv, LoaderInv, StageInv, ResultsInv
<1> QED
  BY <1>7, <1>8 DEF IInv

LEMMA RunningKeeps ==
  ASSUME IInv, Running
  PROVE  IInv'
<1>1. /\ stage = "solve" /\ pc = "anneal" /\ N > 0
      /\ UNCHANGED <<file, count, names, edges, loading, nodes, stage, x, out, pc>>
      /\ NextSite
      /\ spins \in Spins(Len(names)) /\ E \in Int
      /\ Len(names) # 0 => i \in 1 .. Len(names)
      /\ Simple(edges) => E = Energy(spins, edges)
  BY DEF IInv, SolverInv, Running, Flip, Keep, main
<1>2. /\ Len(names) \in Nat /\ N = Len(names)
      /\ edges \in Seq(EdgeType(Len(names)))
      /\ Lists(nodes, edges, Len(edges), Len(names))
  BY <1>1, Lattice
<1>3. i \in 1 .. Len(names) /\ i' \in 1 .. Len(names)
  BY <1>1, <1>2 DEF NextSite
<1>4. /\ spins' \in Spins(Len(names)) /\ E' \in Int
      /\ Simple(edges) => E' = Energy(spins', edges)
  <2>1. CASE Flip
    <3> DEFINE flipped == [spins EXCEPT ![i] = 1 - @]
    <3>1. spins' = flipped /\ E' = E + DeltaEnergy(i)
      BY <2>1 DEF Flip
    <3>2. spins \in [1 .. Len(names) -> {0, 1}]
      BY <1>1 DEF Spins
    <3>3. flipped \in Spins(Len(names))
      BY <1>3, <3>2 DEF Spins
    <3>4. PICK f : f = flipped
      OBVIOUS
    <3>5. PICK k \in 1 .. Len(names) : k = i
      BY <1>3
    <3>6. f = [spins EXCEPT ![k] = 1 - @]
      BY <3>4, <3>5
    <3>7. /\ DeltaEnergy(k) \in Int
          /\ Simple(edges) => EnergyUnit * Total(EdgeTerms(f, edges))
                                = EnergyUnit * Total(EdgeTerms(spins, edges)) + DeltaEnergy(k)
      <4> HIDE DEF flipped
      <4> QED
        BY <1>2, <3>2, <3>6, FlipEnergy
    <3>8. DeltaEnergy(i) \in Int
      BY <3>5, <3>7
    <3>9. Simple(edges) => Energy(flipped, edges) = Energy(spins, edges) + DeltaEnergy(i)
      BY <3>4, <3>5, <3>7 DEF Energy
    <3> HIDE DEF flipped
    <3> QED
      BY <1>1, <3>1, <3>3, <3>8, <3>9
  <2>2. CASE Keep
    BY <1>1, <2>2 DEF Keep
  <2> QED
    BY <2>1, <2>2 DEF Running
<1>5. SolverInv'
  BY <1>1, <1>3, <1>4 DEF SolverInv
<1>6. LoaderInv' /\ StageInv' /\ ResultsInv'
  BY <1>1 DEF IInv, LoaderInv, StageInv, ResultsInv
<1> QED
  BY <1>5, <1>6 DEF IInv

LEMMA RunEndsKeeps ==
  ASSUME IInv, RunEnds
  PROVE  IInv'
<1> DEFINE R == [E : Int, spins : Spins(Len(names))]
           r == [E |-> E, spins |-> spins]
<1>1. /\ stage = "solve" /\ pc = "anneal"
      /\ UNCHANGED <<file, count, names, edges, loading, nodes, stage, out>>
      /\ pc' = "idle" /\ spins' = <<>> /\ x' = Append(x, r)
      /\ spins \in Spins(Len(names)) /\ E \in Int
      /\ Simple(edges) => E = Energy(spins, edges)
      /\ Results(x, Len(names), edges) /\ Results(out, Len(names), edges)
  BY DEF IInv, SolverInv, ResultsInv, RunEnds, Finish
<1>2. x \in Seq(R) /\ r \in R /\ r.E = E /\ r.spins = spins
  BY <1>1 DEF Results
<1> HIDE DEF R, r
<1>3. /\ x' \in Seq(R) /\ Len(x') = Len(x) + 1 /\ x'[Len(x) + 1] = r
      /\ \A k \in 1 .. Len(x) : x'[k] = x[k]
      /\ \A k \in 1 .. (Len(x) + 1) : k \in 1 .. Len(x) \/ k = Len(x) + 1
  BY <1>1, <1>2, AppendProps
<1>4. ASSUME Simple(edges), NEW k \in 1 .. Len(x')
      PROVE  x'[k].E = Energy(x'[k].spins, edges)
  <2>1. CASE k \in 1 .. Len(x)
    BY <1>1, <1>3, <1>4, <2>1 DEF Results
  <2>2. CASE k = Len(x) + 1
    BY <1>1, <1>2, <1>3, <1>4, <2>2
  <2> QED
    BY <1>3, <2>1, <2>2
<1>5. Results(x', Len(names), edges)
  BY <1>3, <1>4 DEF Results, R
<1>6. ResultsInv'
  BY <1>1, <1>5 DEF ResultsInv
<1>7. LoaderInv' /\ StageInv' /\ SolverInv'
  BY <1>1 DEF IInv, LoaderInv, StageInv, SolverInv
<1> QED
  BY <1>6, <1>7 DEF IInv

LEMMA NextKeepsIInv == IInv /\ [Next]_vars => IInv'
<1> SUFFICES ASSUME IInv, [Next]_vars
             PROVE  IInv'
  OBVIOUS
<1>1. CASE Options
  BY <1>1 DEF IInv, LoaderInv, StageInv, SolverInv, ResultsInv, Options, loader, solver
<1>2. CASE LoadHamiltonian
  BY <1>2, LoadKeeps
<1>3. CASE OpenOutput
  BY <1>3 DEF IInv, LoaderInv, StageInv, SolverInv, ResultsInv, OpenOutput, loader, solver
<1>4. CASE Repeat
  BY <1>4, RepeatKeeps
<1>5. CASE Running
  BY <1>5, RunningKeeps
<1>6. CASE RunEnds
  BY <1>6, RunEndsKeeps
<1>7. CASE AllRun
  BY <1>7 DEF IInv, LoaderInv, StageInv, SolverInv, ResultsInv, AllRun, loader, solver
<1>8. CASE Write
  BY <1>8 DEF IInv, LoaderInv, StageInv, SolverInv, ResultsInv, Write, loader, solver
<1>9. CASE UNCHANGED vars
  BY <1>9 DEF IInv, LoaderInv, StageInv, SolverInv, ResultsInv, vars, loader, solver, main
<1> QED
  BY <1>1, <1>2, <1>3, <1>4, <1>5, <1>6, <1>7, <1>8, <1>9 DEF Next, Steps, Terminating

LEMMA IInvHolds == Spec => []IInv
BY InitIInv, NextKeepsIInv, PTL DEF Spec

(***************************************************************************)
(* What follows from it.                                                   *)
(***************************************************************************)
LEMMA KeepsFirst == IInv => KeepsFirstOfEachEdge
<1> SUFFICES ASSUME IInv PROVE KeepsFirstOfEachEdge
  OBVIOUS
<1>1. /\ edges \in Seq(EdgeType(Len(names))) /\ Meaning(file, count, names, edges)
  BY DEF IInv, LoaderInv, Loaded, LoadedTypes
<1> DEFINE name(e) == [k \in DOMAIN e.sites |-> names[e.sites[k]]]
           stored == {[sites |-> Occurrences(name(e)), val |-> e.val] : e \in Range(edges)}
<1>2. Meant = MeantBy(file, count)
  <2>1. \A j : IsEdge(j) <=> EdgeLine(file, j)
    BY DEF IsEdge, EdgeLine
  <2>2. {j \in 1 .. count : /\ IsEdge(j)
                            /\ \A k \in 1 .. (j - 1) : IsEdge(k) =>
                                 Occurrences(file[k].sites) # Occurrences(file[j].sites)}
          = First(file, count)
    BY <2>1 DEF First, IsFirst
  <2> QED
    BY <2>2 DEF Meant, MeantBy, Given
<1>3. stored = {ReadBack(names, edges[k]) : k \in 1 .. Len(edges)}
  <2>1. \A e : ReadBack(names, e) = [sites |-> Occurrences(name(e)), val |-> e.val]
    BY DEF ReadBack, NamesOf
  <2> HIDE DEF name
  <2>2. \A v : v \in Range(edges) <=> \E k \in 1 .. Len(edges) : edges[k] = v
    BY <1>1, InRange
  <2> QED
    BY <2>1, <2>2
<1>4. stored = MeantBy(file, count) /\ Len(edges) = Cardinality(MeantBy(file, count))
  BY <1>1, <1>3 DEF Meaning
<1> QED
  BY <1>2, <1>4 DEF KeepsFirstOfEachEdge

(* The loader keeps what the file means: through numbering, sorting and the removal
   of duplicates, the stored edges are the first of each edge in the file, once
   each, whatever the file is (lines 21-60 of hamiltonian.cpp). *)
THEOREM LoaderKeepsMeaning == Spec => []KeepsFirstOfEachEdge
BY IInvHolds, KeepsFirst, PTL

LEMMA Exact == IInv => AdjacencyExact
<1> SUFFICES ASSUME IInv, loading = "built"
             PROVE  /\ DOMAIN nodes = 1 .. Len(names)
                    /\ \A a \in DOMAIN nodes :
                          /\ nodes[a] # <<>>
                          /\ \A e \in Range(edges) :
                                Cardinality({k \in DOMAIN nodes[a] : nodes[a][k] = e})
                                    = (IF a \in Range(e.sites) THEN 1 ELSE 0)
  BY DEF AdjacencyExact
<1>1. /\ Lists(nodes, edges, Len(edges), Len(names)) /\ Len(names) \in Nat
      /\ edges \in Seq(EdgeType(Len(names))) /\ EdgesInOrder(edges)
      /\ \A a \in 1 .. Len(names) : \E k \in 1 .. Len(edges) : a \in Range(edges[k].sites)
  BY DEF IInv, LoaderInv, Loaded, LoadedTypes, SitesCovered
<1>2. PICK n \in Nat : n = Len(names)
  BY <1>1
<1> QED
  BY <1>1, <1>2, ExactLists

(* Each edge is on the list of each of its sites once, and on no other; every site
   has an edge. *)
THEOREM ListsAreExact == Spec => []AdjacencyExact
BY IInvHolds, Exact, PTL

(* The energy that the file gives a configuration is that of the stored edges. *)
LEMMA FileEnergy ==
  ASSUME IInv, NEW config \in Spins(Len(names))
  PROVE  EnergyInFile(config) = Energy(config, edges)
<1>1. /\ SameEnergy(file, count, names, edges) /\ names \in Seq(Names) /\ Injective(names)
      /\ file \in Seq(LineType) /\ count \in 0 .. Len(file) /\ Len(names) \in Nat
      /\ config \in [1 .. Len(names) -> {0, 1}]
      /\ \A j \in 1 .. count : EdgeLine(file, j) =>
            \A k \in 1 .. Len(file[j].sites) : file[j].sites[k] \in Range(names)
  BY DEF IInv, LoaderInv, Loaded, LoadedTypes, Spins
<1>2. ASSUME NEW j \in 1 .. count
      PROVE  (IF j \in FirstLines THEN Times(config, file[j]) ELSE 0)
               = LineTerms(file, count, names, config)[j]
  <2>1. \A k : IsEdge(k) <=> EdgeLine(file, k)
    BY DEF IsEdge, EdgeLine
  <2>2. j \in First(file, count) => EdgeLine(file, j)
    BY DEF First, IsFirst
  <2>3. EdgeLine(file, j) => file[j].sites \in Seq(Names) /\ file[j].val \in Int
    <3>1. j \in 1 .. Len(file)
      BY <1>1
    <3> QED
      BY <1>1, <3>1, LineIsTyped DEF EdgeLine
  <2>4. j \in FirstLines <=> j \in First(file, count) /\ file[j].sites # <<>>
    BY <2>1 DEF FirstLines, First, IsFirst
  <2>5. j \in FirstLines <=> j \in First(file, count) /\ Len(file[j].sites) # 0
    BY <2>2, <2>3, <2>4
  <2>6. ASSUME EdgeLine(file, j)
        PROVE  Times(config, file[j]) = LineTerm(names, config, file[j])
    <3> DEFINE line == file[j]
    <3>1. line.val \in Int /\ line.sites \in Seq(Names)
      BY <2>3, <2>6
    <3>2. ASSUME NEW k \in 1 .. Len(line.sites)
          PROVE  config[Number(names, line.sites[k])] \in {0, 1}
      <4>1. line.sites[k] \in Range(names)
        BY <1>1, <2>6
      <4>2. Number(names, line.sites[k]) \in 1 .. Len(names)
        BY <1>1, <4>1, NumberIs
      <4> QED
        BY <1>1, <4>2
    <3> HIDE DEF line
    <3>3. Times(config, line) = LineTerm(names, config, line)
      BY <3>1, <3>2, TimesIsLineTerm
    <3> QED
      BY <3>3 DEF line
  <2> QED
    BY <2>2, <2>5, <2>6 DEF LineTerms
<1>3. [j \in 1 .. count |-> IF j \in FirstLines THEN Times(config, file[j]) ELSE 0]
        = LineTerms(file, count, names, config)
  BY <1>2 DEF LineTerms
<1>4. Total(LineTerms(file, count, names, config)) = Total(EdgeTerms(config, edges))
  BY <1>1 DEF SameEnergy
<1> QED
  BY <1>3, <1>4 DEF EnergyInFile, Energy

LEMMA EnergyIsOfFile == IInv => EnergyOfFile
<1> SUFFICES ASSUME IInv, \A j \in 1 .. count : IsEdge(j) => IsInjective(file[j].sites)
             PROVE  /\ pc = "anneal" => E = EnergyInFile(spins)
                    /\ \A r \in Range(x \o out) : r.E = EnergyInFile(r.spins)
  BY DEF EnergyOfFile
<1>1. /\ ComeFromLines(file, count, edges)
      /\ file \in Seq(LineType) /\ count \in 0 .. Len(file)
  BY DEF IInv, LoaderInv, Loaded, LoadedTypes
<1>2. Simple(edges)
  <2> SUFFICES ASSUME NEW k \in 1 .. Len(edges)
               PROVE  Injective(edges[k].sites)
    BY DEF Simple
  <2>1. PICK j \in 1 .. count :
          /\ EdgeLine(file, j)
          /\ Injective(file[j].sites) => Injective(edges[k].sites)
    BY <1>1 DEF ComeFromLines
  <2>2. IsInjective(file[j].sites)
    BY <2>1 DEF IsEdge, EdgeLine
  <2>3. j \in 1 .. Len(file)
    BY <1>1
  <2>4. file[j].sites \in Seq(Names)
    BY <1>1, <2>1, <2>3, LineIsTyped DEF EdgeLine
  <2>5. Injective(file[j].sites)
    BY <2>2, <2>4 DEF IsInjective, Injective
  <2> QED
    BY <2>1, <2>5
<1>3. ASSUME pc = "anneal"
      PROVE  E = EnergyInFile(spins)
  <2>1. spins \in Spins(Len(names)) /\ E = Energy(spins, edges)
    BY <1>2, <1>3 DEF IInv, SolverInv
  <2> QED
    BY <2>1, FileEnergy
<1>4. ASSUME NEW q, Results(q, Len(names), edges), NEW k \in 1 .. Len(q)
      PROVE  q[k].E = EnergyInFile(q[k].spins)
  <2>1. q[k].spins \in Spins(Len(names)) /\ q[k].E = Energy(q[k].spins, edges)
    <3> DEFINE R == [E : Int, spins : Spins(Len(names))]
    <3>1. q \in Seq(R)
      BY <1>4 DEF Results
    <3>2. q[k] \in R
      <4> HIDE DEF R
      <4> QED
        BY <1>4, <3>1
    <3>3. q[k].E = Energy(q[k].spins, edges)
      BY <1>2, <1>4 DEF Results
    <3> QED
      BY <3>2, <3>3
  <2> QED
    BY <2>1, FileEnergy
<1>5. ASSUME NEW r \in Range(x \o out)
      PROVE  r.E = EnergyInFile(r.spins)
  <2> DEFINE R == [E : Int, spins : Spins(Len(names))]
  <2>1. Results(x, Len(names), edges) /\ Results(out, Len(names), edges)
    BY DEF IInv, ResultsInv
  <2>2. x \in Seq(R) /\ out \in Seq(R)
    BY <2>1 DEF Results
  <2> HIDE DEF R
  <2>3. x \o out \in Seq(R) /\ Len(x \o out) = Len(x) + Len(out)
        /\ Len(x) \in Nat /\ Len(out) \in Nat
    BY <2>2
  <2>4. PICK k \in 1 .. Len(x \o out) : (x \o out)[k] = r
    BY <2>3, InRange
  <2>5. CASE k \in 1 .. Len(x)
    <3>1. r = x[k]
      BY <2>2, <2>4, <2>5
    <3> QED
      BY <1>4, <2>1, <2>5, <3>1
  <2>6. CASE k \notin 1 .. Len(x)
    <3>1. k - Len(x) \in 1 .. Len(out) /\ r = out[k - Len(x)]
      BY <2>2, <2>3, <2>4, <2>6
    <3> QED
      BY <1>4, <2>1, <3>1
  <2> QED
    BY <2>5, <2>6
<1> QED
  BY <1>3, <1>5

(* Unless a line names a site twice, the energy that is kept flip by flip is at every
   step the one that the file gives the spins, and each result has the energy of its
   own spins: compute_energy divides exactly, delta_energy is the difference of two
   energies, and no step between the lines of the file and the result loses a term. *)
THEOREM EnergyIsThatOfFile == Spec => []EnergyOfFile
BY IInvHolds, EnergyIsOfFile, PTL

(* One result for every repetition that is over. *)
CountInv ==
    /\ rep = Len(x)
    /\ stage \in {"options", "load"} => ~ opened
    /\ stage = "write" => rep = NumReps
    /\ stage = "returned" /\ opened => Len(out) = NumReps

LEMMA CountHolds == Spec => []CountInv
<1>1. Init => CountInv
  BY DEF Init, CountInv
<1>2. IInv /\ CountInv /\ [Next]_vars => CountInv'
  <2> SUFFICES ASSUME IInv, CountInv, [Next]_vars
               PROVE  CountInv'
    OBVIOUS
  <2> USE DEF CountInv
  <2>1. CASE Options
    BY <2>1 DEF Options
  <2>2. CASE LoadHamiltonian
    BY <2>2 DEF LoadHamiltonian, main
  <2>3. CASE OpenOutput
    BY <2>3 DEF OpenOutput
  <2>4. CASE Repeat
    BY <2>4 DEF Repeat, main
  <2>5. CASE Running
    BY <2>5 DEF Running, main
  <2>6. CASE RunEnds
    <3> DEFINE R == [E : Int, spins : Spins(Len(names))]
               r == [E |-> E, spins |-> spins]
    <3>1. /\ stage = "solve" /\ pc = "anneal" /\ x' = Append(x, r) /\ rep' = rep + 1
          /\ UNCHANGED <<stage, out, opened>>
      BY <2>6 DEF RunEnds, Finish
    <3>2. x \in Seq(R) /\ r \in R
      BY <3>1 DEF IInv, SolverInv, ResultsInv, Results
    <3> HIDE DEF R, r
    <3>3. Len(x') = Len(x) + 1
      BY <3>1, <3>2, AppendProps
    <3> QED
      BY <3>1, <3>3
  <2>7. CASE AllRun
    BY <2>7 DEF AllRun
  <2>8. CASE Write
    BY <2>8 DEF Write
  <2>9. CASE UNCHANGED vars
    BY <2>9 DEF vars, main
  <2> QED
    BY <2>1, <2>2, <2>3, <2>4, <2>5, <2>6, <2>7, <2>8, <2>9 DEF Next, Steps, Terminating
<1> QED
  BY <1>1, <1>2, IInvHolds, PTL DEF Spec

(* When the program returns and the output was open, every repetition has its line,
   with one spin for every site: what PrintsEveryRepetition says once the program
   has ended.  That it ends is left to the run. *)
THEOREM OutputIsComplete == Spec => []Complete
<1>1. IInv /\ CountInv => Complete
  <2> SUFFICES ASSUME IInv, CountInv, stage = "returned", opened
               PROVE  Len(out) = NumReps /\ \A r \in Range(out) : Len(r.spins) = Len(names)
    BY DEF Complete
  <2>1. Len(out) = NumReps
    BY DEF CountInv
  <2>2. ASSUME NEW r \in Range(out)
        PROVE  Len(r.spins) = Len(names)
    <3> DEFINE R == [E : Int, spins : Spins(Len(names))]
    <3>1. out \in Seq(R) /\ Len(names) \in Nat
      BY DEF IInv, ResultsInv, Results, LoaderInv, Loaded, LoadedTypes
    <3>2. r \in R
      <4> HIDE DEF R
      <4> QED
        BY <3>1 DEF Range
    <3>3. r.spins \in [1 .. Len(names) -> {0, 1}]
      BY <3>2 DEF Spins
    <3> QED
      BY <3>1, <3>3, FiniteSeq
  <2> QED
    BY <2>1, <2>2
<1> QED
  BY <1>1, IInvHolds, CountHolds, PTL

=============================================================================
