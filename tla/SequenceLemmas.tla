---------------------------- MODULE SequenceLemmas ----------------------------
(***************************************************************************)
(* What the proofs of several components need of sequences and finite      *)
(* sets: least elements, which stand in for induction, sorting by rank,    *)
(* and what the library's folding and flattening of sequences gives; and   *)
(* of the powers of two, by which delays grow.                             *)
(***************************************************************************)
EXTENDS PowersOfTwo, SequencesExt, FiniteSetTheorems, WellFoundedInduction, SequenceTheorems,
        TLAPS

(***************************************************************************)
(* Sequences, and least and greatest elements.                             *)
(***************************************************************************)
\* A function on 1..n is a sequence, and a sequence such a function.
LEMMA SequenceOf ==
    ASSUME NEW R, NEW n \in Nat, NEW f \in [1..n -> R]
    PROVE  f \in Seq(R) /\ Len(f) = n
OBVIOUS

\* A sequence is a function on its positions.
LEMMA FunctionOf ==
    ASSUME NEW R, NEW s \in Seq(R)
    PROVE  s \in [1..Len(s) -> R] /\ Len(s) \in Nat
OBVIOUS

\* An appended sequence keeps its elements and ranges over its own range.
LEMMA AppendKeeps ==
    ASSUME NEW s, s \in Seq(Range(s)), NEW e
    PROVE  /\ Append(s, e) \in Seq(Range(Append(s, e)))
           /\ DOMAIN s = 1..Len(s)
           /\ Len(s) \in Nat
           /\ DOMAIN Append(s, e) = 1..Len(s) + 1
           /\ Len(Append(s, e)) = Len(s) + 1
           /\ \A i \in DOMAIN s : Append(s, e)[i] = s[i]
           /\ Append(s, e)[Len(s) + 1] = e
<1> DEFINE T == Range(s) \cup {e}
           n == Len(s) + 1
<1>1. s \in Seq(T)
  BY DEF Range
<1>2. Append(s, e) \in Seq(T) /\ Len(Append(s, e)) = Len(s) + 1 /\ Len(s) \in Nat
  BY <1>1
<1>3. /\ DOMAIN s = 1..Len(s)
      /\ DOMAIN Append(s, e) = 1..Len(s) + 1
      /\ \A i \in 1..Len(s) : Append(s, e)[i] = s[i]
      /\ Append(s, e)[Len(s) + 1] = e
  BY <1>1, <1>2
<1>4. n \in Nat /\ Append(s, e) \in [1..n -> T]
  BY <1>2, FunctionOf
<1>5. Append(s, e) \in [1..n -> Range(Append(s, e))]
  BY <1>4 DEF Range
<1>6. Append(s, e) \in Seq(Range(Append(s, e)))
  BY <1>4, <1>5, SequenceOf
<1> QED
  BY <1>2, <1>3, <1>6

\* A set of naturals that is not empty has a least element: of the finite sets
\* of what lies below each of its members one is minimal.
LEMMA LeastElement ==
    ASSUME NEW S, S \subseteq Nat, S # {}
    PROVE  \E x \in S : \A y \in S : x <= y
<1> DEFINE Below(x) == {y \in S : y < x}
           D == {Below(x) : x \in S}
<1>1. D \subseteq FiniteSubsetsOf(Nat)
  <2>1. ASSUME NEW x \in S PROVE IsFiniteSet(Below(x)) /\ Below(x) \in SUBSET Nat
    <3>1. x \in Nat /\ Below(x) \in SUBSET Nat
      OBVIOUS
    <3>2. \A y \in Below(x) : y <= x
      BY <3>1
    <3>3. IsFiniteSet(Below(x))
      BY <3>1, <3>2, FS_BoundedSetOfNaturals
    <3> QED
      BY <3>1, <3>3
  <2> QED
    BY <2>1 DEF FiniteSubsetsOf
<1>2. D # {}
  OBVIOUS
<1>3. PICK d \in D : \A e \in D : <<e, d>> \notin StrictSubsetOrdering(Nat)
  <2>1. IsWellFoundedOn(StrictSubsetOrdering(Nat), FiniteSubsetsOf(Nat))
    BY FS_StrictSubsetOrderingWellFounded
  <2> QED
    BY <1>1, <1>2, <2>1, WFMin
<1>4. PICK x \in S : d = Below(x)
  OBVIOUS
<1>5. ASSUME NEW y \in S, ~(x <= y) PROVE FALSE
  <2>1. x \in Nat /\ y \in Nat /\ y < x
    BY <1>5
  <2>2. y \in Below(x) /\ y \notin Below(y)
    BY <2>1
  <2>3. \A z \in Below(y) : z \in Below(x)
    BY <2>1
  <2>4. Below(x) \in SUBSET Nat /\ Below(y) \in SUBSET Nat
    OBVIOUS
  <2>5. <<Below(y), d>> \in StrictSubsetOrdering(Nat)
    BY <1>4, <2>2, <2>3, <2>4 DEF StrictSubsetOrdering
  <2> QED
    BY <1>3, <2>5
<1> QED
  BY <1>5

\* A bounded set of naturals that is not empty has a greatest element.
LEMMA GreatestElement ==
    ASSUME NEW S, NEW n \in Nat, S \subseteq 0..n, S # {}
    PROVE  Max(S) \in S /\ \A y \in S : y <= Max(S)
<1> DEFINE T == {z \in 0..n : n - z \in S}
<1>1. T \subseteq Nat /\ T # {}
  <2>1. PICK y \in S : TRUE
    OBVIOUS
  <2>2. y \in Nat /\ y <= n /\ n - y \in 0..n /\ n - (n - y) = y
    OBVIOUS
  <2>3. n - y \in T
    BY <2>2
  <2>4. T \subseteq Nat
    OBVIOUS
  <2> QED
    BY <2>3, <2>4
<1>2. PICK t \in T : \A u \in T : t <= u
  BY <1>1, LeastElement
<1>3. n - t \in S
  OBVIOUS
<1>4. ASSUME NEW y \in S PROVE n - t >= y
  <2>1. y \in Nat /\ y <= n /\ n - y \in 0..n /\ n - (n - y) = y
    OBVIOUS
  <2>2. n - y \in T
    BY <2>1
  <2>3. t <= n - y /\ t \in Nat
    BY <1>2, <2>2
  <2> QED
    BY <2>1, <2>3
<1>5. /\ Max(S) \in S
      /\ \A y \in S : Max(S) >= y
  BY <1>3, <1>4 DEF Max
<1>6. \A y \in S : y <= Max(S)
  BY <1>5
<1> QED
  BY <1>5, <1>6

(***************************************************************************)
(* Sorting.  A finite set has a strict total order R; the element of rank  *)
(* k, the number of elements before it, is the one Sorted puts at k + 1.   *)
(***************************************************************************)
StrictlyOrders(R, X) ==
    /\ \A x \in X : <<x, x>> \notin R
    /\ \A x, y, z \in X : <<x, y>> \in R /\ <<y, z>> \in R => <<x, z>> \in R
    /\ \A x, y \in X : x # y => <<x, y>> \in R \/ <<y, x>> \in R

Rank(R, X) == [x \in X |-> Cardinality({y \in X : <<y, x>> \in R})]

Ranked(R, X) ==
    [k \in 1..Cardinality(X) |->
       CHOOSE x \in X : Cardinality({y \in X : <<y, x>> \in R}) = k - 1]

\* Ranks grow with the order and leave no number out.
LEMMA RanksCount ==
    ASSUME NEW X, IsFiniteSet(X), NEW R, StrictlyOrders(R, X)
    PROVE  /\ Cardinality(X) \in Nat
           /\ \A x, y \in X : <<x, y>> \in R => Rank(R, X)[x] < Rank(R, X)[y]
           /\ Rank(R, X) \in [X -> 0..(Cardinality(X) - 1)]
           /\ \A x, y \in X : Rank(R, X)[x] = Rank(R, X)[y] => x = y
           /\ \A k \in 0..(Cardinality(X) - 1) : \E x \in X : Rank(R, X)[x] = k
<1> DEFINE Before(x) == {y \in X : <<y, x>> \in R}
           rank == Rank(R, X)
           n == Cardinality(X)
<1>1. n \in Nat
  BY FS_CardinalityType
<1>2. \A x \in X : IsFiniteSet(Before(x)) /\ Cardinality(Before(x)) \in Nat
  <2> TAKE x \in X
  <2>1. Before(x) \in SUBSET X
    OBVIOUS
  <2>2. IsFiniteSet(Before(x))
    BY <2>1, FS_Subset
  <2> QED
    BY <2>2, FS_CardinalityType
<1>3. \A x \in X : rank[x] = Cardinality(Before(x))
  BY DEF Rank
<1>4. \A x, y \in X : <<x, y>> \in R => rank[x] < rank[y]
  <2> SUFFICES ASSUME NEW x \in X, NEW y \in X, <<x, y>> \in R PROVE rank[x] < rank[y]
    OBVIOUS
  <2>1. Before(x) \in SUBSET Before(y) /\ x \in Before(y) /\ x \notin Before(x)
    BY DEF StrictlyOrders
  <2>2. Cardinality(Before(x)) <= Cardinality(Before(y))
        /\ (Cardinality(Before(y)) = Cardinality(Before(x)) => Before(y) = Before(x))
    BY <1>2, <2>1, FS_Subset
  <2>3. Cardinality(Before(x)) # Cardinality(Before(y))
    BY <2>1, <2>2
  <2>4. /\ rank[x] = Cardinality(Before(x)) /\ rank[y] = Cardinality(Before(y))
        /\ Cardinality(Before(x)) \in Nat /\ Cardinality(Before(y)) \in Nat
    BY <1>2, <1>3
  <2> HIDE DEF Before, rank
  <2> QED
    BY <2>2, <2>3, <2>4
<1>5. ASSUME NEW x \in X PROVE rank[x] \in 0..(n - 1)
  <2>1. Before(x) \in SUBSET X /\ x \notin Before(x)
    BY DEF StrictlyOrders
  <2>2. Cardinality(Before(x)) <= n /\ (n = Cardinality(Before(x)) => X = Before(x))
    BY <2>1, FS_Subset
  <2>3. Cardinality(Before(x)) # n
    BY <2>1, <2>2
  <2>4. rank[x] = Cardinality(Before(x)) /\ Cardinality(Before(x)) \in Nat
    BY <1>2, <1>3
  <2> HIDE DEF Before, rank, n
  <2> QED
    BY <1>1, <2>2, <2>3, <2>4
<1>6. \A x, y \in X : rank[x] = rank[y] => x = y
  <2> SUFFICES ASSUME NEW x \in X, NEW y \in X, rank[x] = rank[y], x # y PROVE FALSE
    OBVIOUS
  <2>1. rank[x] < rank[y] \/ rank[y] < rank[x]
    BY <1>4 DEF StrictlyOrders
  <2>2. rank[x] \in Nat /\ rank[y] \in Nat
    BY <1>2, <1>3
  <2> QED
    BY <2>1, <2>2
<1>7. rank \in [X -> 0..(n - 1)]
  <2>1. rank = [x \in X |-> rank[x]]
    BY DEF Rank
  <2> HIDE DEF rank
  <2> QED
    BY <1>5, <2>1
<1>8. \A k \in 0..(n - 1) : \E x \in X : rank[x] = k
  <2>1. rank \in Injection(X, 0..(n - 1))
    BY <1>6, <1>7 DEF Injection, IsInjective
  <2>2. IsFiniteSet(0..(n - 1)) /\ Cardinality(0..(n - 1)) = n
    <3>1. /\ IsFiniteSet(0..(n - 1))
          /\ Cardinality(0..(n - 1)) = IF 0 > n - 1 THEN 0 ELSE n - 1 - 0 + 1
      BY <1>1, FS_Interval
    <3> QED
      BY <1>1, <3>1
  <2>3. rank \in Surjection(X, 0..(n - 1))
    BY <2>1, <2>2, FS_Injection
  <2> QED
    BY <2>3 DEF Surjection
<1> QED
  BY <1>1, <1>4, <1>6, <1>7, <1>8

\* What Sorted makes of a set has its elements by rank.
LEMMA SortedByRank ==
    ASSUME NEW X, IsFiniteSet(X), NEW R, StrictlyOrders(R, X), NEW s,
           s = Ranked(R, X)
    PROVE  /\ s \in [1..Cardinality(X) -> X]
           /\ \A k \in 1..Cardinality(X) : Rank(R, X)[s[k]] = k - 1
<1> DEFINE n == Cardinality(X)
           member(k) == CHOOSE x \in X : Cardinality({y \in X : <<y, x>> \in R}) = k - 1
<1>1. ASSUME NEW k \in 1..n PROVE member(k) \in X /\ Rank(R, X)[member(k)] = k - 1
  <2>1. k - 1 \in 0..(n - 1)
    BY FS_CardinalityType
  <2>2. PICK x \in X : Rank(R, X)[x] = k - 1
    BY <2>1, RanksCount
  <2>3. Cardinality({y \in X : <<y, x>> \in R}) = k - 1
    BY <2>2 DEF Rank
  <2>4. /\ member(k) \in X
        /\ Cardinality({y \in X : <<y, member(k)>> \in R}) = k - 1
    BY <2>3
  <2> HIDE DEF member
  <2> QED
    BY <2>4 DEF Rank
<1>2. s = [k \in 1..n |-> member(k)]
  BY DEF Ranked
<1> HIDE DEF member, n
<1>3. s \in [1..n -> X] /\ \A k \in 1..n : Rank(R, X)[s[k]] = k - 1
  BY <1>1, <1>2
<1> QED
  BY <1>3 DEF n

\* It ascends and leaves none out.
LEMMA RankedAscends ==
    ASSUME NEW X, IsFiniteSet(X), NEW R, StrictlyOrders(R, X), NEW s, s = Ranked(R, X)
    PROVE  /\ s \in Seq(X)
           /\ Len(s) = Cardinality(X)
           /\ \A j, k \in DOMAIN s : j < k => <<s[j], s[k]>> \in R
           /\ \A x \in X : \E k \in DOMAIN s : s[k] = x
<1> DEFINE n == Cardinality(X)
           rank == Rank(R, X)
<1>1. /\ n \in Nat
      /\ rank \in [X -> 0..(n - 1)]
      /\ \A x, y \in X : <<x, y>> \in R => rank[x] < rank[y]
      /\ \A x, y \in X : rank[x] = rank[y] => x = y
  BY RanksCount
<1>1a. s \in [1..n -> X] /\ \A k \in 1..n : rank[s[k]] = k - 1
  BY SortedByRank
<1>2. \A k \in 1..n : s[k] \in X /\ rank[s[k]] = k - 1
  BY <1>1a
<1>3. DOMAIN s = 1..n
  BY <1>1a
<1>4. s \in Seq(X) /\ Len(s) = n
  BY <1>1, <1>1a, SequenceOf
<1> HIDE DEF rank, n
<1>5. ASSUME NEW j \in 1..n, NEW k \in 1..n, j < k PROVE <<s[j], s[k]>> \in R
  <2>1. /\ s[j] \in X /\ s[k] \in X
        /\ rank[s[j]] = j - 1 /\ rank[s[k]] = k - 1
    BY <1>2
  <2>2. ~(rank[s[k]] < rank[s[j]]) /\ rank[s[j]] # rank[s[k]]
    BY <1>1, <1>5, <2>1
  <2>3. <<s[j], s[k]>> \in R \/ <<s[k], s[j]>> \in R
    BY <2>1, <2>2 DEF StrictlyOrders
  <2> QED
    BY <1>1, <2>1, <2>2, <2>3
<1>6. ASSUME NEW x \in X PROVE \E k \in 1..n : s[k] = x
  <2>1. PICK r \in 0..(n - 1) : r = rank[x]
    BY <1>1
  <2>2. PICK k \in 1..n : k - 1 = r
    <3>1. r + 1 \in 1..n /\ r + 1 - 1 = r
      BY <1>1
    <3> QED
      BY <3>1
  <2>3. s[k] \in X /\ rank[s[k]] = rank[x]
    BY <1>2, <2>1, <2>2
  <2> QED
    BY <1>1, <2>3
<1> QED
  BY <1>3, <1>4, <1>5, <1>6 DEF n

(***************************************************************************)
(* FlattenSeq.  It is a recursive function of the library: that there is   *)
(* one, and what it gives, is shown for the least n where it would fail.   *)
(***************************************************************************)
FlattensUpTo(f, seqs, n) ==
    f = [i \in 1..n |-> IF i = 1 THEN seqs[i] ELSE f[i - 1] \o seqs[i]]

Flattening(seqs) == CHOOSE f : FlattensUpTo(f, seqs, Len(seqs))

\* The recursion of FlattenSeq, named.
LEMMA FlattenIs ==
    \A seqs : Len(seqs) # 0 => FlattenSeq(seqs) = Flattening(seqs)[Len(seqs)]
BY DEF FlattenSeq, Flattening, FlattensUpTo

\* The recursion has a solution, for every length.
LEMMA FlatteningExists ==
    ASSUME NEW seqs, NEW n \in Nat
    PROVE  \E f : FlattensUpTo(f, seqs, n)
<1> DEFINE Bad == {m \in Nat : ~\E f : FlattensUpTo(f, seqs, m)}
<1>1. SUFFICES ASSUME Bad # {} PROVE FALSE
  OBVIOUS
<1>2. PICK m \in Bad : \A k \in Bad : m <= k
  <2>1. Bad \subseteq Nat
    OBVIOUS
  <2> HIDE DEF Bad
  <2> QED
    BY <1>1, <2>1, LeastElement
<1>3. m \in Nat /\ ~\E f : FlattensUpTo(f, seqs, m)
  OBVIOUS
<1>4. CASE m = 0
  <2> DEFINE f == [i \in 1..0 |-> seqs[i]]
  <2>1. f = [i \in 1..0 |-> IF i = 1 THEN seqs[i] ELSE f[i - 1] \o seqs[i]]
    <3>1. \A i : i \notin 1..0
      OBVIOUS
    <3> QED
      BY <3>1
  <2> QED
    BY <1>3, <1>4, <2>1 DEF FlattensUpTo
<1>5. CASE m # 0
  <2>1. m - 1 \in Nat /\ ~(m <= m - 1)
    BY <1>3, <1>5
  <2>2. PICK g : FlattensUpTo(g, seqs, m - 1)
    BY <1>2, <2>1
  <2> DEFINE f == [i \in 1..m |->
                     IF i = m THEN IF m = 1 THEN seqs[m] ELSE g[m - 1] \o seqs[m]
                     ELSE g[i]]
             step(i) == IF i = 1 THEN seqs[i] ELSE f[i - 1] \o seqs[i]
  <2>3. ASSUME NEW i \in 1..m PROVE f[i] = step(i)
    <3>1. CASE i = m
      <4>1. m = 1 \/ (m - 1 \in 1..m /\ m - 1 # m)
        BY <1>3, <1>5
      <4>2. m # 1 => f[m - 1] = g[m - 1]
        BY <4>1
      <4> QED
        BY <3>1, <4>2
    <3>2. CASE i # m
      <4>1. i \in 1..(m - 1) /\ (i = 1 \/ (i - 1 \in 1..m /\ i - 1 # m))
        BY <1>3, <3>2
      <4>2. g[i] = IF i = 1 THEN seqs[i] ELSE g[i - 1] \o seqs[i]
        BY <2>2, <4>1, Zenon DEF FlattensUpTo
      <4>3. f[i] = g[i] /\ (i # 1 => f[i - 1] = g[i - 1])
        BY <3>2, <4>1
      <4> QED
        BY <4>2, <4>3
    <3> QED
      BY <3>1, <3>2
  <2>4. f = [i \in 1..m |-> f[i]]
    OBVIOUS
  <2> HIDE DEF f
  <2>5. f = [i \in 1..m |-> step(i)]
    BY <2>3, <2>4
  <2> QED
    BY <1>3, <2>5 DEF FlattensUpTo
<1> QED
  BY <1>4, <1>5

\* So the recursion holds, one sequence at a time.
LEMMA FlatteningIs ==
    ASSUME NEW seqs, Len(seqs) \in Nat, NEW i \in 1..Len(seqs)
    PROVE  Flattening(seqs)[i] =
             IF i = 1 THEN seqs[i] ELSE Flattening(seqs)[i - 1] \o seqs[i]
<1>1. FlattensUpTo(Flattening(seqs), seqs, Len(seqs))
  BY FlatteningExists DEF Flattening
<1> QED
  BY <1>1, Zenon DEF FlattensUpTo

\* Where the elements of the first n sequences come from: from one of them each,
\* and a later element from no earlier one.
ComesFrom(flat, seqs, n) ==
    \E from \in [1..Len(flat) -> 1..n] :
        /\ \A p \in 1..Len(flat) : \E k \in DOMAIN seqs[from[p]] : flat[p] = seqs[from[p]][k]
        /\ \A p, q \in 1..Len(flat) : p <= q => from[p] <= from[q]

\* One sequence more.
LEMMA OneMore ==
    ASSUME NEW X, NEW seqs, NEW n \in Nat, NEW flat \in Seq(X), ComesFrom(flat, seqs, n),
           NEW last \in Seq(X), last = seqs[n + 1], NEW all, all = flat \o last
    PROVE  all \in Seq(X) /\ ComesFrom(all, seqs, n + 1)
<1>1. PICK from \in [1..Len(flat) -> 1..n] :
        /\ \A p \in 1..Len(flat) : \E k \in DOMAIN seqs[from[p]] : flat[p] = seqs[from[p]][k]
        /\ \A p, q \in 1..Len(flat) : p <= q => from[p] <= from[q]
  BY DEF ComesFrom
<1> DEFINE more == [p \in 1..Len(all) |-> IF p <= Len(flat) THEN from[p] ELSE n + 1]
<1>2. /\ all \in Seq(X) /\ Len(all) = Len(flat) + Len(last)
      /\ Len(flat) \in Nat /\ Len(last) \in Nat
      /\ DOMAIN last = 1..Len(last)
      /\ \A p \in 1..Len(all) :
            all[p] = IF p <= Len(flat) THEN flat[p] ELSE last[p - Len(flat)]
  OBVIOUS
<1>3. ASSUME NEW p \in 1..Len(all), p <= Len(flat)
      PROVE  p \in 1..Len(flat) /\ more[p] = from[p] /\ more[p] \in 1..n
  <2>1. p \in 1..Len(flat)
    BY <1>2, <1>3
  <2> QED
    BY <1>3, <2>1
<1>4. ASSUME NEW p \in 1..Len(all), ~(p <= Len(flat))
      PROVE  more[p] = n + 1 /\ p - Len(flat) \in DOMAIN last
  <2>1. p - Len(flat) \in 1..Len(last)
    BY <1>2, <1>4
  <2> QED
    BY <1>2, <1>4, <2>1
<1>5. more = [p \in 1..Len(all) |-> more[p]]
  OBVIOUS
<1> HIDE DEF more
<1>6. ASSUME NEW p \in 1..Len(all) PROVE more[p] \in 1..n + 1
  <2>1. CASE p <= Len(flat)
    <3>1. more[p] \in 1..n
      BY <1>3, <2>1
    <3> QED
      BY <3>1
  <2>2. CASE ~(p <= Len(flat))
    <3>1. more[p] = n + 1
      BY <1>4, <2>2
    <3> QED
      BY <3>1
  <2> QED
    BY <2>1, <2>2
<1>7. more \in [1..Len(all) -> 1..n + 1]
  BY <1>5, <1>6
<1>8. ASSUME NEW p \in 1..Len(all)
      PROVE  \E k \in DOMAIN seqs[more[p]] : all[p] = seqs[more[p]][k]
  <2>1. CASE p <= Len(flat)
    BY <1>1, <1>2, <1>3, <2>1
  <2>2. CASE ~(p <= Len(flat))
    BY <1>2, <1>4, <2>2
  <2> QED
    BY <2>1, <2>2
<1>9. ASSUME NEW p \in 1..Len(all), NEW q \in 1..Len(all), p <= q
      PROVE  more[p] <= more[q]
  <2>1. CASE q <= Len(flat)
    <3>1. p <= Len(flat)
      BY <1>2, <1>9, <2>1
    <3> QED
      BY <1>1, <1>3, <1>9, <2>1, <3>1
  <2>2. CASE ~(q <= Len(flat))
    <3>1. more[p] \in 1..n + 1 /\ more[q] = n + 1
      BY <1>4, <1>6, <2>2
    <3> QED
      BY <3>1
  <2> QED
    BY <2>1, <2>2
<1> QED
  BY <1>2, <1>7, <1>8, <1>9 DEF ComesFrom

\* What flattening a sequence of sequences gives.
LEMMA FlattenSpreads ==
    ASSUME NEW X, NEW seqs \in Seq(Seq(X))
    PROVE  FlattenSeq(seqs) \in Seq(X) /\ ComesFrom(FlattenSeq(seqs), seqs, Len(seqs))
<1>1. Len(seqs) \in Nat /\ \A i \in 1..Len(seqs) : seqs[i] \in Seq(X)
  OBVIOUS
<1>2. CASE Len(seqs) = 0
  <2>1. FlattenSeq(seqs) = seqs /\ seqs = <<>>
    BY <1>2 DEF FlattenSeq
  <2>2. ComesFrom(<<>>, seqs, 0)
    <3> DEFINE from == [p \in 1..0 |-> p]
    <3>1. /\ Len(<<>>) = 0
          /\ \A p : p \notin 1..0
      OBVIOUS
    <3>2. from \in [1..0 -> 1..0]
      BY <3>1
    <3> QED
      BY <3>1, <3>2 DEF ComesFrom
  <2> QED
    BY <1>2, <2>1, <2>2
<1>3. CASE Len(seqs) # 0
  <2> DEFINE Good(n) == Flattening(seqs)[n] \in Seq(X)
                        /\ ComesFrom(Flattening(seqs)[n], seqs, n)
             Bad == {n \in 1..Len(seqs) : ~Good(n)}
  <2>1. ASSUME Bad # {} PROVE FALSE
    <3>1. PICK n \in Bad : \A k \in Bad : n <= k
      <4>1. Bad \subseteq Nat
        OBVIOUS
      <4> HIDE DEF Bad
      <4> QED
        BY <2>1, <4>1, LeastElement
    <3>2. n \in 1..Len(seqs) /\ ~Good(n)
      OBVIOUS
    <3>3. Flattening(seqs)[n] =
            IF n = 1 THEN seqs[n] ELSE Flattening(seqs)[n - 1] \o seqs[n]
      BY <1>1, <3>2, FlatteningIs
    <3>4. CASE n = 1
      <4>1. PICK flat : flat = Flattening(seqs)[1]
        OBVIOUS
      <4>2. flat = seqs[1] /\ flat \in Seq(X)
        BY <1>1, <3>2, <3>3, <3>4, <4>1
      <4>3. ComesFrom(flat, seqs, 1)
        <5> DEFINE from == [p \in 1..Len(flat) |-> 1]
        <5>1. from \in [1..Len(flat) -> 1..1] /\ \A p \in 1..Len(flat) : from[p] = 1
          OBVIOUS
        <5>2. DOMAIN flat = 1..Len(flat)
          BY <4>2
        <5> HIDE DEF from
        <5>3. ASSUME NEW p \in 1..Len(flat)
              PROVE  \E k \in DOMAIN seqs[from[p]] : flat[p] = seqs[from[p]][k]
          <6>1. seqs[from[p]] = flat /\ p \in DOMAIN flat
            BY <4>2, <5>1, <5>2
          <6> QED
            BY <6>1
        <5>4. \A p, q \in 1..Len(flat) : p <= q => from[p] <= from[q]
          BY <5>1
        <5> QED
          BY <5>1, <5>3, <5>4 DEF ComesFrom
      <4> QED
        BY <3>2, <3>4, <4>1, <4>2, <4>3
    <3>5. CASE n # 1
      <4>1. PICK m \in 1..Len(seqs) : m = n - 1
        BY <1>1, <3>2, <3>5
      <4>2. ~(n <= m) /\ n = m + 1 /\ m \in Nat
        BY <1>1, <3>2, <4>1
      <4>3. Good(m)
        BY <3>1, <4>2
      <4>4. PICK flat : flat = Flattening(seqs)[m]
        OBVIOUS
      <4>5. PICK last : last = seqs[m + 1]
        OBVIOUS
      <4>6. flat \in Seq(X) /\ ComesFrom(flat, seqs, m) /\ last \in Seq(X)
        BY <1>1, <3>2, <4>2, <4>3, <4>4, <4>5
      <4>7. PICK all : all = flat \o last
        OBVIOUS
      <4>8. all \in Seq(X) /\ ComesFrom(all, seqs, m + 1)
        BY <4>2, <4>5, <4>6, <4>7, OneMore
      <4>9. Flattening(seqs)[n] = all
        BY <3>3, <3>5, <4>1, <4>2, <4>4, <4>5, <4>7
      <4> QED
        BY <3>2, <4>2, <4>8, <4>9
    <3> QED
      BY <3>4, <3>5
  <2>2. Len(seqs) \in 1..Len(seqs)
    BY <1>1, <1>3
  <2>3. Good(Len(seqs))
    BY <2>1, <2>2
  <2> QED
    BY <1>3, <2>3, FlattenIs
<1> QED
  BY <1>2, <1>3

\* Flattening loses nothing.
LEMMA FlattenHolds ==
    ASSUME NEW X, NEW seqs \in Seq(Seq(X)), NEW j \in 1..Len(seqs), NEW x \in 1..Len(seqs[j])
    PROVE  \E p \in 1..Len(FlattenSeq(seqs)) : FlattenSeq(seqs)[p] = seqs[j][x]
<1> DEFINE Holds(flat, n) ==
             /\ flat \in Seq(X)
             /\ \A i \in 1..n : \A k \in 1..Len(seqs[i]) :
                   \E p \in 1..Len(flat) : flat[p] = seqs[i][k]
           Bad == {n \in 1..Len(seqs) : ~Holds(Flattening(seqs)[n], n)}
<1>1. Len(seqs) \in Nat /\ \A i \in 1..Len(seqs) : seqs[i] \in Seq(X)
  OBVIOUS
<1>2. ASSUME Bad # {} PROVE FALSE
  <2>1. PICK n \in Bad : \A k \in Bad : n <= k
    <3>1. Bad \subseteq Nat
      OBVIOUS
    <3> HIDE DEF Bad
    <3> QED
      BY <1>2, <3>1, LeastElement
  <2>2. n \in 1..Len(seqs) /\ ~Holds(Flattening(seqs)[n], n)
    OBVIOUS
  <2>3. Flattening(seqs)[n] = IF n = 1 THEN seqs[n] ELSE Flattening(seqs)[n - 1] \o seqs[n]
    BY <1>1, <2>2, FlatteningIs
  <2>4. CASE n = 1
    <3>1. \A i \in 1..1 : i = 1
      OBVIOUS
    <3>2. Holds(seqs[1], 1)
      BY <1>1, <2>2, <2>4, <3>1
    <3> HIDE DEF Holds
    <3> QED
      BY <2>2, <2>3, <2>4, <3>2
  <2>5. CASE n # 1
    <3>1. PICK m \in 1..Len(seqs) : m = n - 1
      BY <1>1, <2>2, <2>5
    <3>2. ~(n <= m) /\ n = m + 1
      BY <1>1, <2>2, <3>1
    <3>3. PICK flat : flat = Flattening(seqs)[m]
      OBVIOUS
    <3>4. Holds(flat, m)
      BY <2>1, <3>2, <3>3
    <3>5. PICK last \in Seq(X) : last = seqs[n]
      BY <1>1, <2>2
    <3>6. PICK all : all = flat \o last
      OBVIOUS
    <3>7. /\ all \in Seq(X) /\ Len(all) = Len(flat) + Len(last)
          /\ Len(flat) \in Nat /\ Len(last) \in Nat
          /\ \A p \in 1..Len(flat) : p \in 1..Len(all) /\ all[p] = flat[p]
          /\ \A p \in 1..Len(last) :
                Len(flat) + p \in 1..Len(all) /\ all[Len(flat) + p] = last[p]
      BY <3>4, <3>6
    <3>8. ASSUME NEW i \in 1..n, NEW k \in 1..Len(seqs[i])
          PROVE  \E p \in 1..Len(all) : all[p] = seqs[i][k]
      <4>1. CASE i \in 1..m
        <5>1. PICK p \in 1..Len(flat) : flat[p] = seqs[i][k]
          BY <3>4, <4>1
        <5> QED
          BY <3>7, <5>1
      <4>2. CASE i = n
        BY <3>5, <3>7, <4>2
      <4> QED
        BY <3>2, <4>1, <4>2
    <3>9. Holds(all, n)
      BY <3>7, <3>8
    <3>10. Flattening(seqs)[n] = all
      BY <2>3, <2>5, <3>1, <3>3, <3>5, <3>6
    <3> HIDE DEF Holds
    <3> QED
      BY <2>2, <3>9, <3>10
  <2> QED
    BY <2>4, <2>5
<1>3. Len(seqs) \in 1..Len(seqs) /\ Len(seqs) # 0
  BY <1>1
<1>4. Holds(Flattening(seqs)[Len(seqs)], Len(seqs))
  <2> HIDE DEF Holds
  <2> QED
    BY <1>2, <1>3
<1>5. FlattenSeq(seqs) = Flattening(seqs)[Len(seqs)]
  BY <1>3, FlattenIs
<1> QED
  BY <1>4, <1>5

(***************************************************************************)
(* FoldLeft, which takes the greatest element off the domain each time.    *)
(* An operator cannot be a parameter of a lemma here, so the fold is given *)
(* by the function step, which maps an index and a value to the next value.*)
(***************************************************************************)
FoldsFrom(g, n, base, step) ==
    g = [t \in SUBSET (1..n) |-> IF t = {} THEN base ELSE step[<<Max(t), g[t \ {Max(t)}]>>]]

\* The greatest element of an interval, and of a set that holds its bound.
LEMMA MaxOfInterval ==
    ASSUME NEW k \in Nat, k # 0, NEW t \in SUBSET (1..k), k \in t
    PROVE  Max(t) = k
<1>1. t \subseteq 0..k /\ t # {}
  OBVIOUS
<1>2. Max(t) \in t /\ \A y \in t : y <= Max(t)
  BY <1>1, GreatestElement
<1>3. Max(t) \in 1..k /\ k <= Max(t)
  BY <1>2
<1> QED
  BY <1>3

\* The recursion has a solution, whatever is folded.
LEMMA FoldExists ==
    ASSUME NEW V, NEW base \in V, NEW N \in Nat, NEW step \in [(1..N) \X V -> V]
    PROVE  \A n \in 0..N : \E g \in [SUBSET (1..n) -> V] : FoldsFrom(g, n, base, step)
<1> DEFINE Solved(n) == \E g \in [SUBSET (1..n) -> V] : FoldsFrom(g, n, base, step)
           Bad == {n \in 0..N : ~Solved(n)}
<1>1. SUFFICES ASSUME Bad # {} PROVE FALSE
  OBVIOUS
<1>2. PICK n \in Bad : \A k \in Bad : n <= k
  <2>1. Bad \subseteq Nat
    OBVIOUS
  <2> HIDE DEF Bad
  <2> QED
    BY <1>1, <2>1, LeastElement
<1>3. n \in 0..N /\ ~Solved(n)
  OBVIOUS
<1>4. CASE n = 0
  <2> DEFINE g == [t \in SUBSET (1..0) |-> base]
  <2>1. \A t \in SUBSET (1..0) : t = {}
    OBVIOUS
  <2>2. g = [t \in SUBSET (1..0) |->
               IF t = {} THEN base ELSE step[<<Max(t), g[t \ {Max(t)}]>>]]
    BY <2>1
  <2>3. g \in [SUBSET (1..0) -> V]
    OBVIOUS
  <2> HIDE DEF g
  <2> QED
    BY <1>3, <1>4, <2>2, <2>3 DEF FoldsFrom
<1>5. CASE n # 0
  <2>1. n - 1 \in 0..N /\ ~(n <= n - 1) /\ n \in 1..N
    BY <1>3, <1>5
  <2>2. PICK h \in [SUBSET (1..(n - 1)) -> V] : FoldsFrom(h, n - 1, base, step)
    BY <1>2, <2>1
  <2> DEFINE g == [t \in SUBSET (1..n) |-> IF n \in t THEN step[<<n, h[t \ {n}]>>] ELSE h[t]]
             fold(t) == IF t = {} THEN base ELSE step[<<Max(t), g[t \ {Max(t)}]>>]
  <2>3. ASSUME NEW t \in SUBSET (1..n)
        PROVE  /\ t \ {n} \in SUBSET (1..(n - 1))
               /\ n \notin t => t \in SUBSET (1..(n - 1))
    BY <2>1
  <2>4. ASSUME NEW t \in SUBSET (1..n), n \notin t PROVE g[t] = h[t]
    BY <2>4
  <2>5. ASSUME NEW t \in SUBSET (1..n) PROVE g[t] = fold(t) /\ g[t] \in V
    <3>1. CASE n \in t
      <4>1. Max(t) = n
        BY <2>1, <3>1, MaxOfInterval
      <4>2. t \ {n} \in SUBSET (1..n) /\ n \notin t \ {n}
        OBVIOUS
      <4>3. g[t \ {n}] = h[t \ {n}] /\ h[t \ {n}] \in V
        BY <2>3, <2>4, <4>2
      <4>4. g[t] = step[<<n, h[t \ {n}]>>]
        BY <3>1
      <4>5. step[<<n, h[t \ {n}]>>] \in V
        BY <2>1, <4>3
      <4> HIDE DEF g
      <4> QED
        BY <3>1, <4>1, <4>3, <4>4, <4>5
    <3>2. CASE n \notin t
      <4>1. t \in SUBSET (1..(n - 1)) /\ g[t] = h[t]
        BY <2>3, <2>4, <3>2
      <4>2. h[t] = IF t = {} THEN base ELSE step[<<Max(t), h[t \ {Max(t)}]>>]
        BY <2>2, <4>1, Zenon DEF FoldsFrom
      <4>3. t \ {Max(t)} \in SUBSET (1..n) /\ n \notin t \ {Max(t)}
        BY <3>2
      <4>4. g[t \ {Max(t)}] = h[t \ {Max(t)}]
        BY <2>4, <4>3
      <4> HIDE DEF g
      <4> QED
        BY <4>1, <4>2, <4>4
    <3> QED
      BY <3>1, <3>2
  <2>6. g = [t \in SUBSET (1..n) |-> g[t]]
    OBVIOUS
  <2> HIDE DEF g
  <2>7. g = [t \in SUBSET (1..n) |-> fold(t)]
    BY <2>5, <2>6
  <2>8. g \in [SUBSET (1..n) -> V]
    BY <2>5, <2>6
  <2> QED
    BY <1>3, <2>7, <2>8 DEF FoldsFrom
<1> QED
  BY <1>4, <1>5

\* Taken apart from the greatest element, 1..k is 1..k-1 and k.
LEMMA IntervalTaken ==
    ASSUME NEW k \in Nat, k # 0
    PROVE  1..k # {} /\ Max(1..k) = k /\ (1..k) \ {Max(1..k)} = 1..(k - 1)
<1>1. k \in 1..k
  OBVIOUS
<1>2. Max(1..k) = k
  BY <1>1, MaxOfInterval
<1>3. (1..k) \ {k} = 1..(k - 1)
  OBVIOUS
<1> QED
  BY <1>1, <1>2, <1>3

\* What a fold starts in and no step leaves it is always in.
LEMMA FoldStays ==
    ASSUME NEW V, NEW n \in Nat, NEW iter, iter[{}] \in V,
           \A k \in 1..n : iter[1..(k - 1)] \in V => iter[1..k] \in V
    PROVE  \A k \in 0..n : iter[1..k] \in V
<1> DEFINE Bad == {k \in 0..n : iter[1..k] \notin V}
<1>1. SUFFICES ASSUME Bad # {} PROVE FALSE
  OBVIOUS
<1>2. PICK k \in Bad : \A l \in Bad : k <= l
  <2>1. Bad \subseteq Nat
    OBVIOUS
  <2> HIDE DEF Bad
  <2> QED
    BY <1>1, <2>1, LeastElement
<1>3. k \in 0..n /\ iter[1..k] \notin V
  OBVIOUS
<1>4. k # 0
  <2>1. 1..0 = {}
    OBVIOUS
  <2> QED
    BY <1>3, <2>1
<1>5. k \in 1..n /\ k - 1 \in 0..n /\ ~(k <= k - 1)
  BY <1>3, <1>4
<1>6. iter[1..(k - 1)] \in V
  BY <1>2, <1>5
<1> QED
  BY <1>3, <1>5, <1>6

(***************************************************************************)
(* Sequences put together.                                                 *)
(***************************************************************************)
\* There is one function without arguments.
LEMMA EmptyFunction ==
    ASSUME NEW f, f = [i \in DOMAIN <<>> |-> f[i]]
    PROVE  f = <<>>
<1>1. DOMAIN <<>> = 1..0 /\ 1..0 = {}
  OBVIOUS
<1>2. f \in [1..0 -> {}]
  BY <1>1
<1>3. f \in Seq({}) /\ Len(f) = 0
  BY <1>2, SequenceOf
<1> QED
  BY <1>3

\* A sequence that is another one and one element, or two others.
LEMMA OneAppended ==
    ASSUME NEW X, NEW a \in Seq(X), NEW b \in Seq(X), NEW k \in X, Len(b) = Len(a) + 1,
           \A i \in 1..Len(a) : b[i] = a[i], b[Len(a) + 1] = k
    PROVE  b = a \o <<k>>
<1>1. PICK c : c = a \o <<k>>
  OBVIOUS
<1>2. /\ c \in Seq(X) /\ Len(c) = Len(a) + 1 /\ Len(a) \in Nat
      /\ \A i \in 1..Len(a) : c[i] = a[i]
      /\ c[Len(a) + 1] = k
  BY <1>1
<1>3. \A i \in 1..Len(b) : i \in 1..Len(a) \/ i = Len(a) + 1
  BY <1>2
<1>4. b = c
  BY <1>2, <1>3, SeqEqual
<1> QED
  BY <1>1, <1>4

\* A sequence that holds one and then the other is the two appended.
LEMMA BothAppended ==
    ASSUME NEW X, NEW a \in Seq(X), NEW b \in Seq(X), NEW c \in Seq(X),
           Len(c) = Len(a) + Len(b),
           \A i \in 1..Len(a) : c[i] = a[i], \A i \in 1..Len(b) : c[Len(a) + i] = b[i]
    PROVE  c = a \o b
<1>1. PICK d : d = a \o b
  OBVIOUS
<1>2. /\ d \in Seq(X) /\ Len(d) = Len(a) + Len(b) /\ Len(a) \in Nat /\ Len(b) \in Nat
      /\ \A i \in 1..Len(a) : d[i] = a[i]
      /\ \A i \in 1..Len(b) : d[Len(a) + i] = b[i]
  BY <1>1
<1>3. ASSUME NEW i \in 1..Len(c) PROVE c[i] = d[i]
  <2>1. CASE i <= Len(a)
    <3>1. i \in 1..Len(a)
      BY <1>2, <2>1
    <3> QED
      BY <1>2, <3>1
  <2>2. CASE ~(i <= Len(a))
    <3>1. i - Len(a) \in 1..Len(b) /\ Len(a) + (i - Len(a)) = i
      BY <1>2, <2>2
    <3> QED
      BY <1>2, <3>1
  <2> QED
    BY <2>1, <2>2
<1>4. c = d
  BY <1>2, <1>3, SeqEqual
<1> QED
  BY <1>1, <1>4

\* What holds at 0 and is kept by each step up to n holds up to n.
LEMMA IntervalHolds ==
    ASSUME NEW n \in Nat, NEW good, 0 \in good, \A k \in 1..n : k - 1 \in good => k \in good
    PROVE  \A k \in 0..n : k \in good
<1> DEFINE Bad == {k \in 0..n : k \notin good}
<1>1. SUFFICES ASSUME Bad # {} PROVE FALSE
  OBVIOUS
<1>2. PICK k \in Bad : \A l \in Bad : k <= l
  <2>1. Bad \subseteq Nat
    OBVIOUS
  <2> HIDE DEF Bad
  <2> QED
    BY <1>1, <2>1, LeastElement
<1>3. k \in 1..n /\ k - 1 \in 0..n /\ ~(k <= k - 1)
  OBVIOUS
<1>4. k - 1 \in good
  BY <1>2, <1>3
<1> QED
  BY <1>3, <1>4

(***************************************************************************)
(* Flattening, part by part.                                               *)
(***************************************************************************)
\* Flattening, step by step.
LEMMA FlattenSteps ==
    ASSUME NEW X, NEW seqs \in Seq(Seq(X))
    PROVE  \E g \in [0..Len(seqs) -> Seq(X)] :
              /\ g[0] = <<>>
              /\ \A k \in 1..Len(seqs) : g[k] = g[k - 1] \o seqs[k]
              /\ FlattenSeq(seqs) = g[Len(seqs)]
<1> DEFINE n == Len(seqs)
           g == [k \in 0..n |-> IF k = 0 THEN <<>> ELSE Flattening(seqs)[k]]
<1>1. n \in Nat /\ \A k \in 1..n : seqs[k] \in Seq(X)
  OBVIOUS
<1>2. g[0] = <<>> /\ \A k \in 1..n : g[k] = Flattening(seqs)[k]
  BY <1>1
<1>3. FlattenSeq(seqs) = g[n]
  <2>1. CASE n = 0
    <3>1. seqs = <<>> /\ FlattenSeq(seqs) = seqs
      BY <2>1 DEF FlattenSeq
    <3> QED
      BY <1>2, <2>1, <3>1
  <2>2. CASE n # 0
    <3>1. n \in 1..n
      BY <1>1, <2>2
    <3> QED
      BY <1>2, <2>2, <3>1, FlattenIs
  <2> QED
    BY <2>1, <2>2
<1>4. ASSUME NEW k \in 1..n PROVE g[k] = g[k - 1] \o seqs[k]
  <2>1. Flattening(seqs)[k] = IF k = 1 THEN seqs[k] ELSE Flattening(seqs)[k - 1] \o seqs[k]
    BY <1>1, FlatteningIs
  <2>2. CASE k = 1
    <3>1. g[k] = seqs[k] /\ g[k - 1] = <<>> /\ seqs[k] \in Seq(X)
      BY <1>1, <1>2, <2>1, <2>2
    <3>2. seqs[k] = <<>> \o seqs[k]
      BY <3>1
    <3> QED
      BY <3>1, <3>2
  <2>3. CASE k # 1
    <3>1. k - 1 \in 1..n
      BY <1>1, <2>3
    <3>2. g[k - 1] = Flattening(seqs)[k - 1]
      BY <1>2, <3>1
    <3> QED
      BY <1>2, <2>1, <2>3, <3>2
  <2> QED
    BY <2>2, <2>3
<1>5. g = [k \in 0..n |-> g[k]]
  OBVIOUS
<1> HIDE DEF g
<1>6. \A k \in 0..n : g[k] \in Seq(X)
  <2> DEFINE Bad == {k \in 0..n : g[k] \notin Seq(X)}
  <2>1. SUFFICES ASSUME Bad # {} PROVE FALSE
    OBVIOUS
  <2>2. PICK k \in Bad : \A l \in Bad : k <= l
    <3>1. Bad \subseteq Nat
      BY <1>1
    <3> HIDE DEF Bad
    <3> QED
      BY <2>1, <3>1, LeastElement
  <2>3. k \in 0..n /\ g[k] \notin Seq(X) /\ k # 0
    <3>1. <<>> \in Seq(X)
      OBVIOUS
    <3> QED
      BY <1>2, <3>1
  <2>4. k \in 1..n /\ k - 1 \in 0..n /\ ~(k <= k - 1)
    BY <1>1, <2>3
  <2>5. g[k - 1] \in Seq(X)
    BY <2>2, <2>4
  <2>6. g[k] \in Seq(X)
    <3>1. g[k] = g[k - 1] \o seqs[k] /\ seqs[k] \in Seq(X)
      BY <1>1, <1>4, <2>4
    <3>2. \A a, b \in Seq(X) : a \o b \in Seq(X)
      OBVIOUS
    <3> QED
      BY <2>5, <3>1, <3>2
  <2> QED
    BY <2>3, <2>6
<1> QED
  BY <1>2, <1>3, <1>4, <1>5, <1>6

\* The steps determine it.
LEMMA FlattenBySteps ==
    ASSUME NEW X, NEW seqs \in Seq(Seq(X)), NEW g, g[0] = <<>>,
           \A k \in 1..Len(seqs) : g[k] = g[k - 1] \o seqs[k]
    PROVE  FlattenSeq(seqs) = g[Len(seqs)]
<1>1. PICK h \in [0..Len(seqs) -> Seq(X)] :
        /\ h[0] = <<>>
        /\ \A k \in 1..Len(seqs) : h[k] = h[k - 1] \o seqs[k]
        /\ FlattenSeq(seqs) = h[Len(seqs)]
  BY FlattenSteps
<1> DEFINE Bad == {k \in 0..Len(seqs) : g[k] # h[k]}
<1>2. SUFFICES ASSUME Bad # {} PROVE FALSE
  BY <1>1
<1>3. PICK k \in Bad : \A l \in Bad : k <= l
  <2>1. Bad \subseteq Nat
    OBVIOUS
  <2> HIDE DEF Bad
  <2> QED
    BY <1>2, <2>1, LeastElement
<1>4. k \in 0..Len(seqs) /\ g[k] # h[k] /\ k # 0
  BY <1>1
<1>5. k \in 1..Len(seqs) /\ k - 1 \in 0..Len(seqs) /\ ~(k <= k - 1)
  BY <1>4
<1>6. g[k - 1] = h[k - 1]
  BY <1>3, <1>5
<1> QED
  BY <1>1, <1>4, <1>5, <1>6

\* Of nothing, of one sequence, and of two.
LEMMA FlattenOfNone == FlattenSeq(<<>>) = <<>>
<1>1. <<>> \in Seq(Seq({})) /\ Len(<<>>) = 0
  OBVIOUS
<1>2. PICK g \in [0..Len(<<>>) -> Seq({})] : g[0] = <<>> /\ FlattenSeq(<<>>) = g[Len(<<>>)]
  BY <1>1, FlattenSteps
<1> QED
  BY <1>1, <1>2

\* One part flattens to itself.
LEMMA FlattenOfOne ==
    ASSUME NEW X, NEW s \in Seq(X)
    PROVE  FlattenSeq(<<s>>) = s
<1> DEFINE seqs == <<s>>
<1>1. seqs \in Seq(Seq(X)) /\ Len(seqs) = 1 /\ seqs[1] = s
  OBVIOUS
<1> HIDE DEF seqs
<1>2. PICK g \in [0..Len(seqs) -> Seq(X)] :
        /\ g[0] = <<>>
        /\ \A k \in 1..Len(seqs) : g[k] = g[k - 1] \o seqs[k]
        /\ FlattenSeq(seqs) = g[Len(seqs)]
  BY <1>1, FlattenSteps
<1>3. FlattenSeq(seqs) = g[1] /\ g[1] = g[1 - 1] \o seqs[1] /\ g[1 - 1] = <<>>
  BY <1>1, <1>2
<1>4. <<>> \o s = s
  OBVIOUS
<1> QED
  BY <1>1, <1>3, <1>4 DEF seqs

\* Parts of two lists flatten one list after the other.
LEMMA FlattenOfBoth ==
    ASSUME NEW X, NEW s \in Seq(Seq(X)), NEW t \in Seq(Seq(X))
    PROVE  /\ FlattenSeq(s \o t) = FlattenSeq(s) \o FlattenSeq(t)
           /\ FlattenSeq(s) \in Seq(X)
<1>1. PICK f \in [0..Len(s) -> Seq(X)] :
        /\ f[0] = <<>>
        /\ \A k \in 1..Len(s) : f[k] = f[k - 1] \o s[k]
        /\ FlattenSeq(s) = f[Len(s)]
  BY FlattenSteps
<1>2. PICK g \in [0..Len(t) -> Seq(X)] :
        /\ g[0] = <<>>
        /\ \A k \in 1..Len(t) : g[k] = g[k - 1] \o t[k]
        /\ FlattenSeq(t) = g[Len(t)]
  BY FlattenSteps
<1> DEFINE n == Len(s)
           all == s \o t
           h == [k \in 0..Len(all) |-> IF k <= n THEN f[k] ELSE f[n] \o g[k - n]]
<1>3. /\ all \in Seq(Seq(X)) /\ Len(all) = n + Len(t) /\ n \in Nat /\ Len(t) \in Nat
      /\ \A k \in 1..Len(all) : all[k] = IF k <= n THEN s[k] ELSE t[k - n]
  OBVIOUS
<1>4. /\ f[n] \in Seq(X) /\ FlattenSeq(s) = f[n]
      /\ \A k \in 0..Len(t) : g[k] \in Seq(X)
      /\ \A k \in 1..Len(t) : t[k] \in Seq(X)
  <2>1. n \in 0..Len(s) /\ n = Len(s)
    BY <1>3
  <2>2. f[n] \in Seq(X) /\ FlattenSeq(s) = f[n]
    BY <1>1, <2>1
  <2>3. \A k \in 1..Len(t) : t[k] \in Seq(X)
    OBVIOUS
  <2> QED
    BY <2>2, <2>3
<1> HIDE DEF n, all
<1>5. h[0] = <<>> /\ h[Len(all)] = f[n] \o g[Len(t)]
  <2>1. 0 \in 0..Len(all) /\ Len(all) \in 0..Len(all) /\ Len(all) - n = Len(t)
    BY <1>3
  <2>2. h[0] = f[0]
    BY <1>3, <2>1
  <2>3. CASE Len(t) = 0
    <3>1. Len(all) = n /\ g[Len(t)] = <<>> /\ h[Len(all)] = f[n]
      BY <1>2, <1>3, <2>1, <2>3
    <3>2. f[n] \o <<>> = f[n]
      BY <1>4
    <3> QED
      BY <1>1, <2>2, <3>1, <3>2
  <2>4. CASE Len(t) # 0
    <3>1. ~(Len(all) <= n)
      BY <1>3, <2>4
    <3> QED
      BY <1>1, <2>1, <2>2, <3>1
  <2> QED
    BY <2>3, <2>4
<1>6. ASSUME NEW k \in 1..Len(all) PROVE h[k] = h[k - 1] \o all[k]
  <2>1. k \in 0..Len(all) /\ k - 1 \in 0..Len(all)
    BY <1>3
  <2>2. CASE k <= n
    <3>1. k \in 1..n /\ k - 1 <= n
      BY <1>3, <2>2
    <3>2. h[k] = f[k] /\ h[k - 1] = f[k - 1] /\ all[k] = s[k]
      BY <1>3, <2>1, <2>2, <3>1
    <3> QED
      BY <1>1, <3>1, <3>2 DEF n
  <2>3. CASE ~(k <= n)
    <3>1. k - n \in 1..Len(t) /\ (k - n) - 1 = (k - 1) - n /\ (k - 1) - n \in 0..Len(t)
      BY <1>3, <2>3
    <3>2. h[k] = f[n] \o g[k - n] /\ all[k] = t[k - n]
      BY <1>3, <2>1, <2>3
    <3>3. g[k - n] = g[(k - 1) - n] \o t[k - n]
      BY <1>2, <3>1
    <3>4. h[k - 1] = f[n] \o g[(k - 1) - n]
      <4>1. CASE k - 1 = n
        <5>1. (k - 1) - n = 0 /\ h[k - 1] = f[n]
          BY <1>3, <2>1, <4>1
        <5>2. f[n] \o <<>> = f[n]
          BY <1>4
        <5> QED
          BY <1>2, <5>1, <5>2
      <4>2. CASE k - 1 # n
        <5>1. ~(k - 1 <= n)
          BY <1>3, <2>1, <2>3, <4>2
        <5> QED
          BY <2>1, <5>1
      <4> QED
        BY <4>1, <4>2
    <3>5. f[n] \in Seq(X) /\ g[(k - 1) - n] \in Seq(X) /\ t[k - n] \in Seq(X)
      BY <1>4, <3>1
    <3>6. \A a, b, c \in Seq(X) : a \o (b \o c) = (a \o b) \o c
      OBVIOUS
    <3>7. f[n] \o (g[(k - 1) - n] \o t[k - n]) = (f[n] \o g[(k - 1) - n]) \o t[k - n]
      BY <3>5, <3>6, Zenon
    <3> HIDE DEF h
    <3> QED
      BY <3>2, <3>3, <3>4, <3>7
  <2> QED
    BY <2>2, <2>3
<1> HIDE DEF h
<1>7. FlattenSeq(all) = h[Len(all)]
  BY <1>3, <1>5, <1>6, FlattenBySteps
<1> QED
  BY <1>2, <1>4, <1>5, <1>7 DEF all

\* A sequence is that of its elements, each alone.
LEMMA FlattenOfSingles ==
    ASSUME NEW X, NEW s \in Seq(X)
    PROVE  FlattenSeq([i \in DOMAIN s |-> <<s[i]>>]) = s
<1> DEFINE n == Len(s)
           seqs == [i \in DOMAIN s |-> <<s[i]>>]
           g == [k \in 0..n |-> SubSeq(s, 1, k)]
<1>1. n \in Nat /\ DOMAIN s = 1..n /\ \A k \in 1..n : s[k] \in X
  OBVIOUS
<1>2. seqs \in Seq(Seq(X)) /\ Len(seqs) = n /\ \A k \in 1..n : seqs[k] = <<s[k]>>
  <2>1. seqs \in [1..n -> Seq(X)] /\ \A k \in 1..n : seqs[k] = <<s[k]>>
    BY <1>1
  <2> HIDE DEF seqs, n
  <2> QED
    BY <1>1, <2>1, SequenceOf
<1>3. ASSUME NEW k \in 1..n PROVE g[k] = g[k - 1] \o seqs[k]
  <2>1. g[k] = SubSeq(s, 1, k) /\ g[k - 1] = SubSeq(s, 1, k - 1)
    BY <1>1
  <2>2. PICK a, b : a = SubSeq(s, 1, k - 1) /\ b = SubSeq(s, 1, k)
    OBVIOUS
  <2>3. /\ a \in Seq(X) /\ b \in Seq(X) /\ Len(a) = k - 1 /\ Len(b) = k
        /\ \A i \in 1..(k - 1) : a[i] = s[i]
        /\ \A i \in 1..k : b[i] = s[i]
    BY <1>1, <2>2
  <2>4. \A i \in 1..Len(a) : b[i] = a[i]
    BY <1>1, <2>3
  <2>5. b = a \o <<s[k]>>
    <3>1. Len(b) = Len(a) + 1 /\ b[Len(a) + 1] = s[k] /\ s[k] \in X
      BY <1>1, <2>3
    <3> QED
      BY <2>3, <2>4, <3>1, OneAppended
  <2> QED
    BY <1>2, <2>1, <2>2, <2>5
<1>4. g[0] = <<>> /\ g[n] = s
  BY <1>1
<1> HIDE DEF g, seqs, n
<1>5. FlattenSeq(seqs) = g[Len(seqs)]
  BY <1>2, <1>3, <1>4, FlattenBySteps
<1> QED
  BY <1>2, <1>4, <1>5 DEF seqs

(***************************************************************************)
(* PowerOfTwo is defined by recursion: that there is such a function, and  *)
(* what it gives, is shown for the least n where it would fail.            *)
(***************************************************************************)
DoublesUpTo(f, m) == f = [n \in 0..m |-> IF n = 0 THEN 1 ELSE 2 * f[n - 1]]

LEMMA DoublesValue ==
    ASSUME NEW m \in Nat, NEW f, DoublesUpTo(f, m), NEW n \in 0..m
    PROVE  f[n] = IF n = 0 THEN 1 ELSE 2 * f[n - 1]
BY Zenon DEF DoublesUpTo

\* There is one for every bound,
LEMMA DoublesExists ==
    ASSUME NEW m \in Nat PROVE \E f : DoublesUpTo(f, m)
<1> DEFINE Bad == {k \in Nat : ~\E f : DoublesUpTo(f, k)}
<1>1. SUFFICES ASSUME Bad # {} PROVE FALSE
  OBVIOUS
<1>2. PICK k \in Bad : \A l \in Bad : k <= l
  <2>1. Bad \subseteq Nat
    OBVIOUS
  <2> HIDE DEF Bad
  <2> QED
    BY <1>1, <2>1, LeastElement
<1>3. k \in Nat /\ ~\E f : DoublesUpTo(f, k)
  OBVIOUS
<1>4. PICK g : k # 0 => DoublesUpTo(g, k - 1)
  <2>1. k # 0 => k - 1 \in Nat /\ ~(k <= k - 1)
    BY <1>3
  <2> QED
    BY <1>2, <2>1
<1> DEFINE f == [n \in 0..k |-> IF n = k THEN IF k = 0 THEN 1 ELSE 2 * g[k - 1] ELSE g[n]]
           step(n) == IF n = 0 THEN 1 ELSE 2 * f[n - 1]
<1>5. ASSUME NEW n \in 0..k PROVE f[n] = step(n)
  <2>1. CASE n = k
    <3>1. k # 0 => k - 1 \in 0..k /\ k - 1 # k
      BY <1>3
    <3> QED
      BY <2>1, <3>1
  <2>2. CASE n # k
    <3>1. k - 1 \in Nat /\ n \in 0..(k - 1) /\ (n # 0 => n - 1 \in 0..k /\ n - 1 # k)
      BY <1>3, <2>2
    <3>2. g[n] = IF n = 0 THEN 1 ELSE 2 * g[n - 1]
      BY <1>4, <2>2, <3>1, DoublesValue
    <3>3. f[n] = g[n] /\ (n # 0 => f[n - 1] = g[n - 1])
      BY <2>2, <3>1
    <3> QED
      BY <3>2, <3>3
  <2> QED
    BY <2>1, <2>2
<1>6. f = [n \in 0..k |-> f[n]]
  OBVIOUS
<1> HIDE DEF f
<1>7. f = [n \in 0..k |-> step(n)]
  BY <1>5, <1>6
<1> QED
  BY <1>3, <1>7 DEF DoublesUpTo

\* and two of them agree.
LEMMA DoublesAgree ==
    ASSUME NEW m \in Nat, NEW k \in Nat, NEW f, DoublesUpTo(f, m), NEW g, DoublesUpTo(g, k),
           NEW n \in Nat, n <= m, n <= k
    PROVE  f[n] = g[n]
<1> DEFINE Bad == {l \in Nat : l <= m /\ l <= k /\ f[l] # g[l]}
<1>1. SUFFICES ASSUME Bad # {} PROVE FALSE
  OBVIOUS
<1>2. PICK l \in Bad : \A j \in Bad : l <= j
  <2>1. Bad \subseteq Nat
    OBVIOUS
  <2> HIDE DEF Bad
  <2> QED
    BY <1>1, <2>1, LeastElement
<1>3. l \in Nat /\ l \in 0..m /\ l \in 0..k /\ f[l] # g[l]
  OBVIOUS
<1>4. /\ f[l] = IF l = 0 THEN 1 ELSE 2 * f[l - 1]
      /\ g[l] = IF l = 0 THEN 1 ELSE 2 * g[l - 1]
  BY <1>3, DoublesValue
<1>5. l # 0 => l - 1 \in Nat /\ l - 1 <= m /\ l - 1 <= k /\ ~(l <= l - 1)
  BY <1>3
<1>6. l # 0 => f[l - 1] = g[l - 1]
  BY <1>2, <1>5
<1> QED
  BY <1>3, <1>4, <1>6

LEMMA PowerOfTwoIs ==
    \A n \in Nat : PowerOfTwo[n] = IF n = 0 THEN 1 ELSE 2 * PowerOfTwo[n - 1]
<1> DEFINE upTo == [m \in Nat |-> CHOOSE f : DoublesUpTo(f, m)]
           f == [n \in Nat |-> upTo[n][n]]
           step(n) == IF n = 0 THEN 1 ELSE 2 * f[n - 1]
<1>1. \A m \in Nat : DoublesUpTo(upTo[m], m)
  BY DoublesExists
<1> HIDE DEF upTo
<1>2. ASSUME NEW n \in Nat PROVE f[n] = step(n)
  <2>1. upTo[n][n] = IF n = 0 THEN 1 ELSE 2 * upTo[n][n - 1]
    <3>1. PICK g : g = upTo[n]
      OBVIOUS
    <3>2. n \in 0..n /\ DoublesUpTo(g, n)
      BY <1>1, <3>1
    <3> QED
      BY <3>1, <3>2, DoublesValue
  <2>2. n # 0 => upTo[n][n - 1] = upTo[n - 1][n - 1]
    <3>1. PICK m : m = n - 1
      OBVIOUS
    <3>2. n # 0 => m \in Nat /\ m <= n /\ m <= m
      BY <3>1
    <3> QED
      BY <1>1, <3>1, <3>2, DoublesAgree
  <2>3. n # 0 => n - 1 \in Nat
    OBVIOUS
  <2> QED
    BY <2>1, <2>2, <2>3
<1>3. f = [n \in Nat |-> f[n]]
  OBVIOUS
<1> HIDE DEF f
<1>4. f = [n \in Nat |-> step(n)]
  BY <1>2, <1>3
<1>5. \E h : h = [n \in Nat |-> IF n = 0 THEN 1 ELSE 2 * h[n - 1]]
  BY <1>4
<1>6. PowerOfTwo = [n \in Nat |-> IF n = 0 THEN 1 ELSE 2 * PowerOfTwo[n - 1]]
  BY <1>5, Zenon DEF PowerOfTwo
<1> QED
  BY <1>6, Zenon

LEMMA PowerOfTwoNat == \A n \in Nat : PowerOfTwo[n] \in Nat \ {0}
<1> DEFINE Bad == {l \in Nat : PowerOfTwo[l] \notin Nat \ {0}}
<1>1. SUFFICES ASSUME Bad # {} PROVE FALSE
  OBVIOUS
<1>2. PICK l \in Bad : \A j \in Bad : l <= j
  <2>1. Bad \subseteq Nat
    OBVIOUS
  <2> HIDE DEF Bad
  <2> QED
    BY <1>1, <2>1, LeastElement
<1>3. l \in Nat /\ PowerOfTwo[l] \notin Nat \ {0}
  OBVIOUS
<1>4. PowerOfTwo[l] = IF l = 0 THEN 1 ELSE 2 * PowerOfTwo[l - 1]
  BY <1>3, PowerOfTwoIs
<1>5. l # 0 => PowerOfTwo[l - 1] \in Nat \ {0}
  <2>1. l # 0 => l - 1 \in Nat /\ ~(l <= l - 1)
    BY <1>3
  <2> QED
    BY <1>2, <2>1
<1> QED
  BY <1>3, <1>4, <1>5
===============================================================================
