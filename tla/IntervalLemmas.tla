---------------------------- MODULE IntervalLemmas ----------------------------
(***************************************************************************)
(* Facts about intervals of naturals used by the proofs about the         *)
(* leader-reputation window and the binary search over cumulative         *)
(* weights: how many indices an interval holds, that a set of indices    *)
(* closed under going down is the prefix 1..m of its own size m, and that *)
(* a non-empty set of indices has a least element.                         *)
(***************************************************************************)
EXTENDS Naturals, FiniteSets, FiniteSetTheorems, TLAPS

\* The indices a + 1 .. b are b - a many.
LEMMA IntervalCard ==
    ASSUME NEW a \in Nat, NEW b \in Nat, a <= b
    PROVE  IsFiniteSet((a + 1)..b) /\ Cardinality((a + 1)..b) = b - a
<1>1. a + 1 \in Int /\ b \in Int
    OBVIOUS
<1>2. IsFiniteSet((a + 1)..b)
      /\ Cardinality((a + 1)..b) = IF a + 1 > b THEN 0 ELSE b - (a + 1) + 1
    BY <1>1, FS_Interval
<1> QED
    BY <1>2

\* The first k positive integers form a finite set of k elements.
LEMMA PrefixCard ==
    ASSUME NEW k \in Nat
    PROVE  IsFiniteSet(1..k) /\ Cardinality(1..k) = k
<1>1. IsFiniteSet((0 + 1)..k) /\ Cardinality((0 + 1)..k) = k - 0
    BY IntervalCard
<1> QED
    BY <1>1

\* A set of indices of 1..n that holds every index below each of its
\* members is the prefix 1..m, m its size.
LEMMA DownClosedPrefix ==
    ASSUME NEW n \in Nat, NEW A \in SUBSET (1..n),
           \A i \in A : \A j \in 1..i : j \in A
    PROVE  Cardinality(A) \in 0..n /\ A = 1..Cardinality(A)
<1>1. IsFiniteSet(A) /\ Cardinality(A) \in 0..n
    <2>1. IsFiniteSet(1..n) /\ Cardinality(1..n) = n
        BY PrefixCard
    <2>2. IsFiniteSet(A) /\ Cardinality(A) <= n
        BY <2>1, FS_Subset
    <2> QED
        BY <2>2, FS_CardinalityType
<1>2. PICK m \in 0..n : m = Cardinality(A)
    BY <1>1
<1>3. A \subseteq 1..m
    <2> SUFFICES ASSUME NEW i \in A, ~(i <= m) PROVE FALSE
        OBVIOUS
    <2>1. 1..i \subseteq A
        OBVIOUS
    <2>2. Cardinality(1..i) <= Cardinality(A) /\ Cardinality(1..i) = i
        BY <1>1, <2>1, PrefixCard, FS_Subset
    <2> QED
        BY <1>2, <2>2
<1>4. 1..m \subseteq A
    <2> SUFFICES ASSUME NEW i \in 1..m, i \notin A PROVE FALSE
        OBVIOUS
    <2>1. A \subseteq 1..(i - 1)
        <3> SUFFICES ASSUME NEW x \in A PROVE x < i
            OBVIOUS
        <3> QED
            OBVIOUS
    <2>2. i - 1 \in Nat
        OBVIOUS
    <2>3. Cardinality(A) <= Cardinality(1..(i - 1)) /\ Cardinality(1..(i - 1)) = i - 1
        BY <2>1, <2>2, PrefixCard, FS_Subset
    <2> QED
        BY <1>2, <2>3
<1> QED
    BY <1>1, <1>2, <1>3, <1>4

\* A non-empty set of indices of 1..n has a least element: the index after
\* the longest prefix of 1..n that avoids it.
LEMMA LeastElement ==
    ASSUME NEW n \in Nat, NEW D \in SUBSET (1..n), D # {}
    PROVE  \E j \in D : \A k \in D : j <= k
<1> DEFINE L == {i \in 1..n : \A j \in 1..i : j \notin D}
<1>1. \A i \in L : \A j \in 1..i : j \in L
    OBVIOUS
<1>2. Cardinality(L) \in 0..n /\ L = 1..Cardinality(L)
    BY <1>1, DownClosedPrefix
<1>3. PICK m \in 0..n : m = Cardinality(L)
    BY <1>2
<1>3a. L = 1..m
    BY <1>2, <1>3
<1>4. \A k \in 1..m : k \notin D
    BY <1>3a
<1>5. m < n
    <2> SUFFICES ASSUME m = n PROVE FALSE
        OBVIOUS
    <2> QED
        BY <1>4
<1>6. m + 1 \in D
    <2>1. m + 1 \in 1..n /\ m + 1 \notin L
        BY <1>3a, <1>5
    <2>2. \E j \in 1..(m + 1) : j \in D
        BY <2>1
    <2> QED
        BY <1>4, <2>2
<1> QED
    BY <1>4, <1>6
=============================================================================
