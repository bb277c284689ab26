-------------------------- MODULE LeaderWeightProofs --------------------------
(***************************************************************************)
(* Proof that the leader get_valid_proposers names always carries a       *)
(* positive weight, for every candidate list, weights, window size and    *)
(* draw function.                                                          *)
(*                                                                         *)
(* The argument follows the code.  The cumulative-sum loop turns the      *)
(* weights into a non-decreasing vector whose entry i exceeds entry i - 1 *)
(* by the weight of candidate i (SumInv).  The binary search returns the  *)
(* first index whose cumulative weight exceeds the draw; the entry before *)
(* it is at most the draw, so the weight between them is positive         *)
(* (ChosenWeightPositive).  ElectedInv keeps that fact about the last     *)
(* election of each validator.  Monotonicity is part of SumInv, since it  *)
(* follows from the step relation only by induction over the entries.    *)
(***************************************************************************)
EXTENDS LeaderReputationProofs, IntervalLemmas

\* The weight vector get_weights returned for the window a call read.
Weights(c) == GetWeights(Proposers, c.win, ActiveWeight, InactiveWeight)

\* Entries 1..k of acc are the running sums of the weights w.
RunningSums(acc, w, k) ==
    \A i \in 1..k : acc[i] = (IF i = 1 THEN 0 ELSE acc[i - 1]) + w[i]

\* Entries 1..k of acc do not decrease.
NonDecreasing(acc, k) == \A i, j \in 1..k : i <= j => acc[i] <= acc[j]

\* After k iterations the first k entries hold the running sums of the
\* weights and are non-decreasing; the others still hold the weights.
SumInv(v) ==
    LET c == call[v]
    IN  c.pc = "sum" =>
            /\ RunningSums(c.acc, Weights(c), c.k)
            /\ \A i \in (c.k + 1)..N : c.acc[i] = Weights(c)[i]
            /\ NonDecreasing(c.acc, c.k)

\* The leader of v's last election is a candidate of positive weight in
\* the window that election read.
ElectedInv(v) ==
    elected[v].leader # NoAuthor =>
        \E j \in 1..N : /\ Proposers[j] = elected[v].leader
                        /\ Weights(elected[v])[j] > 0

WInv ==
    /\ IInv
    /\ \A v \in Validators : SumInv(v) /\ ElectedInv(v)

LEMMA WeightsNat ==
    ASSUME NEW c, NEW i \in 1..N
    PROVE  Weights(c)[i] \in Nat
BY WeightAssumption DEF Weights, GetWeights, N

\* In a non-decreasing vector, the entry after the m entries at most w
\* exceeds w, and the one before it (if any) does not: the count of entries
\* at most w is the position where the vector first exceeds w.
LEMMA FirstAbove ==
    ASSUME NEW n \in Nat, NEW a \in [1..n -> Nat], NEW w \in Nat,
           NonDecreasing(a, n),
           NEW m \in Nat, m = Cardinality({i \in 1..n : a[i] <= w}), m + 1 \in 1..n
    PROVE  a[m + 1] > w /\ (m > 0 => a[m] <= w)
<1> DEFINE S == {i \in 1..n : a[i] <= w}
<1>1. IsFiniteSet(S)
    <2>1. IsFiniteSet(1..n)
        BY FS_Interval
    <2> QED
        BY <2>1, FS_Subset DEF S
<1>2. a[m + 1] > w
    <2> SUFFICES ASSUME a[m + 1] <= w PROVE FALSE
        OBVIOUS
    <2>1. 1..(m + 1) \subseteq S
        <3> SUFFICES ASSUME NEW i \in 1..(m + 1) PROVE i \in S
            OBVIOUS
        <3>1. i \in 1..n
            OBVIOUS
        <3>2. a[i] <= a[m + 1]
            BY <3>1 DEF NonDecreasing
        <3> QED
            BY <3>1, <3>2 DEF S
    <2>2. IsFiniteSet(1..(m + 1)) /\ Cardinality(1..(m + 1)) = m + 1
        <3>0. m + 1 \in Nat
            OBVIOUS
        <3> QED
            BY <3>0, PrefixCard
    <2>3. Cardinality(1..(m + 1)) <= Cardinality(S)
        BY <1>1, <2>1, FS_Subset
    <2> QED
        BY <2>2, <2>3 DEF S
<1>3. m > 0 => a[m] <= w
    <2> SUFFICES ASSUME m > 0, a[m] > w PROVE FALSE
        OBVIOUS
    <2>1. S \subseteq 1..(m - 1)
        <3> SUFFICES ASSUME NEW i \in S PROVE i \in 1..(m - 1)
            OBVIOUS
        <3>0. i \in 1..n /\ a[i] <= w
            BY DEF S
        <3>1. ~(m <= i)
            <4> SUFFICES ASSUME m <= i PROVE FALSE
                OBVIOUS
            <4>1. a[m] <= a[i]
                BY <3>0 DEF NonDecreasing
            <4> QED
                BY <3>0, <4>1
        <3> QED
            BY <3>0, <3>1
    <2>2. IsFiniteSet(1..(m - 1)) /\ Cardinality(1..(m - 1)) = m - 1
        <3>0. m - 1 \in Nat
            OBVIOUS
        <3> QED
            BY <3>0, PrefixCard
    <2>3. Cardinality(S) <= Cardinality(1..(m - 1))
        BY <2>1, <2>2, FS_Subset
    <2> QED
        BY <2>2, <2>3 DEF S
<1> QED
    BY <1>2, <1>3

\* The binary search over a finished cumulative vector lands on a candidate
\* whose own weight is positive: its cumulative weight exceeds the draw and
\* its predecessor's does not.
LEMMA ChosenWeightPositive ==
    ASSUME NEW c \in CallState, N > 0, Len(c.acc) = N,
           c.acc[N] = c.total, c.total > 0,
           RunningSums(c.acc, Weights(c), N), NonDecreasing(c.acc, N)
    PROVE  Weights(c)[ChosenIndex(c)] > 0
<1>1. ChosenIndex(c) \in 1..N
    BY ChosenIndexInRange
<1>2. ChosenWeight(c) \in Nat
    <2>1. Prng[c.rnd] \in Nat /\ c.total \in Nat
        BY PrngAssumption DEF CallState
    <2>2. \A x, y \in Nat : y > 0 => x % y \in 0..(y - 1)
        OBVIOUS
    <2> QED
        BY <2>1, <2>2 DEF ChosenWeight
<1>3. c.acc \in [1..N -> Nat]
    BY NType, LenProperties DEF CallState
<1>4. Cardinality({i \in 1..N : c.acc[i] <= ChosenWeight(c)}) \in Nat
    <2>1. IsFiniteSet(1..N)
        BY NType, FS_Interval
    <2> QED
        BY <2>1, FS_Subset, FS_CardinalityType
<1> DEFINE w == ChosenWeight(c)
<1>5. PICK m \in Nat : /\ m = Cardinality({i \in 1..N : c.acc[i] <= w})
                      /\ ChosenIndex(c) = m + 1
    BY <1>4 DEF ChosenIndex, w
<1>6. m + 1 \in 1..N
    BY <1>1, <1>5
<1>7. c.acc[m + 1] > w /\ (m > 0 => c.acc[m] <= w)
    BY <1>2, <1>3, <1>5, <1>6, NType, FirstAbove, Zenon DEF w
<1>8. Weights(c)[m + 1] \in Nat
    BY <1>6, WeightsNat
<1>9. c.acc[m + 1] = (IF m = 0 THEN 0 ELSE c.acc[m]) + Weights(c)[m + 1]
    <2>1. c.acc[m + 1] = (IF m + 1 = 1 THEN 0 ELSE c.acc[m + 1 - 1]) + Weights(c)[m + 1]
        BY <1>6 DEF RunningSums
    <2> QED
        BY <2>1
<1>10. m > 0 => c.acc[m] \in Nat
    BY <1>3, <1>6
<1>11. Weights(c)[m + 1] > 0
    BY <1>2, <1>6, <1>7, <1>8, <1>9, <1>10 DEF w
<1> QED
    BY <1>5, <1>11

-----------------------------------------------------------------------------

\* SumInv(u) reads only u's call, ElectedInv(u) only u's last election.
LEMMA SumInvFrame ==
    ASSUME NEW u, call'[u] = call[u]
    PROVE  SumInv(u)' <=> SumInv(u)
BY DEF SumInv, Weights

LEMMA ElectedInvFrame ==
    ASSUME NEW u, elected'[u] = elected[u]
    PROVE  ElectedInv(u)' <=> ElectedInv(u)
BY DEF ElectedInv, Weights

LEMMA InitWInv == Init => WInv
<1> SUFFICES ASSUME Init PROVE WInv
    OBVIOUS
<1>1. IInv
    BY InitIInv
<1>2. \A v \in Validators : SumInv(v) /\ ElectedInv(v)
    BY DEF Init, SumInv, ElectedInv, IdleCall, NoElection
<1> QED
    BY <1>1, <1>2 DEF WInv

\* Start: the weight vector is get_weights of the window just read, and no
\* entry has been summed yet.
LEMMA StartWInv ==
    ASSUME WInv, NEW v \in Validators, Start(v)
    PROVE  \A u \in Validators : SumInv(u)' /\ ElectedInv(u)'
<1> DEFINE t == TargetRound(round[v])
           w == GetBlockMetadata(View(v), WindowSize, t)
           c1 == [pc |-> "sum", rnd |-> round[v], win |-> w, basis |-> Basis(v, t),
                  acc |-> GetWeights(Proposers, w, ActiveWeight, InactiveWeight),
                  total |-> 0, k |-> 0]
<1>1. call' = [call EXCEPT ![v] = c1] /\ elected' = elected
    BY DEF Start
<1>2. call \in [Validators -> CallState]
    BY DEF WInv, IInv, TypeOK
<1>3. SumInv(v)'
    <2>1. call'[v] = c1
        BY <1>1, <1>2
    <2>2. Weights(c1) = c1.acc
        BY DEF Weights
    <2> QED
        BY <2>1, <2>2 DEF SumInv, RunningSums, NonDecreasing
<1>4. ASSUME NEW u \in Validators, u # v PROVE SumInv(u)'
    BY <1>1, <1>2, <1>4, SumInvFrame DEF WInv
<1>5. ASSUME NEW u \in Validators PROVE ElectedInv(u)'
    BY <1>1, ElectedInvFrame DEF WInv
<1> QED
    BY <1>3, <1>4, <1>5

\* Panic: the call leaves the loop without an election.
LEMMA PanicWInv ==
    ASSUME WInv, NEW v \in Validators, Panic(v)
    PROVE  \A u \in Validators : SumInv(u)' /\ ElectedInv(u)'
<1>1. call' = [call EXCEPT ![v].pc = "panicked"] /\ elected' = elected
    BY DEF Panic
<1>2. call \in [Validators -> CallState]
    BY DEF WInv, IInv, TypeOK
<1>3. SumInv(v)'
    BY <1>1, <1>2 DEF SumInv
<1>4. ASSUME NEW u \in Validators, u # v PROVE SumInv(u)'
    BY <1>1, <1>2, <1>4, SumInvFrame DEF WInv
<1>5. ASSUME NEW u \in Validators PROVE ElectedInv(u)'
    BY <1>1, ElectedInvFrame DEF WInv
<1> QED
    BY <1>3, <1>4, <1>5

\* The environment's steps touch no call and no election.
LEMMA EnvironmentWInv ==
    ASSUME WInv, call' = call, elected' = elected
    PROVE  \A u \in Validators : SumInv(u)' /\ ElectedInv(u)'
BY SumInvFrame, ElectedInvFrame DEF WInv

\* Accumulate: entry k + 1 becomes the total plus its own weight, which is
\* at least every running sum before it.
LEMMA AccumulateWInv ==
    ASSUME WInv, NEW v \in Validators, Accumulate(v)
    PROVE  \A u \in Validators : SumInv(u)' /\ ElectedInv(u)'
<1> DEFINE c == call[v]
           W == Weights(c)
           s == c.total + c.acc[c.k + 1]
           acc1 == [c.acc EXCEPT ![c.k + 1] = s]
           c2 == [c EXCEPT !.acc = acc1, !.total = s, !.k = c.k + 1]
<1>1. call' = [call EXCEPT ![v] = c2] /\ elected' = elected
    BY DEF Accumulate
<1>2. /\ call \in [Validators -> CallState]
      /\ c.pc = "sum" /\ c.k < N
      /\ c.k \in 0..N /\ Len(c.acc) = N
      /\ c.k = 0 => c.total = 0
      /\ c.k > 0 => c.acc[c.k] = c.total
    BY DEF Accumulate, WInv, IInv, LoopInv, TypeOK
<1>3. /\ RunningSums(c.acc, W, c.k)
      /\ \A i \in (c.k + 1)..N : c.acc[i] = W[i]
      /\ NonDecreasing(c.acc, c.k)
    BY <1>2 DEF WInv, SumInv, W
<1>4. /\ c.acc \in [1..N -> Nat]
      /\ c.total \in Nat
      /\ W[c.k + 1] \in Nat
    BY <1>2, NType, LenProperties, WeightsNat DEF CallState, W
<1>5. /\ s = c.total + W[c.k + 1]
      /\ acc1 \in [1..N -> Nat]
      /\ acc1[c.k + 1] = s
      /\ \A i \in 1..N : i # c.k + 1 => acc1[i] = c.acc[i]
    <2>1. c.k + 1 \in 1..N
        BY <1>2, NType
    <2>2. s = c.total + W[c.k + 1]
        BY <1>3, <2>1
    <2>3. s \in Nat
        BY <1>4, <2>2
    <2>4. acc1 \in [1..N -> Nat] /\ acc1[c.k + 1] = s
        BY <1>4, <2>1, <2>3
    <2>5. \A i \in 1..N : i # c.k + 1 => acc1[i] = c.acc[i]
        BY <1>4
    <2> QED
        BY <2>2, <2>4, <2>5
<1>6. /\ call'[v] = c2
      /\ c2.pc = "sum" /\ c2.k = c.k + 1 /\ c2.acc = acc1
      /\ Weights(c2) = W
    BY <1>1, <1>2 DEF Weights, W
<1>7. RunningSums(acc1, W, c.k + 1)
    <2> SUFFICES ASSUME NEW i \in 1..(c.k + 1)
                 PROVE  acc1[i] = (IF i = 1 THEN 0 ELSE acc1[i - 1]) + W[i]
        BY DEF RunningSums
    <2>1. CASE i <= c.k
        <3>1. c.acc[i] = (IF i = 1 THEN 0 ELSE c.acc[i - 1]) + W[i]
            BY <2>1, <1>3 DEF RunningSums
        <3> QED
            BY <1>2, <1>5, <2>1, <3>1
    <2>2. CASE i = c.k + 1
        <3>1. (IF i = 1 THEN 0 ELSE acc1[i - 1]) = c.total
            BY <1>2, <1>5, <2>2
        <3> QED
            BY <1>5, <2>2, <3>1
    <2> QED
        BY <1>2, <2>1, <2>2
<1>8. \A i \in (c.k + 2)..N : acc1[i] = W[i]
    BY <1>2, <1>3, <1>5
<1>9. NonDecreasing(acc1, c.k + 1)
    <2> SUFFICES ASSUME NEW i \in 1..(c.k + 1), NEW j \in 1..(c.k + 1), i <= j
                 PROVE  acc1[i] <= acc1[j]
        BY DEF NonDecreasing
    <2>1. CASE j <= c.k
        BY <1>2, <1>3, <1>5, <2>1 DEF NonDecreasing
    <2>2. CASE j = c.k + 1 /\ i = c.k + 1
        BY <1>2, <1>5, <2>2
    <2>3. CASE j = c.k + 1 /\ i <= c.k
        <3>1. c.acc[i] <= c.acc[c.k]
            BY <1>2, <1>3, <2>3 DEF NonDecreasing
        <3>2. acc1[i] <= c.total
            BY <1>2, <1>5, <2>3, <3>1
        <3>3. acc1[j] = c.total + W[c.k + 1]
            BY <1>5, <2>3
        <3>4. acc1[i] \in Nat
            <4>1. i \in 1..N
                BY <1>2
            <4> QED
                BY <1>5, <4>1
        <3> QED
            BY <1>4, <3>2, <3>3, <3>4
    <2> QED
        BY <1>2, <2>1, <2>2, <2>3
<1>10. SumInv(v)'
    <2> DEFINE c3 == call'[v]
    <2>1. c3.acc = acc1 /\ Weights(c3) = W /\ c3.k = c.k + 1 /\ c3.pc = "sum"
        BY <1>6 DEF c3
    <2>2. RunningSums(c3.acc, Weights(c3), c3.k)
        BY <1>7, <2>1, Zenon
    <2>3. NonDecreasing(c3.acc, c3.k)
        BY <1>9, <2>1, Zenon
    <2>4. \A i \in (c3.k + 1)..N : c3.acc[i] = Weights(c3)[i]
        BY <1>2, <1>8, <2>1
    <2> QED
        BY <2>2, <2>3, <2>4 DEF SumInv, c3
<1>11. ASSUME NEW u \in Validators, u # v PROVE SumInv(u)'
    BY <1>1, <1>2, <1>11, SumInvFrame DEF WInv
<1>12. ASSUME NEW u \in Validators PROVE ElectedInv(u)'
    BY <1>1, ElectedInvFrame DEF WInv
<1> QED
    BY <1>10, <1>11, <1>12

\* Choose: the finished loop satisfies ChosenWeightPositive's hypotheses,
\* and the election keeps the window the weights were computed from.
LEMMA ChooseWInv ==
    ASSUME WInv, NEW v \in Validators, NEW a \in Authors \cup {NoAuthor}, Choose(v, a)
    PROVE  \A u \in Validators : SumInv(u)' /\ ElectedInv(u)'
<1> DEFINE c == call[v]
           e == [rnd |-> c.rnd, leader |-> Proposers[ChosenIndex(c)],
                 win |-> c.win, basis |-> c.basis]
<1>1. /\ c.pc = "sum" /\ c.k = N /\ c.total > 0
      /\ call' = [call EXCEPT ![v] = IdleCall]
      /\ elected' = [elected EXCEPT ![v] = e]
    BY DEF Choose
<1>2. /\ call \in [Validators -> CallState]
      /\ elected \in [Validators -> Election]
    BY DEF WInv, IInv, TypeOK
<1>3. /\ c \in CallState /\ N > 0 /\ Len(c.acc) = N
      /\ c.acc[N] = c.total
    BY <1>1, FinishedLoop DEF WInv
<1>4. RunningSums(c.acc, Weights(c), N) /\ NonDecreasing(c.acc, N)
    BY <1>1 DEF WInv, SumInv
<1>5. Weights(c)[ChosenIndex(c)] > 0 /\ ChosenIndex(c) \in 1..N
    BY <1>1, <1>3, <1>4, ChosenWeightPositive, ChosenIndexInRange
<1>6. ElectedInv(v)'
    <2>1. elected'[v] = e /\ Weights(e) = Weights(c)
        BY <1>1, <1>2 DEF Weights
    <2> QED
        BY <1>5, <2>1 DEF ElectedInv
<1>7. SumInv(v)'
    BY <1>1, <1>2 DEF SumInv, IdleCall
<1>8. ASSUME NEW u \in Validators, u # v PROVE SumInv(u)' /\ ElectedInv(u)'
    BY <1>1, <1>2, <1>8, SumInvFrame, ElectedInvFrame DEF WInv
<1> QED
    BY <1>6, <1>7, <1>8

LEMMA NextWInv == WInv /\ [Next]_vars => WInv'
<1> SUFFICES ASSUME WInv, [Next]_vars PROVE WInv'
    OBVIOUS
<1>1. IInv'
    BY NextIInv DEF WInv
<1>2. \A u \in Validators : SumInv(u)' /\ ElectedInv(u)'
    <2>1. CASE \E v \in Validators : Start(v)
        BY <2>1, StartWInv
    <2>2. CASE \E v \in Validators : Accumulate(v)
        BY <2>2, AccumulateWInv
    <2>3. CASE \E v \in Validators : Panic(v)
        BY <2>3, PanicWInv
    <2>4. CASE \E v \in Validators, a \in Authors \cup {NoAuthor} : Choose(v, a)
        BY <2>4, ChooseWInv
    <2>5. CASE \E c \in 1..MaxRound, p \in Authors, vs \in VoteSets : Commit(c, p, vs)
        BY <2>5, EnvironmentWInv DEF Commit
    <2>6. CASE \E v \in Validators : Sync(v)
        BY <2>6, EnvironmentWInv DEF Sync
    <2>7. CASE \E v \in Validators : AdvanceRound(v)
        BY <2>7, EnvironmentWInv DEF AdvanceRound
    <2>8. CASE UNCHANGED vars
        BY <2>8, EnvironmentWInv DEF vars
    <2> QED
        BY <2>1, <2>2, <2>3, <2>4, <2>5, <2>6, <2>7, <2>8 DEF Next
<1> QED
    BY <1>1, <1>2 DEF WInv

\* The leader get_valid_proposers elects always carries a positive weight
\* under the active/inactive heuristic: the binary search's tie-break skips
\* every candidate of weight 0, for every candidate list, window and draw.
THEOREM LeaderWeightPositiveInvariant == Spec => []LeaderWeightPositive
<1>1. WInv => LeaderWeightPositive
    <2> SUFFICES ASSUME WInv, NEW v \in Validators, elected[v].leader # NoAuthor
                 PROVE  (IF elected[v].leader \in ActiveSet(elected[v].win)
                             THEN ActiveWeight ELSE InactiveWeight) > 0
        BY DEF LeaderWeightPositive
    <2>1. PICK j \in 1..N : /\ Proposers[j] = elected[v].leader
                            /\ Weights(elected[v])[j] > 0
        BY DEF WInv, ElectedInv
    <2> QED
        BY <2>1 DEF Weights, GetWeights, N
<1>2. Spec => []WInv
    BY InitWInv, NextWInv, PTL DEF Spec
<1> QED
    BY <1>1, <1>2, PTL
=============================================================================
