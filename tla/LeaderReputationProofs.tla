------------------------ MODULE LeaderReputationProofs ------------------------
(***************************************************************************)
(* Proofs about LeaderReputation for every value of its constants: type   *)
(* correctness, and that get_valid_proposers never indexes past the       *)
(* candidate list.                                                         *)
(*                                                                         *)
(* Neither is inductive as it stands.  The step Choose reads              *)
(* proposers[chosen_index], which lies in the list only because the loop  *)
(* leaves the total weight in the last cumulative entry; LoopInv states   *)
(* what the cumulative-sum loop keeps true after each iteration, and      *)
(* IInv conjoins it with the two properties.                              *)
(***************************************************************************)
EXTENDS LeaderReputation, FiniteSetTheorems, SequenceTheorems, TLAPS

\* After k iterations of the loop, k <= N entries have been summed, the
\* weight vector still has one entry per candidate, and the running total
\* sits in entry k (it is 0 before the first iteration).
LoopInv(v) ==
    LET c == call[v]
    IN  c.pc = "sum" =>
            /\ c.k \in 0..N
            /\ Len(c.acc) = N
            /\ c.k = 0 => c.total = 0
            /\ c.k > 0 => c.acc[c.k] = c.total

IInv ==
    /\ TypeOK
    /\ \A v \in Validators : LoopInv(v)
    /\ SelectionInBounds

LEMMA NType == N \in Nat
BY ProposersAssumption, LenProperties DEF N

\* The indices before the last candidate: N - 1 of them.
LEMMA PrefixInterval ==
    ASSUME N > 0
    PROVE  IsFiniteSet(1..(N - 1)) /\ Cardinality(1..(N - 1)) = N - 1
<1>1. N - 1 \in Int
    BY NType
<1>2. IsFiniteSet(1..(N - 1))
      /\ Cardinality(1..(N - 1)) = IF 1 > N - 1 THEN 0 ELSE N - 1
    BY <1>1, FS_Interval
<1> QED
    BY <1>2, NType

\* The binary search over cumulative weights whose last entry is the total
\* returns an index inside the candidate list, when the total is positive.
LEMMA ChosenIndexInRange ==
    ASSUME NEW c \in CallState, N > 0, Len(c.acc) = N,
           c.acc[N] = c.total, c.total > 0
    PROVE  ChosenIndex(c) \in 1..N
<1>1. ChosenWeight(c) \in 0..(c.total - 1)
    <2>1. Prng[c.rnd] \in Nat /\ c.total \in Nat
        BY PrngAssumption DEF CallState
    <2>2. \A x, y \in Nat : y > 0 => x % y \in 0..(y - 1)
        OBVIOUS
    <2> QED
        BY <2>1, <2>2 DEF ChosenWeight
<1> DEFINE S == {j \in 1..N : c.acc[j] <= ChosenWeight(c)}
<1>2. S \subseteq 1..(N - 1)
    <2> SUFFICES ASSUME NEW j \in S PROVE j \in 1..(N - 1)
        OBVIOUS
    <2>1. j \in 1..N /\ c.acc[j] <= ChosenWeight(c)
        BY DEF S
    <2>2. c.total \in Nat
        BY DEF CallState
    <2>3. j # N
        BY <1>1, <2>1, <2>2
    <2> QED
        BY <2>1, <2>3, NType
<1>3. IsFiniteSet(1..(N - 1)) /\ Cardinality(1..(N - 1)) = N - 1
    BY NType, PrefixInterval
<1>4. IsFiniteSet(S) /\ Cardinality(S) <= N - 1
    BY <1>2, <1>3, FS_Subset
<1>5. Cardinality(S) \in Nat
    BY <1>4, FS_CardinalityType
<1> QED
    BY <1>4, <1>5, NType DEF ChosenIndex

\* A window or basis read from a validator's ledger holds committed events.
LEMMA ReadsAreEvents ==
    ASSUME TypeOK, NEW v \in Validators, NEW t \in Nat
    PROVE  /\ GetBlockMetadata(View(v), WindowSize, t) \subseteq Event
           /\ Basis(v, t) \subseteq Event
<1>1. /\ View(v) \in Seq(Event)
      /\ Len(View(v)) = synced[v]
      /\ \A i \in 1..synced[v] : View(v)[i] = chain[i]
    <2>1. \A i \in 1..synced[v] : chain[i] \in Event
        BY LenProperties DEF TypeOK
    <2> QED
        BY <2>1, SubSeqProperties DEF View, TypeOK
<1>2. Taken(Filtered(View(v), WindowSize, t), WindowSize) \subseteq 1..Len(View(v))
    BY DEF Taken, Filtered, Fetched
<1>3. GetBlockMetadata(View(v), WindowSize, t) \subseteq Event
    BY <1>1, <1>2, LenProperties DEF GetBlockMetadata
<1>4. Basis(v, t) \subseteq Event
    BY LenProperties DEF Basis, TypeOK
<1> QED
    BY <1>3, <1>4

-----------------------------------------------------------------------------

LEMMA InitIInv == Init => IInv
<1> SUFFICES ASSUME Init PROVE IInv
    OBVIOUS
<1>1. IdleCall \in CallState
    BY RoundAssumption DEF IdleCall, CallState
<1>2. NoElection \in Election
    BY RoundAssumption DEF NoElection, Election
<1>3. TypeOK
    BY <1>1, <1>2, RoundAssumption DEF Init, TypeOK
<1> QED
    BY <1>3 DEF Init, IInv, LoopInv, SelectionInBounds, IdleCall

\* ActiveInactiveHeuristic::get_weights returns one natural weight per
\* candidate.
LEMMA WeightsType ==
    ASSUME NEW w
    PROVE  /\ GetWeights(Proposers, w, ActiveWeight, InactiveWeight) \in Seq(Nat)
           /\ Len(GetWeights(Proposers, w, ActiveWeight, InactiveWeight)) = N
BY NType, WeightAssumption DEF GetWeights, N

\* Start: the call's state after the read of the ledger and the heuristic.
LEMMA StartIInv ==
    ASSUME IInv, NEW v \in Validators, Start(v)
    PROVE  IInv'
<1> DEFINE t == TargetRound(round[v])
           w == GetBlockMetadata(View(v), WindowSize, t)
           c1 == [pc |-> "sum", rnd |-> round[v], win |-> w, basis |-> Basis(v, t),
                  acc |-> GetWeights(Proposers, w, ActiveWeight, InactiveWeight),
                  total |-> 0, k |-> 0]
<1>1. call' = [call EXCEPT ![v] = c1] /\ UNCHANGED <<chain, synced, round, elected, accepted>>
    BY DEF Start
<1>2. t \in Nat
    BY RoundAssumption DEF IInv, TypeOK, TargetRound, RoundGap
<1>3. w \subseteq Event /\ Basis(v, t) \subseteq Event
    BY <1>2, ReadsAreEvents DEF IInv
<1>4. c1 \in CallState
    BY <1>3, WeightsType DEF IInv, TypeOK, CallState
<1>5. TypeOK'
    BY <1>1, <1>4 DEF IInv, TypeOK
<1>6. \A u \in Validators : LoopInv(u)'
    BY <1>1, <1>4, WeightsType, NType DEF IInv, LoopInv, TypeOK
<1>7. SelectionInBounds'
    BY <1>1 DEF IInv, SelectionInBounds, TypeOK
<1> QED
    BY <1>5, <1>6, <1>7 DEF IInv

\* Accumulate: one iteration of the loop adds entry k + 1 to the total and
\* stores the total there.
LEMMA AccumulateIInv ==
    ASSUME IInv, NEW v \in Validators, Accumulate(v)
    PROVE  IInv'
<1> DEFINE c == call[v]
           s == c.total + c.acc[c.k + 1]
           acc1 == [c.acc EXCEPT ![c.k + 1] = s]
<1>1. /\ c \in CallState
      /\ c.pc = "sum" /\ c.k < N
      /\ c.k \in 0..N /\ Len(c.acc) = N
      /\ c.k = 0 => c.total = 0
      /\ c.k > 0 => c.acc[c.k] = c.total
    BY DEF Accumulate, IInv, LoopInv, TypeOK
<1>2. s \in Nat
    BY <1>1, LenProperties DEF CallState
<1>3. /\ acc1 \in Seq(Nat)
      /\ Len(acc1) = N
      /\ acc1[c.k + 1] = s
    BY <1>1, <1>2, ExceptSeq DEF CallState
<1>4. call' = [call EXCEPT ![v] = [c EXCEPT !.acc = acc1, !.total = s, !.k = c.k + 1]]
      /\ UNCHANGED <<chain, synced, round, elected, accepted>>
    BY DEF Accumulate
<1>5. [c EXCEPT !.acc = acc1, !.total = s, !.k = c.k + 1] \in CallState
    <2>1. c.k + 1 \in Nat
        BY <1>1, NType
    <2> QED
        BY <1>1, <2>1, <1>2, <1>3, Zenon DEF CallState
<1>6. TypeOK'
    BY <1>4, <1>5 DEF IInv, TypeOK
<1>7. LoopInv(v)'
    <2>1. /\ call'[v].pc = "sum" /\ call'[v].k = c.k + 1
          /\ call'[v].acc = acc1 /\ call'[v].total = s
        BY <1>1, <1>4 DEF IInv, TypeOK
    <2>2. c.k + 1 \in 0..N /\ c.k + 1 > 0
        BY <1>1, NType
    <2>3. /\ call'[v].k \in 0..N
          /\ Len(call'[v].acc) = N
          /\ call'[v].k > 0 /\ call'[v].acc[call'[v].k] = call'[v].total
        BY <1>3, <2>1, <2>2
    <2> QED
        BY <2>1, <2>3 DEF LoopInv
<1>8. \A u \in Validators \ {v} : LoopInv(u)' = LoopInv(u)
    BY <1>4 DEF LoopInv
<1>9. SelectionInBounds'
    BY <1>1, <1>4 DEF IInv, SelectionInBounds, TypeOK
<1> QED
    BY <1>6, <1>7, <1>8, <1>9 DEF IInv

\* A call whose loop has run to the end with a positive total has summed at
\* least one entry, and its last cumulative entry is the total.
LEMMA FinishedLoop ==
    ASSUME IInv, NEW v \in Validators, call[v].pc = "sum", call[v].k = N,
           call[v].total # 0
    PROVE  /\ call[v] \in CallState
           /\ N > 0 /\ Len(call[v].acc) = N
           /\ call[v].acc[N] = call[v].total
           /\ call[v].total > 0
<1> DEFINE c == call[v]
<1>1. c \in CallState
    BY DEF IInv, TypeOK
<1>2. c.total \in Nat
    BY <1>1 DEF CallState
<1>3. c.k \in 0..N /\ Len(c.acc) = N /\ (c.k = 0 => c.total = 0)
      /\ (c.k > 0 => c.acc[c.k] = c.total)
    BY DEF IInv, LoopInv
<1>4. N > 0
    BY <1>3, NType
<1> QED
    BY <1>1, <1>2, <1>3, <1>4

\* Panic: the call panics only on a zero total, since the index the binary
\* search returns is in range otherwise.
LEMMA PanicIInv ==
    ASSUME IInv, NEW v \in Validators, Panic(v)
    PROVE  IInv'
<1> DEFINE c == call[v]
<1>1. /\ c.pc = "sum" /\ c.k = N
      /\ IF c.total = 0 THEN TRUE ELSE ChosenIndex(c) > N
      /\ call' = [call EXCEPT ![v].pc = "panicked"]
      /\ UNCHANGED <<chain, synced, round, elected, accepted>>
    BY DEF Panic
<1>2. c.total = 0
    <2> SUFFICES ASSUME c.total # 0 PROVE FALSE
        OBVIOUS
    <2>1. ChosenIndex(c) > N
        BY <1>1
    <2>2. ChosenIndex(c) \in 1..N
        BY <1>1, FinishedLoop, ChosenIndexInRange
    <2> QED
        BY <2>1, <2>2, NType
<1>3. [c EXCEPT !.pc = "panicked"] \in CallState
    BY DEF IInv, TypeOK, CallState
<1>4. TypeOK'
    BY <1>1, <1>3 DEF IInv, TypeOK
<1>5. \A u \in Validators : LoopInv(u)'
    BY <1>1 DEF IInv, LoopInv, TypeOK
<1>6. SelectionInBounds'
    BY <1>1, <1>2 DEF IInv, SelectionInBounds, TypeOK
<1> QED
    BY <1>4, <1>5, <1>6 DEF IInv

\* Choose: the leader is a candidate, the call returns to idle.
LEMMA ChooseIInv ==
    ASSUME IInv, NEW v \in Validators, NEW a \in Authors \cup {NoAuthor}, Choose(v, a)
    PROVE  IInv'
<1> DEFINE c == call[v]
           leader == Proposers[ChosenIndex(c)]
<1>1. /\ c.pc = "sum" /\ c.k = N /\ c.total > 0
      /\ elected' = [elected EXCEPT ![v] =
              [rnd |-> c.rnd, leader |-> leader, win |-> c.win, basis |-> c.basis]]
      /\ accepted' = IF a = leader THEN [accepted EXCEPT ![v] = @ \cup {leader}]
                                   ELSE accepted
      /\ call' = [call EXCEPT ![v] = IdleCall]
      /\ UNCHANGED <<chain, synced, round>>
    BY DEF Choose
<1>2. ChosenIndex(c) \in 1..N
    BY <1>1, FinishedLoop, ChosenIndexInRange
<1>3. leader \in Authors
    BY <1>2, ProposersAssumption, LenProperties DEF N
<1>4. [rnd |-> c.rnd, leader |-> leader, win |-> c.win, basis |-> c.basis] \in Election
    BY <1>3 DEF IInv, TypeOK, CallState, Election
<1>5. IdleCall \in CallState
    BY RoundAssumption DEF IdleCall, CallState
<1>6. accepted' \in [Validators -> SUBSET Authors]
    BY <1>1, <1>3 DEF IInv, TypeOK
<1>7. TypeOK'
    BY <1>1, <1>4, <1>5, <1>6 DEF IInv, TypeOK
<1>8. \A u \in Validators : LoopInv(u)'
    BY <1>1 DEF IInv, LoopInv, TypeOK, IdleCall
<1>9. SelectionInBounds'
    BY <1>1 DEF IInv, SelectionInBounds, TypeOK, IdleCall
<1> QED
    BY <1>7, <1>8, <1>9 DEF IInv

\* Commit appends a committed event; every ledger prefix stays in range.
LEMMA CommitIInv ==
    ASSUME IInv, NEW c \in 1..MaxRound, NEW p \in Authors, NEW vs \in VoteSets,
           Commit(c, p, vs)
    PROVE  IInv'
<1> DEFINE e == [round |-> c, proposer |-> p, votes |-> vs]
<1>1. chain' = Append(chain, e) /\ UNCHANGED <<synced, round, call, elected, accepted>>
    BY DEF Commit
<1>2. e \in Event
    BY VoteSetsAssumption DEF Event
<1>3. chain' \in Seq(Event) /\ Len(chain') = Len(chain) + 1
    BY <1>1, <1>2, AppendProperties DEF IInv, TypeOK
<1>4. synced' \in [Validators -> 0..Len(chain')]
    BY <1>1, <1>3, LenProperties DEF IInv, TypeOK
<1> QED
    BY <1>1, <1>3, <1>4 DEF IInv, TypeOK, LoopInv, SelectionInBounds

\* Sync: a validator's ledger takes the next committed block.
LEMMA SyncIInv ==
    ASSUME IInv, NEW v \in Validators, Sync(v)
    PROVE  IInv'
BY DEF Sync, IInv, TypeOK, LoopInv, SelectionInBounds

\* AdvanceRound: a validator enters its next round.
LEMMA AdvanceRoundIInv ==
    ASSUME IInv, NEW v \in Validators, AdvanceRound(v)
    PROVE  IInv'
<1>1. round' \in [Validators -> 1..MaxRound]
    <2>1. round[v] \in 1..MaxRound /\ round[v] < MaxRound
          /\ round' = [round EXCEPT ![v] = round[v] + 1]
        BY DEF AdvanceRound, IInv, TypeOK
    <2> QED
        BY <2>1, RoundAssumption DEF IInv, TypeOK
<1>2. accepted' \in [Validators -> SUBSET Authors]
    BY DEF AdvanceRound, IInv, TypeOK
<1>3. UNCHANGED <<chain, synced, call, elected>>
    BY DEF AdvanceRound
<1> QED
    BY <1>1, <1>2, <1>3 DEF IInv, TypeOK, LoopInv, SelectionInBounds

\* A step that changes no variable keeps IInv.
LEMMA StutterIInv ==
    ASSUME IInv, UNCHANGED vars
    PROVE  IInv'
BY DEF vars, IInv, TypeOK, LoopInv, SelectionInBounds

LEMMA NextIInv == IInv /\ [Next]_vars => IInv'
<1> SUFFICES ASSUME IInv, [Next]_vars PROVE IInv'
    OBVIOUS
<1>1. CASE \E v \in Validators : Start(v) \/ Accumulate(v) \/ Panic(v)
    BY <1>1, StartIInv, AccumulateIInv, PanicIInv
<1>2. CASE \E v \in Validators, a \in Authors \cup {NoAuthor} : Choose(v, a)
    BY <1>2, ChooseIInv
<1>3. CASE \E c \in 1..MaxRound, p \in Authors, vs \in VoteSets : Commit(c, p, vs)
    BY <1>3, CommitIInv
<1>4. CASE \E v \in Validators : Sync(v) \/ AdvanceRound(v)
    BY <1>4, SyncIInv, AdvanceRoundIInv
<1>5. CASE UNCHANGED vars
    BY <1>5, StutterIInv
<1> QED
    BY <1>1, <1>2, <1>3, <1>4, <1>5 DEF Next

\* IInv holds in every reachable state.
THEOREM IInvariant == Spec => []IInv
BY InitIInv, NextIInv, PTL DEF Spec

\* Type correctness: every variable of LeaderReputation keeps its type.
THEOREM TypeCorrect == Spec => []TypeOK
<1>1. IInv => TypeOK
    BY DEF IInv
<1> QED
    BY <1>1, IInvariant, PTL

\* get_valid_proposers, for any candidate list, weights, window size and
\* draw function, panics only on a zero total weight: the binary search
\* over the cumulative weights never returns an index past the list.
THEOREM SelectionSafe == Spec => []SelectionInBounds
<1>1. IInv => SelectionInBounds
    BY DEF IInv
<1> QED
    BY <1>1, IInvariant, PTL

=============================================================================
