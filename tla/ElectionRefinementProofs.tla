------------------------ MODULE ElectionRefinementProofs ------------------------
(***************************************************************************)
(* Proof that LeaderReputation implements ElectionSpec under the mapping  *)
(* of LeaderReputationRefinement, for every value of the constants.       *)
(*                                                                         *)
(* Two facts carry the proof.  The cumulative vector the loop leaves is   *)
(* the vector of UpTo sums of the weights (SumsAreUpTo), so the binary    *)
(* search's index is the one candidate whose interval holds the draw      *)
(* (PickIsChosenIndex).  And a running call's window, basis and round are *)
(* still those the validator's ledger shows when the call ends (ReadInv): *)
(* sync and the pacemaker wait for the call, and a commit only appends    *)
(* past the synced prefix.  So Choose is Elect and Panic is Halt on the   *)
(* state the one-step election reads.                                      *)
(***************************************************************************)
EXTENDS LeaderReputationRefinement, LeaderWeightProofs

\* A bound on every weight get_weights returns.
WMax == ActiveWeight + InactiveWeight

LEMMA WMaxNat == WMax \in Nat
BY WeightAssumption DEF WMax

\* The abstract specification counts with the same Cardinality.
LEMMA AbstractCardinality ==
    ASSUME NEW S
    PROVE  Abstract!Cardinality(S) = Cardinality(S)
BY DEF Abstract!Cardinality, Cardinality

\* k slots of one candidate: a row of k elements.
LEMMA RowCard ==
    ASSUME NEW x, NEW k \in Nat
    PROVE  IsFiniteSet({x} \X (1..k)) /\ Cardinality({x} \X (1..k)) = k
<1>1. IsFiniteSet({x}) /\ Cardinality({x}) = 1
    BY FS_Singleton
<1>2. IsFiniteSet(1..k) /\ Cardinality(1..k) = k
    BY PrefixCard
<1>3. IsFiniteSet({x} \X (1..k))
      /\ Cardinality({x} \X (1..k)) = Cardinality({x}) * Cardinality(1..k)
    BY <1>1, <1>2, FS_Product
<1> QED
    BY <1>1, <1>2, <1>3

\* The size of a union of two disjoint finite sets is the sum of theirs.
LEMMA DisjointUnionCard ==
    ASSUME NEW S, NEW T, IsFiniteSet(S), IsFiniteSet(T), S \cap T = {}
    PROVE  Cardinality(S \cup T) = Cardinality(S) + Cardinality(T)
<1>1. Cardinality(S \cup T) = Cardinality(S) + Cardinality(T) - Cardinality(S \cap T)
    BY FS_Union
<1>2. Cardinality(S \cap T) = 0
    BY FS_EmptySet
<1>3. Cardinality(S) \in Nat /\ Cardinality(T) \in Nat
    BY FS_CardinalityType
<1> QED
    BY <1>1, <1>2, <1>3

\* The slots of candidates 1..i lie in (1..i) \X (1..B), B bounding the
\* weights; they are finitely many.
LEMMA SlotsFinite ==
    ASSUME NEW n \in Nat, NEW B \in Nat, NEW w \in [1..n -> 0..B], NEW i \in 0..n
    PROVE  IsFiniteSet(Abstract!Slots(w, i))
<1>1. Abstract!Slots(w, i) \subseteq (1..i) \X (1..B)
    BY DEF Abstract!Slots
<1>2. IsFiniteSet((1..i) \X (1..B))
    <2>1. IsFiniteSet(1..i) /\ IsFiniteSet(1..B)
        BY PrefixCard
    <2> QED
        BY <2>1, FS_Product
<1> QED
    BY <1>1, <1>2, FS_Subset

\* No candidate has slots before the first.
LEMMA UpToZero ==
    ASSUME NEW w
    PROVE  Abstract!UpTo(w, 0) = 0
<1>1. Abstract!Slots(w, 0) = {}
    BY DEF Abstract!Slots
<1>2. Abstract!UpTo(w, 0) = Cardinality(Abstract!Slots(w, 0))
    BY AbstractCardinality DEF Abstract!UpTo
<1> QED
    BY <1>1, <1>2, FS_EmptySet

\* The upper end of candidate i's interval is the lower end plus its weight:
\* its w[i] slots are new.
LEMMA UpToStep ==
    ASSUME NEW n \in Nat, NEW B \in Nat, NEW w \in [1..n -> 0..B], NEW i \in 1..n
    PROVE  Abstract!UpTo(w, i) = Abstract!UpTo(w, i - 1) + w[i]
<1> DEFINE S == Abstract!Slots(w, i - 1)
           T == {i} \X (1..w[i])
<1>1. Abstract!Slots(w, i) = S \cup T
    BY DEF Abstract!Slots
<1>2. S \cap T = {}
    BY DEF Abstract!Slots
<1>3. IsFiniteSet(S) /\ Cardinality(S) \in Nat
    BY SlotsFinite, FS_CardinalityType
<1>4. IsFiniteSet(T) /\ Cardinality(T) = w[i]
    <2>1. w[i] \in Nat
        OBVIOUS
    <2> QED
        BY <2>1, RowCard
<1>5. Cardinality(S \cup T) = Cardinality(S) + Cardinality(T)
    BY <1>2, <1>3, <1>4, DisjointUnionCard, Zenon
<1>6. /\ Abstract!UpTo(w, i) = Cardinality(Abstract!Slots(w, i))
      /\ Abstract!UpTo(w, i - 1) = Cardinality(S)
    BY AbstractCardinality DEF Abstract!UpTo
<1> QED
    BY <1>1, <1>4, <1>5, <1>6

\* A vector of running sums of w is the vector of UpTo sums: at the least
\* index where they differed, the entries before would agree and the step
\* equations would make them agree too.
LEMMA SumsAreUpTo ==
    ASSUME NEW n \in Nat, NEW B \in Nat, NEW w \in [1..n -> 0..B],
           NEW acc \in [1..n -> Nat], RunningSums(acc, w, n)
    PROVE  \A i \in 1..n : acc[i] = Abstract!UpTo(w, i)
<1> DEFINE D == {i \in 1..n : acc[i] # Abstract!UpTo(w, i)}
<1> SUFFICES ASSUME D # {} PROVE FALSE
    OBVIOUS
<1>1. PICK j \in D : \A k \in D : j <= k
    BY LeastElement
<1>2. acc[j] = (IF j = 1 THEN 0 ELSE acc[j - 1]) + w[j]
    BY DEF RunningSums
<1>3. Abstract!UpTo(w, j) = Abstract!UpTo(w, j - 1) + w[j]
    BY UpToStep
<1>4. CASE j = 1
    BY <1>2, <1>3, <1>4, UpToZero
<1>5. CASE j # 1
    <2>1. j - 1 \in 1..n /\ j - 1 \notin D
        BY <1>1, <1>5
    <2> QED
        BY <1>2, <1>3, <1>5, <2>1
<1> QED
    BY <1>4, <1>5

\* The weight vector of a call is a sequence of N weights of at most WMax.
LEMMA WeightsShape ==
    ASSUME NEW c
    PROVE  /\ Weights(c) \in [1..N -> 0..WMax]
           /\ Weights(c) \in Seq(0..WMax)
           /\ Len(Weights(c)) = N
<1>1. Weights(c) \in [1..N -> 0..WMax]
    BY WeightAssumption DEF Weights, GetWeights, N, WMax
<1>2. Weights(c) \in Seq(0..WMax)
    BY <1>1, NType, IsASeq DEF Weights, GetWeights, N
<1> QED
    BY <1>1, <1>2, NType, LenProperties

\* The binary search of a finished loop names the candidate the one-step
\* election picks: the cumulative vector is the vector of UpTo sums, the
\* search returns the first index whose sum exceeds the draw, and no other
\* index has the draw in its interval.
LEMMA PickIsChosenIndex ==
    ASSUME NEW c \in CallState, N > 0, Len(c.acc) = N,
           c.acc[N] = c.total, c.total > 0,
           RunningSums(c.acc, Weights(c), N), NonDecreasing(c.acc, N)
    PROVE  /\ Abstract!UpTo(Weights(c), N) = c.total
           /\ Abstract!Pick(Weights(c), ChosenWeight(c)) = ChosenIndex(c)
<1> DEFINE W == Weights(c)
<1>1. W \in [1..N -> 0..WMax] /\ Len(W) = N
    BY WeightsShape
<1>2. c.acc \in [1..N -> Nat]
    BY NType, LenProperties DEF CallState
<1>3. \A i \in 1..N : c.acc[i] = Abstract!UpTo(W, i)
    BY <1>1, <1>2, NType, WMaxNat, SumsAreUpTo, Zenon
<1>4. Abstract!UpTo(W, N) = c.total
    BY <1>3
<1>5. ChosenWeight(c) \in Nat
    <2>1. Prng[c.rnd] \in Nat /\ c.total \in Nat
        BY PrngAssumption DEF CallState
    <2>2. \A x, y \in Nat : y > 0 => x % y \in 0..(y - 1)
        OBVIOUS
    <2> QED
        BY <2>1, <2>2 DEF ChosenWeight
<1>6. Cardinality({i \in 1..N : c.acc[i] <= ChosenWeight(c)}) \in Nat
    <2>1. IsFiniteSet(1..N)
        BY NType, FS_Interval
    <2> QED
        BY <2>1, FS_Subset, FS_CardinalityType
<1> DEFINE d == ChosenWeight(c)
<1>7. PICK m \in Nat : /\ m = Cardinality({i \in 1..N : c.acc[i] <= d})
                      /\ ChosenIndex(c) = m + 1
    BY <1>6 DEF ChosenIndex, d
<1>8. m + 1 \in 1..N
    BY <1>7, ChosenIndexInRange
<1>9. c.acc[m + 1] > d /\ (m > 0 => c.acc[m] <= d)
    BY <1>2, <1>5, <1>7, <1>8, NType, FirstAbove, Zenon DEF d
<1>10. Abstract!UpTo(W, m) <= d /\ d < Abstract!UpTo(W, m + 1)
    <2>1. d < Abstract!UpTo(W, m + 1)
        BY <1>3, <1>8, <1>9
    <2>2. CASE m = 0
        BY <1>5, <2>1, <2>2, UpToZero DEF d
    <2>3. CASE m > 0
        BY <1>3, <1>8, <1>9, <2>1, <2>3
    <2> QED
        BY <2>2, <2>3
<1>11. ASSUME NEW i \in 1..N,
              Abstract!UpTo(W, i - 1) <= d, d < Abstract!UpTo(W, i)
       PROVE  i = m + 1
    <2>1. CASE i < m + 1
        <3>1. m \in 1..N /\ i <= m /\ m > 0
            BY <1>8, <2>1
        <3>2. c.acc[i] <= c.acc[m]
            BY <3>1 DEF NonDecreasing
        <3>3. c.acc[i] = Abstract!UpTo(W, i)
            BY <1>3
        <3>4. c.acc[i] \in Nat /\ c.acc[m] \in Nat
            BY <1>2, <3>1
        <3> QED
            BY <1>5, <1>9, <1>11, <3>1, <3>2, <3>3, <3>4
    <2>2. CASE i > m + 1
        <3>1. i - 1 \in 1..N /\ m + 1 <= i - 1
            BY <1>8, <2>2
        <3>2. c.acc[m + 1] <= c.acc[i - 1]
            BY <1>8, <3>1 DEF NonDecreasing
        <3>3. c.acc[i - 1] = Abstract!UpTo(W, i - 1)
            BY <1>3, <3>1
        <3>4. c.acc[i - 1] \in Nat /\ c.acc[m + 1] \in Nat
            BY <1>2, <1>8, <3>1
        <3> QED
            BY <1>5, <1>9, <1>11, <3>2, <3>3, <3>4
    <2> QED
        BY <1>8, <2>1, <2>2
<1>12. Abstract!Pick(W, d) = m + 1
    BY <1>1, <1>8, <1>10, <1>11 DEF Abstract!Pick
<1> QED
    BY <1>4, <1>7, <1>12 DEF d, W

-----------------------------------------------------------------------------

\* A running call's round, window and basis are those v's round and ledger
\* give now: nothing moves them while the call runs.
ReadInv(v) ==
    LET c == call[v]
        t == TargetRound(round[v])
    IN  c.pc = "sum" => /\ c.rnd = round[v]
                        /\ c.win = GetBlockMetadata(View(v), WindowSize, t)
                        /\ c.basis = Basis(v, t)

RInv == WInv /\ \A v \in Validators : ReadInv(v)

\* A commit appends past every synced prefix: the ledgers and their bases
\* stay what they were.
LEMMA AppendKeepsLedgers ==
    ASSUME NEW ch \in Seq(Event), NEW e, NEW s \in 0..Len(ch), NEW t
    PROVE  /\ SubSeq(Append(ch, e), 1, s) = SubSeq(ch, 1, s)
           /\ {Append(ch, e)[i] : i \in {j \in 1..s : Append(ch, e)[j].round <= t}}
              = {ch[i] : i \in {j \in 1..s : ch[j].round <= t}}
<1>1. \A i \in 1..s : Append(ch, e)[i] = ch[i]
    BY LenProperties
<1>2. SubSeq(Append(ch, e), 1, s) = SubSeq(ch, 1, s)
    BY <1>1
<1> QED
    BY <1>1, <1>2

LEMMA InitRInv == Init => RInv
<1> SUFFICES ASSUME Init PROVE RInv
    OBVIOUS
<1>1. WInv
    BY InitWInv
<1> QED
    BY <1>1 DEF Init, RInv, ReadInv, IdleCall

\* ReadInv(u) reads only u's call, round and ledger.
LEMMA ReadInvFrame ==
    ASSUME NEW u, call'[u] = call[u], round'[u] = round[u], synced'[u] = synced[u],
           chain' = chain
    PROVE  ReadInv(u)' <=> ReadInv(u)
BY DEF ReadInv, View, Basis

LEMMA NextReadInv ==
    ASSUME RInv, [Next]_vars, NEW u \in Validators
    PROVE  ReadInv(u)'
<1>1. TypeOK
    BY DEF RInv, WInv, IInv
<1>2. ReadInv(u)
    BY DEF RInv
<1>3. ASSUME NEW v \in Validators, Start(v) PROVE ReadInv(u)'
    <2>1. CASE u = v
        <3> DEFINE t == TargetRound(round[v])
        <3>1. /\ call'[v].pc = "sum" /\ call'[v].rnd = round[v]
              /\ call'[v].win = GetBlockMetadata(View(v), WindowSize, t)
              /\ call'[v].basis = Basis(v, t)
            BY <1>1, <1>3 DEF Start, TypeOK
        <3>2. round' = round /\ View(v)' = View(v) /\ Basis(v, t)' = Basis(v, t)
            BY <1>3 DEF Start, View, Basis
        <3> QED
            BY <2>1, <3>1, <3>2 DEF ReadInv
    <2>2. CASE u # v
        BY <1>1, <1>2, <1>3, <2>2, ReadInvFrame DEF Start, TypeOK
    <2> QED
        BY <2>1, <2>2
<1>4. ASSUME NEW v \in Validators, Accumulate(v) PROVE ReadInv(u)'
    <2>1. CASE u = v
        <3> DEFINE t == TargetRound(round[v])
        <3>1. /\ call[v].pc = "sum" /\ call'[v].pc = "sum"
              /\ call'[v].rnd = call[v].rnd /\ call'[v].win = call[v].win
              /\ call'[v].basis = call[v].basis
            BY <1>1, <1>4 DEF Accumulate, TypeOK
        <3>2. round' = round /\ View(v)' = View(v) /\ Basis(v, t)' = Basis(v, t)
            BY <1>4 DEF Accumulate, View, Basis
        <3> QED
            BY <1>2, <2>1, <3>1, <3>2 DEF ReadInv
    <2>2. CASE u # v
        BY <1>1, <1>2, <1>4, <2>2, ReadInvFrame DEF Accumulate, TypeOK
    <2> QED
        BY <2>1, <2>2
<1>5. ASSUME NEW v \in Validators, Panic(v) PROVE ReadInv(u)'
    <2>1. CASE u = v
        BY <1>1, <1>5, <2>1 DEF Panic, ReadInv, TypeOK
    <2>2. CASE u # v
        BY <1>1, <1>2, <1>5, <2>2, ReadInvFrame DEF Panic, TypeOK
    <2> QED
        BY <2>1, <2>2
<1>6. ASSUME NEW v \in Validators, NEW a \in Authors \cup {NoAuthor}, Choose(v, a)
      PROVE  ReadInv(u)'
    <2>1. CASE u = v
        BY <1>1, <1>6, <2>1 DEF Choose, ReadInv, TypeOK, IdleCall
    <2>2. CASE u # v
        BY <1>1, <1>2, <1>6, <2>2, ReadInvFrame DEF Choose, TypeOK
    <2> QED
        BY <2>1, <2>2
<1>7. ASSUME NEW c \in 1..MaxRound, NEW p \in Authors, NEW vs \in VoteSets,
             Commit(c, p, vs)
      PROVE  ReadInv(u)'
    <2> DEFINE e == [round |-> c, proposer |-> p, votes |-> vs]
    <2>1. chain' = Append(chain, e) /\ UNCHANGED <<synced, round, call>>
        BY <1>7 DEF Commit
    <2>2. chain \in Seq(Event) /\ synced[u] \in 0..Len(chain)
        BY <1>1 DEF TypeOK
    <2>3. View(u)' = View(u)
          /\ \A t : Basis(u, t)' = Basis(u, t)
        BY <2>1, <2>2, AppendKeepsLedgers DEF View, Basis
    <2> QED
        BY <1>2, <2>1, <2>3 DEF ReadInv
<1>8. ASSUME NEW v \in Validators, Sync(v) PROVE ReadInv(u)'
    <2>1. CASE u = v
        BY <1>8, <2>1 DEF Sync, ReadInv
    <2>2. CASE u # v
        BY <1>1, <1>2, <1>8, <2>2, ReadInvFrame DEF Sync, TypeOK
    <2> QED
        BY <2>1, <2>2
<1>9. ASSUME NEW v \in Validators, AdvanceRound(v) PROVE ReadInv(u)'
    <2>1. CASE u = v
        BY <1>9, <2>1 DEF AdvanceRound, ReadInv
    <2>2. CASE u # v
        BY <1>1, <1>2, <1>9, <2>2, ReadInvFrame DEF AdvanceRound, TypeOK
    <2> QED
        BY <2>1, <2>2
<1>10. CASE UNCHANGED vars
    BY <1>2, <1>10, ReadInvFrame DEF vars
<1> QED
    BY <1>3, <1>4, <1>5, <1>6, <1>7, <1>8, <1>9, <1>10 DEF Next

LEMMA NextRInv == RInv /\ [Next]_vars => RInv'
BY NextWInv, NextReadInv DEF RInv

-----------------------------------------------------------------------------
(* The step simulation.                                                    *)

\* The abstract election reads the ledger, the target round and the basis
\* with the same operators as the code.
LEMMA AbstractTarget ==
    ASSUME NEW r
    PROVE  Abstract!Target(r) = TargetRound(r)
BY DEF Abstract!Target, TargetRound, RoundGap

LEMMA AbstractMetadata ==
    ASSUME NEW db, NEW ws, NEW t
    PROVE  Abstract!GetBlockMetadata(db, ws, t) = GetBlockMetadata(db, ws, t)
BY AbstractCardinality
   DEF Abstract!GetBlockMetadata, GetBlockMetadata, Abstract!Taken, Taken,
       Abstract!Filtered, Filtered, Abstract!Fetched, Fetched, Abstract!Buffer, Buffer

LEMMA AbstractGetWeights ==
    ASSUME NEW cs, NEW win, NEW aw, NEW iw
    PROVE  Abstract!GetWeights(cs, win, aw, iw) = GetWeights(cs, win, aw, iw)
BY DEF Abstract!GetWeights, GetWeights, Abstract!ActiveSet, ActiveSet

\* What the one-step election of v would read now is what v's running call
\* read when it started.
LEMMA AbstractReads ==
    ASSUME RInv, NEW v \in Validators, call[v].pc = "sum"
    PROVE  /\ Abstract!GetBlockMetadata(Abstract!Ledger(v), WindowSize,
                                        Abstract!Target(round[v])) = call[v].win
           /\ Abstract!GetWeights(Proposers,
                  Abstract!GetBlockMetadata(Abstract!Ledger(v), WindowSize,
                                            Abstract!Target(round[v])),
                  ActiveWeight, InactiveWeight) = Weights(call[v])
           /\ Abstract!Settled(v, Abstract!Target(round[v])) = call[v].basis
           /\ call[v].rnd = round[v]
<1>1. /\ call[v].rnd = round[v]
      /\ call[v].win = GetBlockMetadata(View(v), WindowSize, TargetRound(round[v]))
      /\ call[v].basis = Basis(v, TargetRound(round[v]))
    BY DEF RInv, ReadInv
<1>2. Abstract!Ledger(v) = View(v)
    BY DEF Abstract!Ledger, View
<1>3. Abstract!GetBlockMetadata(Abstract!Ledger(v), WindowSize,
                                Abstract!Target(round[v])) = call[v].win
    BY <1>1, <1>2, AbstractTarget, AbstractMetadata
<1>4. Abstract!Settled(v, Abstract!Target(round[v])) = call[v].basis
    BY <1>1, AbstractTarget DEF Abstract!Settled, Basis
<1> QED
    BY <1>1, <1>3, <1>4, AbstractGetWeights DEF Weights

\* A step that touches no call's pc leaves Halted alone.
LEMMA HaltedUnchanged ==
    ASSUME \A u \in Validators : (call'[u].pc = "panicked") <=> (call[u].pc = "panicked")
    PROVE  Halted' = Halted
BY DEF Halted

\* Commit, Sync and AdvanceRound are the abstract environment's steps.
LEMMA EnvironmentSim ==
    ASSUME RInv, call' = call,
           \/ \E c \in 1..MaxRound, p \in Authors, vs \in VoteSets : Commit(c, p, vs)
           \/ \E v \in Validators : Sync(v) \/ AdvanceRound(v)
    PROVE  Abstract!Next
<1>1. Halted' = Halted
    BY HaltedUnchanged
<1>2. ASSUME NEW c \in 1..MaxRound, NEW p \in Authors, NEW vs \in VoteSets,
             Commit(c, p, vs)
      PROVE  Abstract!Commit(c, p, vs)
    <2>1. IF chain = <<>> THEN TRUE ELSE chain[Len(chain)].round < c
        BY <1>2 DEF Commit, LastCommittedRound
    <2> QED
        BY <1>1, <1>2, <2>1 DEF Commit, Abstract!Commit, CommitDepth
<1>3. ASSUME NEW v \in Validators, Sync(v) PROVE Abstract!Sync(v)
    <2>1. v \notin Halted
        BY <1>3 DEF Sync, Halted
    <2> QED
        BY <1>1, <1>3, <2>1 DEF Sync, Abstract!Sync
<1>4. ASSUME NEW v \in Validators, AdvanceRound(v) PROVE Abstract!AdvanceRound(v)
    <2>1. v \notin Halted
        BY <1>4 DEF AdvanceRound, Halted
    <2> QED
        BY <1>1, <1>4, <2>1 DEF AdvanceRound, Abstract!AdvanceRound
<1> QED
    BY <1>2, <1>3, <1>4 DEF Abstract!Next

\* Panic is Halt: the code panics only on a zero total, and the total is
\* the abstract sum of all weights.
LEMMA PanicSim ==
    ASSUME RInv, NEW v \in Validators, Panic(v)
    PROVE  Abstract!Halt(v)
<1> DEFINE c == call[v]
           W == Weights(c)
<1>1. /\ c.pc = "sum" /\ c.k = N
      /\ IF c.total = 0 THEN TRUE ELSE ChosenIndex(c) > N
      /\ call' = [call EXCEPT ![v].pc = "panicked"]
      /\ UNCHANGED <<chain, synced, round, elected, accepted>>
    BY DEF Panic
<1>2. IInv /\ SumInv(v)
    BY DEF RInv, WInv
<1>3. c.total = 0
    <2> SUFFICES ASSUME c.total # 0 PROVE FALSE
        OBVIOUS
    <2>1. ChosenIndex(c) \in 1..N
        <3>1. /\ c \in CallState /\ N > 0 /\ Len(c.acc) = N
              /\ c.acc[N] = c.total /\ c.total > 0
            <4>1. IInv /\ call[v].pc = "sum" /\ call[v].k = N /\ call[v].total # 0
                BY <1>1, <1>2
            <4> QED
                BY <4>1, FinishedLoop, Zenon
        <3> QED
            BY <3>1, ChosenIndexInRange
    <2> QED
        BY <1>1, <2>1, NType
<1>4. Abstract!UpTo(W, Len(W)) = 0
    <2>1. Len(W) = N /\ W \in [1..N -> 0..WMax]
        BY WeightsShape
    <2>2. CASE N = 0
        BY <2>1, <2>2, UpToZero
    <2>3. CASE N # 0
        <3>1. c \in CallState /\ Len(c.acc) = N /\ c.acc[N] = c.total
            <4>1. LoopInv(v) /\ c \in CallState
                BY <1>2 DEF IInv, TypeOK
            <4>2. Len(c.acc) = N /\ (c.k > 0 => c.acc[c.k] = c.total)
                BY <1>1, <4>1 DEF LoopInv
            <4>3. c.k > 0
                BY <1>1, <2>3, NType
            <4> QED
                BY <1>1, <4>1, <4>2, <4>3
        <3>2. c.acc \in [1..N -> Nat]
            BY <3>1, NType, LenProperties DEF CallState
        <3>3. RunningSums(c.acc, W, N)
            BY <1>1, <1>2 DEF SumInv
        <3>4. \A i \in 1..N : c.acc[i] = Abstract!UpTo(W, i)
            BY <2>1, <3>2, <3>3, NType, WMaxNat, SumsAreUpTo, Zenon
        <3> QED
            BY <1>3, <2>1, <2>3, <3>1, <3>4, NType
    <2> QED
        BY <2>2, <2>3
<1>5. v \notin Halted /\ Halted' = Halted \cup {v}
    BY <1>1, <1>2 DEF Halted, IInv, TypeOK
<1>6. Abstract!GetWeights(Proposers,
          Abstract!GetBlockMetadata(Abstract!Ledger(v), WindowSize,
                                    Abstract!Target(round[v])),
          ActiveWeight, InactiveWeight) = W
    BY <1>1, AbstractReads
<1> QED
    BY <1>1, <1>4, <1>5, <1>6 DEF Abstract!Halt

\* Choose is Elect: the same window, basis and round, the same candidate,
\* and the same verdict on the proposal.
LEMMA ChooseSim ==
    ASSUME RInv, NEW v \in Validators, NEW a \in Authors \cup {NoAuthor}, Choose(v, a)
    PROVE  Abstract!Elect(v, a)
<1> DEFINE c == call[v]
           W == Weights(c)
           leader == Proposers[ChosenIndex(c)]
<1>1. /\ c.pc = "sum" /\ c.k = N /\ c.total > 0
      /\ call' = [call EXCEPT ![v] = IdleCall]
      /\ elected' = [elected EXCEPT ![v] =
             [rnd |-> c.rnd, leader |-> leader, win |-> c.win, basis |-> c.basis]]
      /\ accepted' = IF a = leader
                        THEN [accepted EXCEPT ![v] = @ \cup {leader}]
                        ELSE accepted
      /\ UNCHANGED <<chain, synced, round>>
    BY DEF Choose
<1>2. IInv /\ SumInv(v)
    BY DEF RInv, WInv
<1>3. /\ c \in CallState /\ N > 0 /\ Len(c.acc) = N
      /\ c.acc[N] = c.total /\ c.total > 0
    <2>1. IInv /\ call[v].pc = "sum" /\ call[v].k = N /\ call[v].total # 0
        BY <1>1, <1>2
    <2> QED
        BY <2>1, FinishedLoop, Zenon
<1>4. RunningSums(c.acc, W, N) /\ NonDecreasing(c.acc, N)
    BY <1>1, <1>2 DEF SumInv
<1>5. /\ Abstract!UpTo(W, N) = c.total
      /\ Abstract!Pick(W, ChosenWeight(c)) = ChosenIndex(c)
    BY <1>3, <1>4, PickIsChosenIndex
<1>6. /\ Abstract!GetBlockMetadata(Abstract!Ledger(v), WindowSize,
                                     Abstract!Target(round[v])) = c.win
      /\ Abstract!GetWeights(Proposers,
             Abstract!GetBlockMetadata(Abstract!Ledger(v), WindowSize,
                                       Abstract!Target(round[v])),
             ActiveWeight, InactiveWeight) = W
      /\ Abstract!Settled(v, Abstract!Target(round[v])) = c.basis
      /\ c.rnd = round[v]
    BY <1>1, AbstractReads
<1>7. Len(W) = N
    BY WeightsShape
<1>8. Abstract!UpTo(W, Len(W)) > 0
      /\ Abstract!Pick(W, Prng[round[v]] % Abstract!UpTo(W, Len(W))) = ChosenIndex(c)
    BY <1>3, <1>5, <1>6, <1>7 DEF ChosenWeight
<1>9. v \notin Halted /\ Halted' = Halted
    BY <1>1, <1>2 DEF Halted, IInv, TypeOK, IdleCall
<1> QED
    BY <1>1, <1>6, <1>8, <1>9 DEF Abstract!Elect

\* Start and Accumulate change a call's local state only: abstract stutters.
LEMMA LocalStepSim ==
    ASSUME RInv, NEW v \in Validators, Start(v) \/ Accumulate(v)
    PROVE  UNCHANGED Abstract!avars
<1>1. call \in [Validators -> CallState]
    BY DEF RInv, WInv, IInv, TypeOK
<1>2. /\ call'[v].pc = "sum" /\ call[v].pc # "panicked"
      /\ (\A u \in Validators \ {v} : call'[u] = call[u])
      /\ UNCHANGED <<chain, synced, round, elected, accepted>>
    <2>1. CASE Start(v)
        BY <1>1, <2>1 DEF Start
    <2>2. CASE Accumulate(v)
        BY <1>1, <2>2 DEF Accumulate, CallState
    <2> QED
        BY <2>1, <2>2
<1>3. Halted' = Halted
    BY <1>2, HaltedUnchanged
<1> QED
    BY <1>2, <1>3 DEF Abstract!avars

\* Every step of LeaderReputation from a reachable state is a step of
\* ElectionSpec or leaves its variables unchanged.
LEMMA StepSim == RInv /\ [Next]_vars => [Abstract!Next]_Abstract!avars
<1> SUFFICES ASSUME RInv, [Next]_vars PROVE [Abstract!Next]_Abstract!avars
    OBVIOUS
<1>1. CASE \E v \in Validators : Start(v) \/ Accumulate(v)
    BY <1>1, LocalStepSim
<1>2. CASE \E v \in Validators : Panic(v)
    BY <1>2, PanicSim DEF Abstract!Next
<1>3. CASE \E v \in Validators, a \in Authors \cup {NoAuthor} : Choose(v, a)
    BY <1>3, ChooseSim DEF Abstract!Next
<1>4. CASE \/ \E c \in 1..MaxRound, p \in Authors, vs \in VoteSets : Commit(c, p, vs)
           \/ \E v \in Validators : Sync(v) \/ AdvanceRound(v)
    <2>1. call' = call
        BY <1>4 DEF Commit, Sync, AdvanceRound
    <2> QED
        BY <1>4, <2>1, EnvironmentSim
<1>5. CASE UNCHANGED vars
    <2>1. Halted' = Halted
        BY <1>5, HaltedUnchanged DEF vars
    <2> QED
        BY <1>5, <2>1 DEF vars, Abstract!avars
<1> QED
    BY <1>1, <1>2, <1>3, <1>4, <1>5 DEF Next

LEMMA InitSim == Init => Abstract!Init
BY DEF Init, Abstract!Init, Halted, IdleCall, NoElection

\* get_valid_proposers, loop and binary search included, implements the
\* one-step election of ElectionSpec for every candidate list, weights,
\* window size, draw function and bound on rounds: each call names the
\* candidate whose interval of cumulative weights holds the draw, over the
\* ledger as it stands when the call ends, and panics only when the
\* weights sum to 0.
THEOREM Refinement == Spec => ImplementsElection
<1>1. Spec => []RInv
    BY InitRInv, NextRInv, PTL DEF Spec
<1> QED
    BY <1>1, InitSim, StepSim, PTL DEF Spec, ImplementsElection, Abstract!Spec
=============================================================================
