-------------------------- MODULE BackendWindowProofs --------------------------
(***************************************************************************)
(* Proof that get_block_metadata returns the contract's window whenever   *)
(* at most `buffer` committed events lie past the target round, for every *)
(* window size and round bound.                                            *)
(*                                                                         *)
(* The property is about one ledger, so the invariant only has to say     *)
(* what the commit path keeps true of it: rounds strictly increase along  *)
(* the event stream (Sorted).  Then the events at or before the target    *)
(* are a prefix 1..p of the stream, the ones past it are the suffix, and  *)
(* with at most 10 of those the newest window_size + 10 events fetched    *)
(* hold every event the contract's window wants.                          *)
(***************************************************************************)
EXTENDS BackendWindow, IntervalLemmas, SequenceTheorems, TLAPS

\* The events the commit path appends.
Rec == [round : Nat, proposer : {P}, votes : {{}}]

\* Rounds strictly increase along the event stream.
Sorted == \A i, j \in 1..Len(db) : i < j => db[i].round < db[j].round

Inv == db \in Seq(Rec) /\ Sorted

LEMMA InitInv == Init => Inv
BY DEF Init, Inv, Sorted

LEMMA NextInv == Inv /\ [Next]_db => Inv'
<1> SUFFICES ASSUME Inv, [Next]_db PROVE Inv'
    OBVIOUS
<1>1. ASSUME NEW c \in 1..MaxRound, Commit(c) PROVE Inv'
    <2> DEFINE e == [round |-> c, proposer |-> P, votes |-> {}]
    <2>1. db' = Append(db, e) /\ LastRound < c
        BY <1>1 DEF Commit
    <2>2. e \in Rec
        BY BoundsAssumption DEF Rec
    <2>3. db' \in Seq(Rec) /\ Len(db') = Len(db) + 1
          /\ db'[Len(db) + 1] = e /\ \A i \in 1..Len(db) : db'[i] = db[i]
        BY <2>1, <2>2, AppendProperties DEF Inv
    <2>4. \A i \in 1..Len(db) : db[i].round < c
        <3> SUFFICES ASSUME NEW i \in 1..Len(db) PROVE db[i].round < c
            OBVIOUS
        <3>1. db # <<>>
            BY EmptySeq DEF Inv
        <3>2. LastRound = db[Len(db)].round
            BY <3>1 DEF LastRound
        <3>3. Len(db) \in Nat /\ db[i] \in Rec /\ db[Len(db)] \in Rec
            BY LenProperties DEF Inv
        <3>4. db[i].round <= db[Len(db)].round
            <4>1. CASE i = Len(db)
                BY <3>3, <4>1 DEF Rec
            <4>2. CASE i < Len(db)
                BY <3>3, <4>2 DEF Inv, Sorted, Rec
            <4> QED
                BY <3>3, <4>1, <4>2
        <3> QED
            BY <2>1, <3>2, <3>3, <3>4 DEF Rec
    <2>5. Sorted'
        BY <2>3, <2>4, LenProperties DEF Inv, Sorted
    <2> QED
        BY <2>3, <2>5 DEF Inv
<1>2. CASE UNCHANGED db
    BY <1>2 DEF Inv, Sorted
<1> QED
    BY <1>1, <1>2 DEF Next

\* Over a sorted stream with at most `buffer` events past the target, the
\* over-fetch of get_block_metadata holds the whole contract window.
LEMMA WindowExact ==
    ASSUME Inv, NEW target \in Nat, NewerThan(target) <= Buffer
    PROVE  GetBlockMetadata(db, WindowSize, target) = ContractWindow(target)
<1> DEFINE L == Len(db)
           A == {i \in 1..L : db[i].round <= target}
           F == Filtered(db, WindowSize, target)
           ws == WindowSize
<1>1. L \in Nat /\ ws \in Nat /\ \A i \in 1..L : db[i].round \in Nat
    <2>1. db \in Seq(Rec)
        BY DEF Inv
    <2>2. L \in Nat /\ db \in [1..L -> Rec]
        BY <2>1, LenProperties
    <2> QED
        BY <2>2, BoundsAssumption DEF Rec
<1>2. PICK p \in 0..L : A = 1..p
    <2>1. \A i \in A : \A j \in 1..i : j \in A
        <3> SUFFICES ASSUME NEW i \in A, NEW j \in 1..i PROVE db[j].round <= target
            OBVIOUS
        <3>1. CASE j = i
            BY <3>1
        <3>2. CASE j < i
            BY <1>1, <3>2 DEF Inv, Sorted
        <3> QED
            BY <3>1, <3>2
    <2>2. A \in SUBSET (1..L)
        OBVIOUS
    <2>3. Cardinality(A) \in 0..L /\ A = 1..Cardinality(A)
        BY <1>1, <2>1, <2>2, DownClosedPrefix
    <2> QED
        BY <2>3
<1>3. L - p <= Buffer
    <2>1. {i \in 1..L : db[i].round > target} = (p + 1)..L
        BY <1>1, <1>2
    <2>2. Cardinality((p + 1)..L) = L - p
        BY <1>1, IntervalCard
    <2> QED
        BY <2>1, <2>2 DEF NewerThan
<1>4. F = {i \in 1..p : i + (ws + Buffer) > L}
    BY <1>2 DEF F, Filtered, Fetched
<1>5. ASSUME NEW i \in 1..p
      PROVE  /\ {j \in A : j > i} = (i + 1)..p
             /\ Cardinality((i + 1)..p) = p - i
    <2>1. {j \in A : j > i} = (i + 1)..p
        BY <1>2
    <2> QED
        BY <2>1, IntervalCard
<1>6. ASSUME NEW i \in F
      PROVE  {j \in F : j > i} = (i + 1)..p
    BY <1>1, <1>4 DEF Buffer
<1>7. Taken(F, ws) = {i \in 1..p : p - i < ws}
    <2>1. ASSUME NEW i \in F PROVE Cardinality({j \in F : j > i}) = p - i
        BY <1>4, <1>5, <1>6
    <2>2. ASSUME NEW i \in 1..p, p - i < ws PROVE i \in F
        <3>1. i + (ws + Buffer) > L
            BY <1>1, <1>3, <2>2 DEF Buffer
        <3> QED
            BY <1>4, <3>1
    <2>3. ASSUME NEW i \in F PROVE (Cardinality({j \in F : j > i}) < ws <=> p - i < ws)
        BY <2>1
    <2>4. F \subseteq 1..p
        BY <1>4
    <2>5. \A i \in 1..p : p - i < ws => i \in F
        BY <2>2
    <2> QED
        BY <2>3, <2>4, <2>5 DEF Taken
<1>8. ContractWindow(target) = {db[i] : i \in {j \in 1..p : p - j < ws}}
    <2>1. {j \in A : Cardinality({k \in A : k > j}) < ws} = {j \in 1..p : p - j < ws}
        <3>1. \A j \in 1..p : Cardinality({k \in A : k > j}) = p - j
            BY <1>5
        <3> QED
            BY <1>2, <3>1
    <2> QED
        BY <2>1 DEF ContractWindow
<1> QED
    BY <1>7, <1>8 DEF GetBlockMetadata

\* get_block_metadata returns exactly the contract's window, the newest
\* window_size events at or before the target round, whenever at most
\* `buffer` committed events lie past it: for every window size, round
\* bound and ledger the commit path can build.
THEOREM WindowExactInvariant == Spec => []WindowExactWithinBuffer
<1>1. Inv => WindowExactWithinBuffer
    BY BoundsAssumption, WindowExact DEF WindowExactWithinBuffer
<1>2. Spec => []Inv
    BY InitInv, NextInv, PTL DEF Spec
<1> QED
    BY <1>1, <1>2, PTL
=============================================================================
