--------------------------- MODULE LeaderReputation ---------------------------
(***************************************************************************)
(* LeaderReputation<T> (consensus/src/chained_bft/liveness/                *)
(* leader_reputation.rs) running on every validator, each over its own    *)
(* copy of the committed ledger.                                           *)
(*                                                                         *)
(* The engine keeps no state between calls.  What changes is the world it *)
(* reads: the chain of committed blocks grows, each validator's ledger     *)
(* catches up with it, and each validator's round advances.  A call of     *)
(* get_valid_proposers is modelled step by step, as its code runs: the     *)
(* read of the ledger and the heuristic (Start), one step per iteration of *)
(* the cumulative-sum loop (Accumulate), and the draw with the binary      *)
(* search (Choose, or Panic when the code panics).  The history variables  *)
(* elected and accepted record the answers the calls gave.                 *)
(***************************************************************************)
EXTENDS MetadataBackend

CONSTANTS
    Validators,     \* the validator nodes, each running LeaderReputation
    Authors,        \* author identities that may occur in the ledger
    Proposers,      \* the candidate list `proposers`, fixed for the epoch
    WindowSize,     \* `window_size`
    ActiveWeight,   \* ActiveInactiveHeuristic::active_weight
    InactiveWeight, \* ActiveInactiveHeuristic::inactive_weight
    Prng,           \* Prng[r] = next(&mut r.to_le_bytes()), the seeded draw
    MaxRound,       \* bound on rounds
    VoteSets,       \* the voter sets a committed block may carry
    NoAuthor        \* no author: a call that checks no proposal

ASSUME ProposersAssumption == Proposers \in Seq(Authors)
ASSUME WeightAssumption == ActiveWeight \in Nat /\ InactiveWeight \in Nat
ASSUME WindowAssumption == WindowSize \in Nat
ASSUME RoundAssumption == MaxRound \in Nat \ {0}
ASSUME PrngAssumption == Prng \in [0..MaxRound -> Nat]
ASSUME VoteSetsAssumption == VoteSets \subseteq SUBSET Authors
ASSUME NoAuthorAssumption == NoAuthor \notin Authors

\* The hard-coded round gap of get_valid_proposers (`round - 4`).
RoundGap == 4

\* Commit of round c needs the 3-chain c, c+1, c+2 certified, so some
\* validator must have reached round c + 3.
CommitDepth == 3

N == Len(Proposers)

\* NewBlockEvent { round, proposer, votes }.
Event == [round : 1..MaxRound, proposer : Authors, votes : SUBSET Authors]

VARIABLES
    chain,      \* committed NewBlockEvents, in commit order
    synced,     \* synced[v]: how long a prefix of chain v's ledger holds
    round,      \* round[v]: v's current round
    call,       \* call[v]: v's get_valid_proposers call in progress
    elected,    \* history: elected[v], v's latest completed election
    accepted    \* history: accepted[v], the authors whose proposals
                \* process_proposal passed in v's current round

vars == <<chain, synced, round, call, elected, accepted>>

\* A call's local state: pc, the round, the window read, the events of v's ledger at or before the target round, the
\* weight vector (overwritten in place by the cumulative sums), the running
\* total_weight and the number k of entries summed so far.
CallState ==
    [pc : {"idle", "sum", "panicked"}, rnd : 0..MaxRound,
     win : SUBSET Event, basis : SUBSET Event,
     acc : Seq(Nat), total : Nat, k : Nat]

IdleCall ==
    [pc |-> "idle", rnd |-> 0, win |-> {}, basis |-> {},
     acc |-> <<>>, total |-> 0, k |-> 0]

\* An election: its round, the leader it named (NoAuthor before v's first
\* election), the window it read and its basis.
Election ==
    [rnd : 0..MaxRound, leader : Authors \cup {NoAuthor},
     win : SUBSET Event, basis : SUBSET Event]

NoElection == [rnd |-> 0, leader |-> NoAuthor, win |-> {}, basis |-> {}]

\* `if round >= 4 { round - 4 } else { 0 }`
TargetRound(r) == IF r >= RoundGap THEN r - RoundGap ELSE 0

\* The round of the newest committed block, 0 before the first.
LastCommittedRound == IF chain = <<>> THEN 0 ELSE chain[Len(chain)].round

\* The ledger of validator v.
View(v) == SubSeq(chain, 1, synced[v])

\* The events of v's ledger that an election at target t should depend on.
Basis(v, t) == {chain[i] : i \in {j \in 1..synced[v] : chain[j].round <= t}}

\* Mutation of ChosenWeight: the draw taken over 0..total_weight inclusive.
ChosenWeightInclusive(c) == Prng[c.rnd] % (c.total + 1)

\* `next(&mut state) % total_weight`
ChosenWeight(c) == Prng[c.rnd] % c.total

\* Mutation of ChosenIndex: the comparator `*w < chosen_weight`, so a
\* cumulative weight equal to the draw selects its own index.
ChosenIndexStrict(c) == Cardinality({j \in 1..N : c.acc[j] < ChosenWeight(c)}) + 1

\* binary_search_by(|w| if *w <= chosen { Less } else { Greater }).unwrap_err()
\* on the cumulative weights: the number of entries <= chosen, as a 1-based
\* index into proposers.
ChosenIndex(c) == Cardinality({j \in 1..N : c.acc[j] <= ChosenWeight(c)}) + 1

-----------------------------------------------------------------------------

Init ==
    /\ chain = <<>>
    /\ synced = [v \in Validators |-> 0]
    /\ round = [v \in Validators |-> 1]
    /\ call = [v \in Validators |-> IdleCall]
    /\ elected = [v \in Validators |-> NoElection]
    /\ accepted = [v \in Validators |-> {}]

\* get_valid_proposers(round) up to the loop: the target round, the read of
\* the ledger, the heuristic; assert_eq! on the lengths holds, since
\* get_weights maps the candidate list.
Start(v) ==
    LET t == TargetRound(round[v])
        w == GetBlockMetadata(View(v), WindowSize, t)
    IN /\ call[v].pc = "idle"
       /\ call' = [call EXCEPT ![v] =
              [pc |-> "sum", rnd |-> round[v], win |-> w,
               basis |-> Basis(v, t),
               acc |-> GetWeights(Proposers, w, ActiveWeight, InactiveWeight),
               total |-> 0, k |-> 0]]
       /\ UNCHANGED <<chain, synced, round, elected, accepted>>

\* Mutation of Accumulate: `*w = total_weight` before `total_weight += *w`,
\* an exclusive prefix sum.
AccumulateExclusive(v) ==
    LET c == call[v]
    IN /\ c.pc = "sum"
       /\ c.k < N
       /\ call' = [call EXCEPT ![v].acc[c.k + 1] = c.total,
                               ![v].total = c.total + c.acc[c.k + 1],
                               ![v].k = c.k + 1]
       /\ UNCHANGED <<chain, synced, round, elected, accepted>>

\* One iteration of `for w in &mut weights { total_weight += *w; *w = total_weight; }`
Accumulate(v) ==
    LET c == call[v]
        s == c.total + c.acc[c.k + 1]
    IN /\ c.pc = "sum"
       /\ c.k < N
       /\ call' = [call EXCEPT ![v].acc[c.k + 1] = s, ![v].total = s,
                               ![v].k = c.k + 1]
       /\ UNCHANGED <<chain, synced, round, elected, accepted>>

\* `% total_weight` with total_weight = 0, or proposers[chosen_index] out of
\* bounds: the call panics and the validator's consensus thread with it.
Panic(v) ==
    LET c == call[v]
    IN /\ c.pc = "sum"
       /\ c.k = N
       /\ IF c.total = 0 THEN TRUE ELSE ChosenIndex(c) > N
       /\ call' = [call EXCEPT ![v].pc = "panicked"]
       /\ UNCHANGED <<chain, synced, round, elected, accepted>>

\* The draw, the binary search and `vec![self.proposers[chosen_index]]`.
\* a is the author of the proposal process_proposal checks, which passes
\* iff a is the leader; NoAuthor for get_valid_proposers and
\* is_valid_proposer, whose answers change no state.  The author is read
\* only after the election, so it is chosen here.
Choose(v, a) ==
    LET c == call[v]
        leader == Proposers[ChosenIndex(c)]
    IN /\ c.pc = "sum"
       /\ c.k = N
       /\ c.total > 0
       /\ ChosenIndex(c) <= N
       /\ elected' = [elected EXCEPT ![v] =
              [rnd |-> c.rnd, leader |-> leader, win |-> c.win, basis |-> c.basis]]
       /\ accepted' = IF a = leader
                         THEN [accepted EXCEPT ![v] = @ \cup {leader}]
                         ELSE accepted
       /\ call' = [call EXCEPT ![v] = IdleCall]
       /\ UNCHANGED <<chain, synced, round>>

-----------------------------------------------------------------------------
(* The environment: the commit path, ledger sync and the pacemaker.  Each *)
(* changes v's state only between calls: the round manager runs them and  *)
(* the election on one thread.                                             *)

\* A block of round c commits; committed rounds strictly increase.
Commit(c, p, vs) ==
    /\ LastCommittedRound < c
    /\ \E u \in Validators : c + CommitDepth <= round[u]
    /\ chain' = Append(chain, [round |-> c, proposer |-> p, votes |-> vs])
    /\ UNCHANGED <<synced, round, call, elected, accepted>>

\* Validator v's ledger stores the next committed block.
Sync(v) ==
    /\ call[v].pc = "idle"
    /\ synced[v] < Len(chain)
    /\ synced' = [synced EXCEPT ![v] = @ + 1]
    /\ UNCHANGED <<chain, round, call, elected, accepted>>

\* Validator v moves to the next round (a QC or a timeout).
AdvanceRound(v) ==
    /\ call[v].pc = "idle"
    /\ round[v] < MaxRound
    /\ round' = [round EXCEPT ![v] = @ + 1]
    /\ accepted' = [accepted EXCEPT ![v] = {}]
    /\ UNCHANGED <<chain, synced, call, elected>>

Next ==
    \/ \E v \in Validators : Start(v) \/ Accumulate(v) \/ Panic(v)
    \/ \E v \in Validators, a \in Authors \cup {NoAuthor} : Choose(v, a)
    \/ \E c \in 1..MaxRound, p \in Authors, vs \in VoteSets : Commit(c, p, vs)
    \/ \E v \in Validators : Sync(v) \/ AdvanceRound(v)

Spec == Init /\ [][Next]_vars

-----------------------------------------------------------------------------

\* Every variable has its type.
TypeOK ==
    /\ chain \in Seq(Event)
    /\ synced \in [Validators -> 0..Len(chain)]
    /\ round \in [Validators -> 1..MaxRound]
    /\ call \in [Validators -> CallState]
    /\ elected \in [Validators -> Election]
    /\ accepted \in [Validators -> SUBSET Authors]

\* get_valid_proposers panics only on a zero total weight: whenever the
\* total is positive, the draw `% total_weight` lands below the last
\* cumulative weight, so the binary search returns an index inside
\* proposers and never the out-of-bounds index N + 1.
SelectionInBounds ==
    \A v \in Validators : call[v].pc = "panicked" => call[v].total = 0

\* The elected leader always carries positive weight: the strict tie-break
\* of the binary search (`*w <= chosen` goes right) skips every candidate
\* whose weight is 0, whose cumulative weight equals its predecessor's.
LeaderWeightPositive ==
    \A v \in Validators :
        LET e == elected[v]
        IN  e.leader # NoAuthor =>
            (IF e.leader \in ActiveSet(e.win) THEN ActiveWeight ELSE InactiveWeight) > 0

\* process_proposal passes at most one author's proposal per validator and
\* round: the leader of a round does not change while a validator is in it.
SingleAcceptedAuthor ==
    \A v \in Validators : Cardinality(accepted[v]) <= 1

=============================================================================
