----------------------------- MODULE ElectionSpec -----------------------------
(***************************************************************************)
(* What the leader-reputation election promises, with no loop: an        *)
(* election is one atomic step that reads the validator's ledger and names *)
(* the candidate in whose interval of the cumulative weights the seeded    *)
(* draw falls, or halts the validator when the weights sum to 0.  The      *)
(* environment (commits, ledger sync, rounds) is that of LeaderReputation; *)
(* a halted validator takes no further step.                               *)
(***************************************************************************)
EXTENDS MetadataBackend

CONSTANTS Validators, Authors, Proposers, WindowSize, ActiveWeight,
          InactiveWeight, Prng, MaxRound, VoteSets, NoAuthor

VARIABLES chain, synced, round, elected, accepted,
          halted    \* the validators whose election thread has panicked

avars == <<chain, synced, round, elected, accepted, halted>>

Target(r) == IF r >= 4 THEN r - 4 ELSE 0

Ledger(v) == SubSeq(chain, 1, synced[v])

Settled(v, t) == {chain[i] : i \in {j \in 1..synced[v] : chain[j].round <= t}}

\* The unit slots of candidates 1..i: candidate j holds w[j] of them.
Slots(w, i) == UNION {{j} \X (1..w[j]) : j \in 1..i}

\* The weight of candidates 1..i, the number of their slots: the upper end
\* of candidate i's interval.
UpTo(w, i) == Cardinality(Slots(w, i))

\* The candidate whose interval [UpTo(w, i - 1), UpTo(w, i)) holds d.
Pick(w, d) == CHOOSE i \in 1..Len(w) : UpTo(w, i - 1) <= d /\ d < UpTo(w, i)

Init ==
    /\ chain = <<>>
    /\ synced = [v \in Validators |-> 0]
    /\ round = [v \in Validators |-> 1]
    /\ elected = [v \in Validators |->
                     [rnd |-> 0, leader |-> NoAuthor, win |-> {}, basis |-> {}]]
    /\ accepted = [v \in Validators |-> {}]
    /\ halted = {}

\* Validator v elects the leader of its round; a proposal by a passes iff
\* a is that leader.
Elect(v, a) ==
    LET t == Target(round[v])
        win == GetBlockMetadata(Ledger(v), WindowSize, t)
        w == GetWeights(Proposers, win, ActiveWeight, InactiveWeight)
        leader == Proposers[Pick(w, Prng[round[v]] % UpTo(w, Len(w)))]
    IN /\ v \notin halted
       /\ UpTo(w, Len(w)) > 0
       /\ elected' = [elected EXCEPT ![v] =
              [rnd |-> round[v], leader |-> leader, win |-> win,
               basis |-> Settled(v, t)]]
       /\ accepted' = IF a = leader
                         THEN [accepted EXCEPT ![v] = @ \cup {leader}]
                         ELSE accepted
       /\ UNCHANGED <<chain, synced, round, halted>>

\* An election over weights summing to 0 halts the validator.
Halt(v) ==
    LET w == GetWeights(Proposers,
                 GetBlockMetadata(Ledger(v), WindowSize, Target(round[v])),
                 ActiveWeight, InactiveWeight)
    IN /\ v \notin halted
       /\ UpTo(w, Len(w)) = 0
       /\ halted' = halted \cup {v}
       /\ UNCHANGED <<chain, synced, round, elected, accepted>>

Commit(c, p, vs) ==
    /\ IF chain = <<>> THEN TRUE ELSE chain[Len(chain)].round < c
    /\ \E u \in Validators : c + 3 <= round[u]
    /\ chain' = Append(chain, [round |-> c, proposer |-> p, votes |-> vs])
    /\ UNCHANGED <<synced, round, elected, accepted, halted>>

Sync(v) ==
    /\ v \notin halted
    /\ synced[v] < Len(chain)
    /\ synced' = [synced EXCEPT ![v] = @ + 1]
    /\ UNCHANGED <<chain, round, elected, accepted, halted>>

AdvanceRound(v) ==
    /\ v \notin halted
    /\ round[v] < MaxRound
    /\ round' = [round EXCEPT ![v] = @ + 1]
    /\ accepted' = [accepted EXCEPT ![v] = {}]
    /\ UNCHANGED <<chain, synced, elected, halted>>

Next ==
    \/ \E v \in Validators, a \in Authors \cup {NoAuthor} : Elect(v, a)
    \/ \E v \in Validators : Halt(v) \/ Sync(v) \/ AdvanceRound(v)
    \/ \E c \in 1..MaxRound, p \in Authors, vs \in VoteSets : Commit(c, p, vs)

Spec == Init /\ [][Next]_avars
=============================================================================
