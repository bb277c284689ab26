---------------------------- MODULE BackendWindow ----------------------------
(***************************************************************************)
(* LibraDBBackend::get_block_metadata against the contract the spec gives *)
(* it, over every ledger TLC can grow within the bounds.  The ledger is   *)
(* the new-block event stream: the commit path appends one NewBlockEvent  *)
(* per committed block, with strictly increasing rounds.  Which author    *)
(* proposed or voted plays no part in which events a window holds, so     *)
(* every event here has the one proposer P and no votes.                   *)
(***************************************************************************)
EXTENDS MetadataBackend

CONSTANTS
    MaxRound,   \* bound on committed rounds
    WindowSize, \* `window_size`
    P           \* the proposer of every event

ASSUME BoundsAssumption == MaxRound \in Nat /\ WindowSize \in Nat

VARIABLE db     \* the ledger's new-block events, in commit order

LastRound == IF db = <<>> THEN 0 ELSE db[Len(db)].round

Init == db = <<>>

\* A block of round c commits: its NewBlockEvent is appended to the stream.
Commit(c) ==
    /\ LastRound < c
    /\ db' = Append(db, [round |-> c, proposer |-> P, votes |-> {}])

Next == \E c \in 1..MaxRound : Commit(c)

Spec == Init /\ [][Next]_db

\* The window the spec's MetadataBackend contract promises: the most recent
\* window_size committed records with round <= target_round (fewer only if
\* fewer exist), whatever the number of records committed after them.
ContractWindow(target) ==
    LET atOrBefore == {i \in 1..Len(db) : db[i].round <= target}
    IN  {db[i] : i \in {j \in atOrBefore :
                           Cardinality({k \in atOrBefore : k > j}) < WindowSize}}

\* get_block_metadata(window_size, target_round) returns the contract's
\* window for every target round (spec: history 1..50, window 20, target 30
\* gives exactly rounds 11..30).
WindowMatchesContract ==
    \A target \in 0..MaxRound : GetBlockMetadata(db, WindowSize, target) = ContractWindow(target)

\* The over-fetch of get_block_metadata suffices up to its size: whenever
\* at most `buffer` committed events lie above the target round, the window
\* is exactly the contract's (the newest window_size + 10 events fetched
\* still hold the newest window_size events at or before the target).
NewerThan(target) == Cardinality({i \in 1..Len(db) : db[i].round > target})

WindowExactWithinBuffer ==
    \A target \in 0..MaxRound :
        NewerThan(target) <= Buffer =>
            GetBlockMetadata(db, WindowSize, target) = ContractWindow(target)

\* The ledger of a validator that has synced only the first k events.
SyncedTo(k) == SubSeq(db, 1, k)

\* Two validators that have observed the same committed prefix, every event
\* at or before the target round, read the same window for that target,
\* however far one of them has synced past it (the spec's "critical ordering
\* guarantee": byte-identical HistoryWindow results for the same
\* (window_size, target_round)).  The two ledgers are the first k events and
\* all of db, prefixes of the one committed stream.
PrefixAgreement ==
    \A k \in 0..Len(db), target \in 0..MaxRound :
        (\A i \in 1..Len(db) : db[i].round <= target => i <= k) =>
            GetBlockMetadata(SyncedTo(k), WindowSize, target)
                = GetBlockMetadata(db, WindowSize, target)
=============================================================================
