--------------------------- MODULE MetadataBackend ---------------------------
(***************************************************************************)
(* LibraDBBackend::get_block_metadata and ActiveInactiveHeuristic::       *)
(* get_weights of consensus/src/chained_bft/liveness/leader_reputation.rs, *)
(* as pure operators over a ledger view.                                   *)
(*                                                                         *)
(* A ledger view db is a sequence of NewBlockEvents in commit order: the   *)
(* event at index i has sequence number i - 1 in the new-block event       *)
(* stream.  An event is a record [round, proposer, votes].  The order in   *)
(* which the window is returned is not kept: the window is the SET of     *)
(* events it holds, since its one consumer, the active/inactive heuristic, *)
(* only asks which authors occur in it (see Window below).                 *)
(***************************************************************************)
EXTENDS Naturals, Sequences, FiniteSets

\* `let buffer = 10;`: how many events get_block_metadata over-fetches.
Buffer == 10

\* Mutation of Fetched: one event fewer than window_size + buffer.
FetchedShort(db, ws) == {i \in 1..Len(db) : i + (ws + Buffer) > Len(db) + 1}

\* Indices of the events returned by get_events(key, u64::MAX,
\* window_size + buffer): the newest window_size + buffer events.
Fetched(db, ws) == {i \in 1..Len(db) : i + (ws + Buffer) > Len(db)}

\* .filter(|e| e.round() <= target_round) over the fetched events.
Filtered(db, ws, target) == {i \in Fetched(db, ws) : db[i].round <= target}

\* .take(window_size) over a newest-first stream of indices F: an index is
\* taken when fewer than ws newer indices of F precede it.
Taken(F, ws) == {i \in F : Cardinality({j \in F : j > i}) < ws}

\* get_block_metadata(window_size, target_round).  The trailing sort by
\* round only orders the result; as a set it is these events.
GetBlockMetadata(db, ws, target) == {db[i] : i \in Taken(Filtered(db, ws, target), ws)}

\* The authors a history window shows active: every proposer and voter.
ActiveSet(window) == {e.proposer : e \in window} \cup UNION {e.votes : e \in window}

\* ActiveInactiveHeuristic::get_weights(candidates, history).
GetWeights(candidates, window, activeWeight, inactiveWeight) ==
    [i \in 1..Len(candidates) |->
        IF candidates[i] \in ActiveSet(window) THEN activeWeight ELSE inactiveWeight]

=============================================================================
