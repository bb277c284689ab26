------------------------- MODULE MCLeaderReputation -------------------------
(* Small instances of LeaderReputation for TLC. *)
EXTENDS LeaderReputationRefinement, TLC

CONSTANTS v1, v2, a1, a2

MCValidators == {v1, v2}
MCAuthors == {a1, a2}
MCProposers == <<a1, a2>>
\* A stand-in for the pinned pseudo-random function of the round bytes:
\* any fixed function of the round; this one spreads draws over 0..10.
MCPrng == [r \in 0..MaxRound |-> (7 * r + 4) % 11]
MCVoteSets == {{}, {a2}}
\* Committed blocks without votes: activity then comes from proposers alone.
MCNoVotes == {{}}
\* Validators are interchangeable: every property quantifies over all of them.
MCSymmetry == Permutations(MCValidators)
=============================================================================
