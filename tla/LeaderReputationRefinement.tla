-------------------------- MODULE LeaderReputationRefinement --------------------------
(***************************************************************************)
(* LeaderReputation implements ElectionSpec.  The refinement mapping hides *)
(* the local state of a call: a validator is halted when its call has      *)
(* panicked.  Start and Accumulate change only that local state and map to *)
(* stutters, Choose maps to Elect and Panic to Halt; the environment maps  *)
(* to itself.                                                              *)
(***************************************************************************)
EXTENDS LeaderReputation

Halted == {v \in Validators : call[v].pc = "panicked"}

Abstract == INSTANCE ElectionSpec WITH halted <- Halted

\* get_valid_proposers, loop and binary search included, computes what the
\* one-step election promises: the candidate whose interval of cumulative
\* weights holds the draw, read from the ledger as it stood at the call, and
\* it panics only when the weights sum to 0.
ImplementsElection == Abstract!Spec
=============================================================================
