------------------------- MODULE MCMilestoneEscrow --------------------------
(* MilestoneEscrow on a small instance. *)
EXTENDS MilestoneEscrow, TLC

Interchangeable ==
  Permutations(Proposals) \cup Permutations(MilestoneIds) \cup
  Permutations(Contracts) \cup Permutations(DisputeIds)
=============================================================================
