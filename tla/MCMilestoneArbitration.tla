---------------------- MODULE MCMilestoneArbitration ------------------------
(* MilestoneArbitration on a small instance. *)
EXTENDS MilestoneArbitration, TLC

JurorSymmetry == Permutations(Jurors)
=============================================================================
