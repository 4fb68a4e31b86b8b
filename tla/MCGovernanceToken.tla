------------------------- MODULE MCGovernanceToken --------------------------
(* GovernanceToken on a small instance. *)
EXTENDS GovernanceToken, TLC

AccountSymmetry == Permutations(Accounts)
=============================================================================
