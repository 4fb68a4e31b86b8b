------------------------- MODULE MCScholarBalances --------------------------
(* ScholarBalances on a small instance. *)
EXTENDS ScholarBalances
=============================================================================
