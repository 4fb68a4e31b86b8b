----------------------- MODULE MCScholarshipTreasury -----------------------
(***************************************************************************)
(* Instances of ScholarshipTreasury for TLC.                               *)
(***************************************************************************)
EXTENDS ScholarshipTreasury, TLC

\* One vote of weight 100 meets the quorum; a majority above one half passes;
\* voting and timelock last one ledger.
MCParams ==
  [quorum |-> 100, approvalBps |-> 5000, votingPeriod |-> 1, timelock |-> 1,
   maxAllocBps |-> 10000, bufferBps |-> 2000]

\* Voters are interchangeable: no parameter and no guard names one of them.
VoterSymmetry == Permutations(Voters)
=============================================================================
