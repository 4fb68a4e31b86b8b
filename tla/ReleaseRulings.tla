--------------------------- MODULE ReleaseRulings ---------------------------
(***************************************************************************)
(* What an arbitration contract promises to an escrow, leaving out jurors, *)
(* votes and stakes: a dispute comes to release one milestone or none, a   *)
(* release is never taken back or changed, and a milestone is released by  *)
(* one dispute at most.  MilestoneArbitration keeps the promise, and       *)
(* MilestoneEscrow supposes no more than it of each contract it is given.  *)
(***************************************************************************)

CONSTANTS
  Disputes,     \* ids of disputes
  Milestones,   \* what disputes are about
  NoRuling      \* no decision yet, or the rejection is upheld

VARIABLE
  ruling        \* the milestone each dispute releases

Init == ruling = [d \in Disputes |-> NoRuling]

Rule(d, m) ==
  /\ ruling[d] = NoRuling
  /\ \A e \in Disputes : ruling[e] # m
  /\ ruling' = [ruling EXCEPT ![d] = m]

Next == \E d \in Disputes, m \in Milestones : Rule(d, m)

Spec == Init /\ [][Next]_ruling
=============================================================================
