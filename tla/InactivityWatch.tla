-------------------------- MODULE InactivityWatch ---------------------------
(***************************************************************************)
(* What the escrow contract promises to the server that reclaims for       *)
(* inactivity, leaving out money, tranches and dates: an escrow becomes    *)
(* overdue by the passing of time alone, every payment makes it wait the   *)
(* whole window again, only an overdue one is reclaimed, and one that is   *)
(* spent stays so.  MilestoneEscrow keeps the promise, and EscrowTimeouts  *)
(* supposes no more than it of the contract it calls.                      *)
(***************************************************************************)

CONSTANT Grants

VARIABLE stage   \* of the escrow of each grant

Move(g, to) == stage' = [stage EXCEPT ![g] = to]

Init == stage = [g \in Grants |-> "none"]

Fund(g) == stage[g] = "none" /\ Move(g, "open")

Pay(g) ==
  /\ stage[g] \in {"open", "overdue"}
  /\ Move(g, "open") \/ Move(g, "spent")

Reclaim(g) == stage[g] = "overdue" /\ Move(g, "spent")

\* The windows of some escrows end, be it all at once.
Age ==
  \E due \in SUBSET {g \in Grants : stage[g] = "open"} :
    stage' = [g \in Grants |-> IF g \in due THEN "overdue" ELSE stage[g]]

Next == Age \/ \E g \in Grants : Fund(g) \/ Pay(g) \/ Reclaim(g)

Spec == Init /\ [][Next]_stage
=============================================================================
