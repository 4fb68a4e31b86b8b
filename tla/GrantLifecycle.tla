--------------------------- MODULE GrantLifecycle ---------------------------
(***************************************************************************)
(* What the proposal pipeline promises about each proposal, leaving out    *)
(* votes, parameters and funds: it is settled only out of the approved     *)
(* stage and only in a later ledger than its approval, so there is always  *)
(* a window for objections; settled and cancelled proposals stay so.       *)
(* Approval itself may be taken back and granted again.                    *)
(***************************************************************************)
EXTENDS Naturals

CONSTANT Grants

VARIABLES
  clock,   \* ledger sequence
  stage,   \* stage of each grant
  since    \* ledger of the latest approval, 0 outside "approved"

vars == <<clock, stage, since>>

Stages == {"absent", "open", "approved", "settled", "cancelled"}

Init ==
  /\ clock = 0
  /\ stage = [g \in Grants |-> "absent"]
  /\ since = [g \in Grants |-> 0]

Move(g, from, to, at) ==
  /\ stage[g] \in from
  /\ stage' = [stage EXCEPT ![g] = to]
  /\ since' = [since EXCEPT ![g] = at]
  /\ UNCHANGED clock

Open(g)    == Move(g, {"absent"}, "open", 0)
Approve(g) == Move(g, {"open", "approved"}, "approved", clock)
Reject(g)  == Move(g, {"approved"}, "open", 0)
Cancel(g)  == Move(g, {"open", "approved"}, "cancelled", 0)
Settle(g)  == since[g] < clock /\ Move(g, {"approved"}, "settled", 0)

Tick == clock' = clock + 1 /\ UNCHANGED <<stage, since>>

Next ==
  \/ Tick
  \/ \E g \in Grants : Open(g) \/ Approve(g) \/ Reject(g) \/ Cancel(g) \/ Settle(g)

Spec == Init /\ [][Next]_vars
=============================================================================
