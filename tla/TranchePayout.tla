--------------------------- MODULE TranchePayout ----------------------------
(***************************************************************************)
(* What an escrow promises about the money of each grant, leaving out how  *)
(* large a tranche is and who may ask for it: the scholar is paid out of   *)
(* what is left; the treasury takes back either nothing or, once and for   *)
(* all, everything that is left; after that nobody is paid.                *)
(***************************************************************************)
EXTENDS Naturals

CONSTANTS Grants, Sums

VARIABLES
  funded,    \* what was put into the escrow of a grant, 0 before
  scholar,   \* what the scholar of a grant received
  treasury   \* what the treasury took back from a grant

vars == <<funded, scholar, treasury>>

Left(g) == funded[g] - (scholar[g] + treasury[g])

Init ==
  /\ funded = [g \in Grants |-> 0]
  /\ scholar = [g \in Grants |-> 0]
  /\ treasury = [g \in Grants |-> 0]

Fund(g) ==
  /\ funded[g] = 0
  /\ \E sum \in Sums : funded' = [funded EXCEPT ![g] = sum]
  /\ UNCHANGED <<scholar, treasury>>

Pay(g) ==
  /\ treasury[g] = 0
  /\ \E sum \in 1 .. Left(g) : scholar' = [scholar EXCEPT ![g] = @ + sum]
  /\ UNCHANGED <<funded, treasury>>

TakeBack(g) ==
  /\ Left(g) > 0
  /\ treasury' = [treasury EXCEPT ![g] = Left(g)]
  /\ UNCHANGED <<funded, scholar>>

Next == \E g \in Grants : Fund(g) \/ Pay(g) \/ TakeBack(g)

Spec == Init /\ [][Next]_vars
=============================================================================
