------------------------- MODULE MCMilestoneReview --------------------------
(* MilestoneReview on a small instance. *)
EXTENDS MilestoneReview, TLC

Symmetry == Permutations(Requests) \cup Permutations(Reports)

\* A bound of the exploration: a request begins when its first read finds what it
\* needs.  One that begins earlier is refused, which changes nothing, or does what
\* it would have done beginning right before that read, with more overlaps.
BeginsInTime ==
  \A h \in Requests : At(h, "idle") /\ ~At(h, "idle")' =>
    LET q == request'[h]
        found == status[Head(q.todo)]
    IN  IF q.kind = "submit" THEN found \in {"none", "rejected"} ELSE found = Expected(q.kind)
=============================================================================
