------------------------------- MODULE Totals -------------------------------
(***************************************************************************)
(* The sum of a function over a finite set, as the size of a set of units: *)
(* unit <<a, i>> is the i-th of the f[a] units that a holds.               *)
(***************************************************************************)
EXTENDS Naturals, FiniteSets

UnitsOf(f, A) == UNION {{a} \X (1 .. f[a]) : a \in A}

Total(f, A) == Cardinality(UnitsOf(f, A))
=============================================================================
