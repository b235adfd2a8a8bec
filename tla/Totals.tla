-------------------------------- MODULE Totals --------------------------------
(***************************************************************************)
(* Sums of amounts.  The sum of a function to the natural numbers is the   *)
(* number of its units: a fold computes the same, but what a fold computes *)
(* takes an induction to know, and of sets there are theorems.             *)
(***************************************************************************)
EXTENDS Naturals, FiniteSets

Units(f) == UNION {{x} \X (1 .. f[x]) : x \in DOMAIN f}

Total(f) == Cardinality(Units(f))
===============================================================================
