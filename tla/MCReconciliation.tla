--------------------------- MODULE MCReconciliation ---------------------------
(***************************************************************************)
(* Reconciliation for TLC: with two ticks in a second, ranges that begin   *)
(* and end within one and ranges of whole seconds.                         *)
(***************************************************************************)
EXTENDS Reconciliation

RangesOf3Ticks == {<<0, 2>>, <<1, 3>>, <<2, 4>>}
===============================================================================
