----------------------------- MODULE MCAdmission -----------------------------
(***************************************************************************)
(* Admission for TLC: two keys of one prefix, as every key of an           *)
(* environment has, and callers without a key behind one address.  The     *)
(* first key asks for paths of the lower limit; both share one list.       *)
(***************************************************************************)
EXTENDS Admission

KeysOfOnePrefix == [caller \in Callers |-> IF caller = Bearer THEN "ip" ELSE "apikey"]

FirstKey == CHOOSE k \in ApiKeys : TRUE

AsksOfAll == {<<c, IF c = FirstKey THEN 1 ELSE 2>> : c \in Callers}
===============================================================================
