----------------------------- MODULE PaymentLedger -----------------------------
(***************************************************************************)
(* What a merchant may rely on: each payment is recorded for one intent    *)
(* for good, its record claims only what has become of that intent, and a  *)
(* date once recorded stays.  Nothing is said of who records it or when.   *)
(***************************************************************************)
CONSTANTS
  Keys,      \* the keys payments are recorded under
  Intents,
  None

VARIABLES
  fate,    \* Intents -> what has become of the intent
  record   \* Keys -> what is recorded of the payment, or None

vars == <<fate, record>>

Fates == {"absent", "open", "captured", "abandoned"}

\* captured, abandoned: the status says so; confirmed, canceled: there is a date.
Records == [intent : Intents, captured : BOOLEAN, abandoned : BOOLEAN,
            confirmed : BOOLEAN, canceled : BOOLEAN]

Init == /\ fate = [pi \in Intents |-> "absent"]
        /\ record = [k \in Keys |-> None]

\* An intent is made, and then captured or abandoned for good.
Proceed(pi) ==
  /\ \E to \in Fates : /\ <<fate[pi], to>> \in {<<"absent", "open">>, <<"open", "captured">>,
                                               <<"open", "abandoned">>}
                       /\ fate' = [fate EXCEPT ![pi] = to]
  /\ UNCHANGED record

Truthful(new) == /\ fate[new.intent] # "absent"
                 /\ new.captured \/ new.confirmed => fate[new.intent] = "captured"
                 /\ new.abandoned \/ new.canceled => fate[new.intent] = "abandoned"

\* A status may be withdrawn, by an answer older than the record; a date not.
Follows(old, new) == /\ new.intent = old.intent
                     /\ old.confirmed => new.confirmed
                     /\ old.canceled => new.canceled

Write(k) == /\ \E new \in Records :
                 /\ Truthful(new)
                 /\ record[k] # None => Follows(record[k], new)
                 /\ record' = [record EXCEPT ![k] = new]
            /\ UNCHANGED fate

Next == (\E pi \in Intents : Proceed(pi)) \/ (\E k \in Keys : Write(k))

Spec == Init /\ [][Next]_vars
===============================================================================
