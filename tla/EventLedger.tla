------------------------------ MODULE EventLedger ------------------------------
(***************************************************************************)
(* What Stripe may rely on: an event is applied once, at one moment and    *)
(* with all of its effects, and acknowledged only after that.  Nothing is  *)
(* said of deliveries, which may be many and at once.                      *)
(***************************************************************************)
EXTENDS Integers, Bags

CONSTANTS
  MaxEvents,   \* bound: events in a behaviour
  Effects(_)   \* the audit rows an event may leave

VARIABLES
  sent,          \* the events there are
  applied,       \* those that have been applied
  log,           \* the bag of their effects
  acknowledged   \* those that Stripe need not deliver again

vars == <<sent, applied, log, acknowledged>>

Init == sent = {} /\ applied = {} /\ log = EmptyBag /\ acknowledged = {}

Send(e) == /\ sent' = sent \cup {e}
           /\ UNCHANGED <<applied, log, acknowledged>>

\* At most one effect, and never a second time.
Apply(e) == /\ e \in sent \ applied
            /\ applied' = applied \cup {e}
            /\ \/ UNCHANGED log
               \/ \E effect \in Effects(e) : log' = log (+) SetToBag({effect})
            /\ UNCHANGED <<sent, acknowledged>>

Acknowledge(e) == /\ e \in applied
                  /\ acknowledged' = acknowledged \cup {e}
                  /\ UNCHANGED <<sent, applied, log>>

Next == \E e \in 1 .. MaxEvents : Send(e) \/ Apply(e) \/ Acknowledge(e)

Spec == Init /\ [][Next]_vars
===============================================================================
