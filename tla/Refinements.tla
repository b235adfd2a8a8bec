------------------------------ MODULE Refinements ------------------------------
(***************************************************************************)
(* PayGateway as an implementation of the two ledgers.                     *)
(***************************************************************************)
EXTENDS PayGateway

\* The actor of an audit row tells requests and events apart.
ASSUME RequestsAreNoEvents == Requests \cap (1 .. MaxEvents) = {}

\* The audit rows that the handler of event e may write.
EffectsOf(e) == [action : AuditActions, pay : IdemKeys, by : {e}]

EffectsLogged ==
  [entry \in {x \in DOMAIN audit_log : x.by \in 1 .. MaxEvents} |-> audit_log[entry]]

Deliveries == INSTANCE EventLedger WITH
  Effects <- EffectsOf,
  sent <- DOMAIN events,
  applied <- {e \in 1 .. MaxEvents : Processed(e)},
  log <- EffectsLogged,
  acknowledged <- acked

FateOf(pi) == IF intents[pi] = None THEN "absent"
              ELSE IF Captured(pi) THEN "captured"
              ELSE IF Abandoned(pi) THEN "abandoned" ELSE "open"

RecordOf(k) ==
  IF payments[k] = None THEN None
  ELSE [intent |-> payments[k].external_id,
        captured |-> payments[k].status \in CapturedStatuses,
        abandoned |-> payments[k].status = "canceled",
        confirmed |-> payments[k].confirmed_at,
        canceled |-> payments[k].canceled_at]

Merchants == INSTANCE PaymentLedger WITH
  Keys <- IdemKeys,
  fate <- [pi \in Intents |-> FateOf(pi)],
  record <- [k \in IdemKeys |-> RecordOf(k)]

\* Deliveries that overlap, repeat, fail and crash at any point come to this for
\* Stripe: each event is applied in one step, once, and acknowledged after it.
\* With the commit after the response it is not so.
ImplementsEventLedger == Deliveries!Spec

\* Requests and deliveries that overwrite each other's rows come to this for a
\* merchant: records that keep their intent and dates, and claim what is so.
ImplementsPaymentLedger == Merchants!Spec
===============================================================================
