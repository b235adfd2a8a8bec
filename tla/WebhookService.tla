---------------------------- MODULE WebhookService ----------------------------
(***************************************************************************)
(* process_webhook: an event is looked up, its row inserted, the payment   *)
(* loaded, and the handler's change flushed and committed with the row.    *)
(* Stripe delivers an event again, in any order and concurrently with an   *)
(* earlier delivery, until one was answered with a 2xx, and sometimes after.*)
(***************************************************************************)
EXTENDS Database, Stripe

CONSTANTS
  Workers,     \* bound: deliveries in progress at once
  MaxFaults    \* bound: deliveries that fail, or that Stripe need not have made

ASSUME MaxFaultsIsNat == MaxFaults \in Nat

VARIABLES
  hook,    \* Workers -> what the delivery holds
  faults   \* such deliveries so far

hookVars == <<hook, faults>>

(***************************************************************************)
(* event is the position in events; pay the payment found, by its row's    *)
(* key; row and total as loaded; refund the row the object's id names.     *)
(* pc: "new" the event was looked up, "stored" its row is inserted but not *)
(* committed, "found" the payment is read, "loaded" all is read, "handled" *)
(* committed and not answered, "answered" answered and not committed,      *)
(* "raised" rolled back and not answered.                                  *)
(***************************************************************************)
DeliveryStates ==
  [pc    : {"idle", "new", "stored", "found", "loaded", "handled", "answered",
            "raised"},
   event : 0 .. MaxEvents,
   pay   : IdemKeys \cup {None},
   row   : PaymentRows \cup {None},
   total : Nat,
   refund: IdemKeys \cup {None}]

Waiting == [pc |-> "idle", event |-> 0, pay |-> None, row |-> None, total |-> 0,
            refund |-> None]

WebhookInit == /\ hook = [w \in Workers |-> Waiting]
               /\ faults = 0

Stored(e) == \E x \in webhook_events : x.event = e
Processed(e) == [event |-> e, processed |-> TRUE] \in webhook_events

EventAt(w) == events[hook[w].event]
Release(w) == hook' = [hook EXCEPT ![w] = Waiting]
Goto(w, pc) == hook' = [hook EXCEPT ![w].pc = pc]

\* The event types _dispatch_event has a handler for.
Handlers == {"payment_intent.succeeded", "payment_intent.payment_failed",
             "payment_intent.canceled", "payment_intent.processing",
             "payment_intent.requires_action", "charge.refunded",
             "charge.dispute.created"}

\* verify_webhook: refund_provider_id is the object's id in a charge.refund*
\* event, and the object of charge.refunded is the charge.
RefundProviderId(event) ==
  IF event.type \in {"charge.refunded", "charge.refund.updated"}
  THEN event.object ELSE None
-------------------------------------------------------------------------------
\* Wrong: a repeat of a processed event refused.
DeliverOrRefuse(w, e) ==
  /\ hook[w].pc = "idle"
  /\ e \in DOMAIN events
  /\ e \in acked => faults < MaxFaults
  /\ faults' = IF e \in acked THEN faults + 1 ELSE faults
  /\ hook' = [hook EXCEPT ![w] =
       [Waiting EXCEPT !.event = e, !.pc = IF Processed(e) THEN "raised" ELSE "new"]]
  /\ UNCHANGED <<dbVars, stripeVars>>

\* Stripe delivers event e, now and then one it has a 2xx for; the SELECT by
\* event_id ends a repeat at once.
Deliver(w, e) ==
  /\ hook[w].pc = "idle"
  /\ e \in DOMAIN events
  /\ e \in acked => faults < MaxFaults
  /\ faults' = IF e \in acked THEN faults + 1 ELSE faults
  /\ hook' = [hook EXCEPT ![w] =
       [Waiting EXCEPT !.event = e,
                       !.pc = IF Processed(e) THEN "handled"
                              ELSE IF Stored(e) THEN "stored" ELSE "new"]]
  /\ UNCHANGED <<dbVars, stripeVars>>

\* Wrong: the row of an answered delivery blocks nobody.
InsertingUntilAnswer(w) == hook[w].pc \in {"stored", "found", "loaded"}

\* The INSERT and its flush: an uncommitted one of the same event_id blocks it,
\* a committed one makes it an IntegrityError, a 500.
Inserting(w) == hook[w].pc \in {"stored", "found", "loaded", "answered"}

\* Wrong: event_id without its unique index.
StoreEventTwice(w) ==
  /\ hook[w].pc = "new"
  /\ Goto(w, "stored")
  /\ UNCHANGED <<faults, dbVars, stripeVars>>

StoreEvent(w) ==
  /\ hook[w].pc = "new"
  /\ ~ \E o \in Workers : Inserting(o) /\ hook[o].event = hook[w].event
  /\ IF Stored(hook[w].event) THEN Release(w) ELSE Goto(w, "stored")
  /\ UNCHANGED <<faults, dbVars, stripeVars>>

\* _find_payment_by_external_id; only _handle_charge_refunded uses what the
\* relationship "refunds" loads.
FindPayment(w) ==
  /\ hook[w].pc = "stored"
  /\ LET found == IF EventAt(w).type \in Handlers
                  THEN PaymentsOf(EventAt(w).pi) ELSE {}
     IN  \/ /\ found = {}
            /\ Goto(w, "loaded")
         \/ \E k \in found :
              hook' = [hook EXCEPT
                ![w].pc = IF EventAt(w).type = "charge.refunded" THEN "found"
                          ELSE "loaded",
                ![w].pay = k,
                ![w].row = payments[k]]
  /\ UNCHANGED <<faults, dbVars, stripeVars>>

\* The payment's refunds, and the refund row the event names if there is one.
LoadRefunds(w) ==
  /\ hook[w].pc = "found"
  /\ LET named == {x \in IdemKeys : /\ refunds[x] # None
                                    /\ refunds[x].external_id =
                                         RefundProviderId(EventAt(w))}
     IN  /\ hook' = [hook EXCEPT
              ![w].pc = "loaded",
              ![w].total = RefundedAmount(hook[w].pay, named),
              ![w].refund = IF named = {} THEN None
                            ELSE CHOOSE x \in named : TRUE]
  /\ UNCHANGED <<faults, dbVars, stripeVars>>
-------------------------------------------------------------------------------
\* The 200 goes out when the handler has flushed, before get_db commits.
AnswerFirst(w) ==
  /\ ~CommitBeforeResponse
  /\ hook[w].pc = "loaded"
  /\ IF hook[w].pay = None THEN UNCHANGED locks ELSE Lock(<<"payments", hook[w].pay>>)
  /\ Goto(w, "answered")
  /\ acked' = acked \cup {hook[w].event}
  /\ UNCHANGED <<faults, payments, refunds, webhook_events, audit_log,
                 intents, stripe_refunds, saved, events>>

\* The event's row is committed as processed, with what the handler wrote.
ReadyToCommit(w) ==
  hook[w].pc = IF CommitBeforeResponse THEN "loaded" ELSE "answered"

MarkProcessed(w) ==
  /\ webhook_events' = webhook_events \cup
                         {[event |-> hook[w].event, processed |-> TRUE]}
  /\ IF CommitBeforeResponse THEN Goto(w, "handled") ELSE Release(w)
  /\ Unlock(<<"payments", hook[w].pay>>)
  /\ UNCHANGED <<faults, stripeVars>>

Handling(w, type) == /\ ReadyToCommit(w)
                     /\ hook[w].pay # None
                     /\ EventAt(w).type = type

\* The handler's change of the row it loaded, if the transition is allowed.
Apply(w, target, new) ==
  IF CanTransition(hook[w].row.status, target)
  THEN Flush(hook[w].pay, hook[w].row, new)
  ELSE UNCHANGED payments

\* Wrong: the call of log_action forgotten.
LogForgotten(w, target, action) == UNCHANGED audit_log

\* The audit row of a handler that returns early without one.
LogApplied(w, target, action) ==
  IF CanTransition(hook[w].row.status, target)
  THEN LogAction(action, hook[w].pay, hook[w].event)
  ELSE UNCHANGED audit_log

\* No handler for the type, or a payment that is not there: processed all the same.
HandleNothing(w) ==
  /\ ReadyToCommit(w)
  /\ hook[w].pay = None
  /\ UNCHANGED <<payments, refunds, audit_log>>
  /\ MarkProcessed(w)

HandlePaymentSucceeded(w) ==
  /\ Handling(w, "payment_intent.succeeded")
  /\ Apply(w, "succeeded",
           [hook[w].row EXCEPT !.status = "succeeded", !.confirmed_at = TRUE])
  /\ LogApplied(w, "succeeded", "payment.confirmed_via_webhook")
  /\ UNCHANGED refunds
  /\ MarkProcessed(w)

HandlePaymentFailed(w) ==
  /\ Handling(w, "payment_intent.payment_failed")
  /\ Apply(w, "failed",
           [hook[w].row EXCEPT !.status = "failed", !.failure_code = TRUE])
  /\ LogApplied(w, "failed", "payment.failed_via_webhook")
  /\ UNCHANGED refunds
  /\ MarkProcessed(w)

HandlePaymentCanceled(w) ==
  /\ Handling(w, "payment_intent.canceled")
  /\ Apply(w, "canceled",
           [hook[w].row EXCEPT !.status = "canceled", !.canceled_at = TRUE])
  /\ LogApplied(w, "canceled", "payment.canceled_via_webhook")
  /\ UNCHANGED refunds
  /\ MarkProcessed(w)

\* These two write no audit row.
HandlePaymentProcessing(w) ==
  /\ Handling(w, "payment_intent.processing")
  /\ Apply(w, "processing", [hook[w].row EXCEPT !.status = "processing"])
  /\ UNCHANGED <<refunds, audit_log>>
  /\ MarkProcessed(w)

HandlePaymentRequiresAction(w) ==
  /\ Handling(w, "payment_intent.requires_action")
  /\ Apply(w, "requires_action", [hook[w].row EXCEPT !.status = "requires_action"])
  /\ UNCHANGED <<refunds, audit_log>>
  /\ MarkProcessed(w)

\* These two write an audit row whether the status changes or not.
HandleChargeRefunded(w) ==
  /\ Handling(w, "charge.refunded")
  /\ refunds' = IF hook[w].refund = None THEN refunds
                ELSE [refunds EXCEPT ![hook[w].refund].status = "succeeded"]
  /\ LET new_status == IF hook[w].total >= hook[w].row.amount
                       THEN "refunded" ELSE "partially_refunded"
     IN  Apply(w, new_status, [hook[w].row EXCEPT !.status = new_status])
  /\ LogAction("refund.completed_via_webhook", hook[w].pay, hook[w].event)
  /\ MarkProcessed(w)

HandleDisputeCreated(w) ==
  /\ Handling(w, "charge.dispute.created")
  /\ Apply(w, "disputed", [hook[w].row EXCEPT !.status = "disputed"])
  /\ LogAction("payment.disputed", hook[w].pay, hook[w].event)
  /\ UNCHANGED refunds
  /\ MarkProcessed(w)

HandleEvent(w) ==
  \/ HandleNothing(w)
  \/ HandlePaymentSucceeded(w) \/ HandlePaymentFailed(w)
  \/ HandlePaymentCanceled(w) \/ HandlePaymentProcessing(w)
  \/ HandlePaymentRequiresAction(w)
  \/ HandleChargeRefunded(w) \/ HandleDisputeCreated(w)
-------------------------------------------------------------------------------
\* Stripe gets the 200 after the commit.
AnswerOk(w) ==
  /\ hook[w].pc = "handled"
  /\ Release(w)
  /\ acked' = acked \cup {hook[w].event}
  /\ UNCHANGED <<faults, dbVars, intents, stripe_refunds, saved, events>>

\* A statement of the handler fails: processing_error is set on the row, the
\* exception goes on to get_db, and its rollback takes the row away.
HandlerRaises(w) ==
  /\ hook[w].pc \in {"stored", "found", "loaded"}
  /\ faults < MaxFaults
  /\ faults' = faults + 1
  /\ Goto(w, "raised")
  /\ UNCHANGED <<dbVars, stripeVars>>

\* Wrong: a 200 for the failure.
AnswerErrorOk(w) ==
  /\ hook[w].pc = "raised"
  /\ Release(w)
  /\ acked' = acked \cup {hook[w].event}
  /\ UNCHANGED <<faults, dbVars, intents, stripe_refunds, saved, events>>

AnswerError(w) ==
  /\ hook[w].pc = "raised"
  /\ Release(w)
  /\ UNCHANGED <<faults, dbVars, stripeVars>>

\* The process dies, the commit fails, or the answer never reaches Stripe.
Drop(w) ==
  /\ hook[w].pc # "idle"
  /\ faults < MaxFaults
  /\ faults' = faults + 1
  /\ Release(w)
  /\ IF hook[w].pc = "answered" THEN Unlock(<<"payments", hook[w].pay>>)
     ELSE UNCHANGED locks
  /\ UNCHANGED <<payments, refunds, webhook_events, audit_log, stripeVars>>

WebhookServiceStep(w) ==
  \/ StoreEvent(w) \/ FindPayment(w) \/ LoadRefunds(w) \/ HandleEvent(w)
  \/ AnswerFirst(w) \/ AnswerOk(w) \/ AnswerError(w)

WebhookServiceNext ==
  \E w \in Workers :
    \/ \E e \in 1 .. MaxEvents : Deliver(w, e)
    \/ WebhookServiceStep(w)
    \/ HandlerRaises(w)
    \/ Drop(w)
===============================================================================
