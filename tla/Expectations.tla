----------------------------- MODULE Expectations -----------------------------
(***************************************************************************)
(* What the repository's documents and tests say of the gateway, and the   *)
(* code does not do.  Each property is checked alone, by a run that finds  *)
(* the behaviour in which it fails.                                        *)
(***************************************************************************)
EXTENDS PayGateway

\* Nothing is in progress, and Stripe has a 2xx for every event it emitted.
Quiescent == /\ \A r \in Requests : ~Live(r)
             /\ \A w \in Workers : hook[w].pc = "idle"
             /\ acked = DOMAIN events

\* "Invalid transitions are logged but not applied" (webhook-flow.md:209): the
\* status a webhook replaces is one its target may follow.  The transition is
\* checked on the row as loaded, and another delivery may have moved it since.
WebhookTransitionsValid ==
  [][\A k \in IdemKeys :
       /\ WebhookServiceNext
       /\ payments[k] # None
       /\ payments'[k].status # payments[k].status
       => CanTransition(payments[k].status, payments'[k].status)]_vars

\* "keep its local database in sync with Stripe's source of truth"
\* (docs/webhooks.md:5): with every event delivered and nothing in progress, a
\* payment whose intent succeeded does not say it is anything else.
CapturesInSync ==
  Quiescent => \A k \in IdemKeys :
    payments[k] # None /\ Captured(payments[k].external_id)
      => payments[k].status \in CapturedStatuses

\* "If total refunded == original amount: payment status = refunded"
\* (webhook-flow.md:152-153): once charge.refunded has been processed and no
\* refund request is in progress.  The handler may run before the refund's
\* INSERT commits, and nothing recomputes the status later.
FullRefundsShown ==
  Quiescent => \A k \in IdemKeys :
    /\ payments[k] # None
    /\ RefundedAmount(k, {}) = payments[k].amount
    /\ \E e \in DOMAIN events : /\ events[e].type = "charge.refunded"
                                /\ events[e].pi = payments[k].external_id
    => payments[k].status \in {"refunded", "disputed"}

\* "return the cached response without re-executing the operation"
\* (system-vision.md:391): the retry of a confirmation that was answered with
\* a 2xx leaves the payment as it is.
RetryRewritesNothing ==
  [][\A r, o \in Requests :
       /\ ConfirmPaymentCommit(r)
       /\ req[o].op = "confirm" /\ req[o].reply = "2xx"
       /\ req[o].key = req[r].key /\ req[o].pay = req[r].pay
       => payments' = payments]_vars
===============================================================================
