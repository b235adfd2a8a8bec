------------------------------ MODULE PayGateway ------------------------------
(***************************************************************************)
(* The gateway: concurrent requests and webhook deliveries, each with its  *)
(* own session, over one database and one Stripe account.                  *)
(***************************************************************************)
EXTENDS PaymentService, RefundService, WebhookService

vars == <<dbVars, stripeVars, req, hookVars>>

Init == DbInit /\ StripeInit /\ SessionInit /\ WebhookInit

SessionNext ==
  \E r \in Requests : InsertConflicts(r) \/ RespondFirst(r) \/ Rollback(r)

\* The customer has the client_secret from the answer to a creation.
CustomerNext ==
  \E r \in Requests, pi \in Intents :
    /\ req[r].op = "create"
    /\ req[r].reply = "2xx"
    /\ saved[req[r].key].ans.pi = pi
    /\ CustomerPays(pi)

Next == \/ PaymentServiceNext /\ UNCHANGED hookVars
        \/ RefundServiceNext /\ UNCHANGED hookVars
        \/ SessionNext /\ UNCHANGED hookVars
        \/ WebhookServiceNext /\ UNCHANGED req
        \/ CustomerNext /\ UNCHANGED <<dbVars, req, hookVars>>
        \/ StripeNext /\ UNCHANGED <<dbVars, req, hookVars>>

Spec == Init /\ [][Next]_vars

(***************************************************************************)
(* A delivery in progress is carried on by the event loop, and Stripe      *)
(* retries an event it has no 2xx for.  Nothing makes clients, customers   *)
(* or banks act.                                                           *)
(***************************************************************************)
Fairness ==
  /\ \A w \in Workers : WF_vars(WebhookServiceStep(w) /\ UNCHANGED req)
  /\ \A e \in 1 .. MaxEvents :
       WF_vars(e \notin acked /\ (\E w \in Workers : Deliver(w, e)) /\ UNCHANGED req)

FairSpec == Spec /\ Fairness
-------------------------------------------------------------------------------
DatabaseTypeOK ==
  /\ payments \in [IdemKeys -> PaymentRows \cup {None}]
  /\ refunds \in [IdemKeys -> RefundRows \cup {None}]
  /\ webhook_events \subseteq [event : 1 .. MaxEvents, processed : BOOLEAN]
  /\ DOMAIN audit_log \subseteq [action : AuditActions, pay : IdemKeys,
                                by : Requests \cup (1 .. MaxEvents)]
  /\ locks \subseteq Rows

StripeTypeOK ==
  /\ intents \in [Intents -> PaymentIntents \cup {None}]
  /\ stripe_refunds \in [RefundIds -> Refunds \cup {None}]
  /\ saved \in [IdemKeys -> SavedAnswers \cup {None}]
  /\ events \in Seq(Events)
  /\ Len(events) <= MaxEvents
  /\ acked \subseteq 1 .. MaxEvents

\* Every table, every object at Stripe, every request and every delivery has
\* the shape the services give it.
TypeOK ==
  /\ DatabaseTypeOK
  /\ StripeTypeOK
  /\ req \in [Requests -> RequestStates]
  /\ hook \in [Workers -> DeliveryStates]
  /\ faults \in 0 .. MaxFaults
-------------------------------------------------------------------------------
\* Stripe's charge for intent pi is taken, or the intent is given up for good.
Captured(pi) == intents[pi].status = "succeeded"
Abandoned(pi) == intents[pi].status = "canceled"

\* What a status claims of the intent.
Agrees(status, pi) == /\ status \in CapturedStatuses => Captured(pi)
                      /\ status = "canceled" => Abandoned(pi)

\* What a row claims is so at Stripe: a captured status or confirmed_at only
\* with a succeeded intent, "canceled" or canceled_at only with a canceled one.
RowSound(row) == /\ intents[row.external_id] # None
                 /\ Agrees(row.status, row.external_id)
                 /\ row.confirmed_at => Captured(row.external_id)
                 /\ row.canceled_at => Abandoned(row.external_id)

\* No payment ever claims what is not so, whatever stale snapshots, replayed
\* answers and late events its concurrent writers act on.
StatusSound == \A k \in IdemKeys : payments[k] # None => RowSound(payments[k])

\* A set timestamp has its audit row: confirmation and cancellation are
\* committed with it, by whichever of the two paths wrote it.
TimestampsAudited ==
  \A k \in IdemKeys : payments[k] # None =>
    /\ payments[k].confirmed_at =>
         AuditedAs(k, {"payment.confirmed", "payment.confirmed_via_webhook"})
    /\ payments[k].canceled_at =>
         AuditedAs(k, {"payment.canceled", "payment.canceled_via_webhook"})

TimestampsKept ==
  \A k \in IdemKeys : payments[k] # None =>
    /\ payments[k].confirmed_at => payments'[k].confirmed_at
    /\ payments[k].canceled_at => payments'[k].canceled_at

\* A concurrent session that loaded the row earlier never takes a committed
\* timestamp back: the flush writes the columns its handler changed only.
TimestampsStay == [][TimestampsKept]_vars
-------------------------------------------------------------------------------
\* Retried, concurrent and crashed creations: a row has the amount of its
\* intent, no two rows share one, and an intent without a row is the saved
\* answer of a key that has no row either, so that a retry records it.
CreationsRecoverable ==
  /\ \A k \in IdemKeys : payments[k] # None =>
       payments[k].amount = intents[payments[k].external_id].amount
  /\ \A pi \in Intents : intents[pi] # None =>
       \E k \in IdemKeys :
         /\ saved[k] # None /\ saved[k].call.op = "create"
         /\ saved[k].ans.pi = pi
         /\ PaymentsOf(pi) \in {{}, {k}}
         /\ payments[k] # None => payments[k].external_id = pi

\* A client that was told its payment is created finds it.
CreatedIsStored ==
  \A r \in Requests :
    req[r].op = "create" /\ req[r].reply = "2xx" => payments[req[r].pay] # None

\* Creations with one key under one API key never collide in the INSERT: the
\* row lock on api_keys makes the second wait until it can find the first's row.
\* So a creation that will collide was authenticated by a JWT, or the row is
\* another credential's.
CollisionsAcrossCredentials ==
  \A r \in Requests :
    At(r, "create", "called") /\ payments[req[r].pay] # None =>
      \A o \in Requests :
        [action |-> "payment.created", pay |-> req[r].pay, by |-> o]
            \in BagToSet(audit_log) =>
          req[o].cred # req[r].cred \/ req[r].cred \in Jwts
-------------------------------------------------------------------------------
\* However often and concurrently an event is delivered, its handler's effect
\* is committed at most once, and never without the event's row.
EventAppliedOnce ==
  \A entry \in BagToSet(audit_log) :
    entry.by \notin Requests => /\ audit_log[entry] = 1
                               /\ Processed(entry.by)

\* A 2xx tells Stripe to forget the event: it is processed by then.
AckedIsProcessed == \A e \in acked : Processed(e)

\* Every event is processed and answered in the end, though deliveries of it
\* run concurrently, block one another in the INSERT, collide and fail.
EventsSettle ==
  \A e \in 1 .. MaxEvents :
    e \in DOMAIN events ~> e \in acked /\ Processed(e)
-------------------------------------------------------------------------------
\* A refund row is one of Stripe's refunds of the row's own payment, of that
\* amount, and succeeded only if it is; no two rows record the same refund.
RefundRowsBacked ==
  \A x, y \in IdemKeys : refunds[x] # None =>
    LET row == refunds[x]
        refund == stripe_refunds[row.external_id]
    IN  /\ refund # None
        /\ payments[row.payment].external_id = refund.pi
        /\ row.amount = refund.amount
        /\ row.status = "succeeded" => refund.status = "succeeded"
        /\ refunds[y] # None /\ refunds[y].external_id = row.external_id => x = y

\* Concurrent refunds that were each checked against the same stale total
\* never add up to more than the payment.
RefundsWithinAmount ==
  \A k \in IdemKeys : payments[k] # None =>
    RefundedAmount(k, {}) <= payments[k].amount

\* "refunded" is written only when Stripe has given the whole amount back, and
\* "partially_refunded" only when there is a refund at all.
RefundStatusSound ==
  \A k \in IdemKeys : payments[k] # None =>
    LET row == payments[k]
    IN  /\ row.status = "refunded" => Settled(row.external_id) >= row.amount
        /\ row.status = "partially_refunded" => RefundsOf(row.external_id) # {}
===============================================================================
