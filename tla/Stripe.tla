-------------------------------- MODULE Stripe --------------------------------
(***************************************************************************)
(* The payment provider, external to the repository, as far as the gateway *)
(* relies on it: PaymentIntents with final states "succeeded" and          *)
(* "canceled"; one saved answer per idempotency key, replayed to a repeat  *)
(* of the same call and refused to any other; refunds that never exceed    *)
(* the charge; and an event for every change, redelivered until a 2xx.     *)
(***************************************************************************)
EXTENDS Identifiers, Sequences, Totals, PaymentStatus

CONSTANTS
  Outcomes,    \* bound: intent states that attempts, banks, dashboards lead to
  Subscribed,  \* event types the webhook endpoint is registered for
  MaxEvents    \* bound: events emitted in a behaviour

VARIABLES
  intents,         \* PaymentIntent id -> [status, amount], or None
  stripe_refunds,  \* refund id -> [pi, amount, status], or None
  saved,           \* idempotency key -> the call and its answer, or None
  events,          \* every event emitted, in order
  acked            \* the positions in events that a 2xx answered

stripeVars == <<intents, stripe_refunds, saved, events, acked>>

\* Where an intent that is not final may go, and the event that reports it.
\* A declined attempt goes back to waiting for a payment method.
Successors ==
  [requires_payment_method |-> {"succeeded", "processing", "requires_action",
                                "requires_payment_method", "canceled"},
   requires_action         |-> {"succeeded", "processing", "requires_action",
                                "requires_payment_method", "canceled"},
   processing              |-> {"succeeded", "requires_payment_method", "canceled"},
   succeeded               |-> {},
   canceled                |-> {}]

EventOf ==
  [requires_payment_method |-> "payment_intent.payment_failed",
   requires_action         |-> "payment_intent.requires_action",
   processing              |-> "payment_intent.processing",
   succeeded               |-> "payment_intent.succeeded",
   canceled                |-> "payment_intent.canceled"]

IntentStates == DOMAIN Successors
Confirmable == {"requires_payment_method", "requires_action"}

EventTypes == {EventOf[s] : s \in IntentStates} \cup
              {"payment_intent.created", "charge.refunded",
               "charge.refund.updated", "charge.dispute.created"}

ASSUME OutcomesAreStates == Outcomes \subseteq IntentStates
ASSUME SubscribedAreTypes == Subscribed \subseteq EventTypes
ASSUME MaxEventsIsNat == MaxEvents \in Nat

PaymentIntents == [status : IntentStates, amount : Amounts]

Refunds == [pi : Intents, amount : Nat, status : StripeRefundStatuses]

Calls == [op : {"create", "confirm", "cancel", "refund"},
          pi : Intents \cup {None}, amount : Int]

\* An answer names the intent or refund and its state; "error" is a StripeError.
Answers == [pi : Intents \cup {None}, refund : RefundIds \cup {None},
            amount : Nat,
            status : IntentStates \cup StripeRefundStatuses \cup {"error"}]

Error == [pi |-> None, refund |-> None, amount |-> 0, status |-> "error"]

SavedAnswers == [call : Calls, ans : Answers]

Events == [type : EventTypes, pi : Intents, object : Intents \cup RefundIds]

ASSUME NoneIsNoObject ==
  None \notin PaymentIntents \cup Refunds \cup Answers \cup SavedAnswers

StripeInit == /\ intents = [i \in Intents |-> None]
              /\ stripe_refunds = [x \in RefundIds |-> None]
              /\ saved = [k \in IdemKeys |-> None]
              /\ events = << >>
              /\ acked = {}

\* data.object is the intent or its charge, which goes by the intent's name
\* here, and in a charge.refund.* event the refund.
Emit(type, pi, object) ==
  IF type \in Subscribed
  THEN /\ Len(events) < MaxEvents
       /\ events' = Append(events, [type |-> type, pi |-> pi, object |-> object])
  ELSE UNCHANGED events

MoveIntent(pi, to) ==
  /\ intents[pi] # None
  /\ to \in Successors[intents[pi].status]
  /\ intents' = [intents EXCEPT ![pi].status = to]
  /\ Emit(EventOf[to], pi, pi)
-------------------------------------------------------------------------------
(***************************************************************************)
(* The API.  The first call with a key executes and saves its answer, an   *)
(* error too; a repeat reads it, and the same key in another call is an    *)
(* error.  The gateway's side of a call is Answer(saved'[key], call).      *)
(***************************************************************************)
Answer(entry, call) == IF entry.call = call THEN entry.ans ELSE Error

Save(key, call, ans) ==
  /\ saved[key] = None
  /\ saved' = [saved EXCEPT ![key] = [call |-> call, ans |-> ans]]

Replay(key) == saved[key] # None /\ UNCHANGED stripeVars

IntentAnswer(pi, status) ==
  [pi |-> pi, refund |-> None, amount |-> intents[pi].amount, status |-> status]

CreateCall(amount) == [op |-> "create", pi |-> None, amount |-> amount]
ConfirmCall(pi) == [op |-> "confirm", pi |-> pi, amount |-> 0]
CancelCall(pi) == [op |-> "cancel", pi |-> pi, amount |-> 0]
RefundCall(pi, amount) == [op |-> "refund", pi |-> pi, amount |-> amount]

CreateIntent(key, amount) ==
  \/ Replay(key)
  \/ \E pi \in Intents :
       /\ intents[pi] = None
       /\ intents' = [intents EXCEPT ![pi] =
                        [status |-> "requires_payment_method", amount |-> amount]]
       /\ Save(key, CreateCall(amount),
               [pi |-> pi, refund |-> None, amount |-> amount,
                status |-> "requires_payment_method"])
       /\ Emit("payment_intent.created", pi, pi)
       /\ UNCHANGED <<stripe_refunds, acked>>

ConfirmIntent(key, pi) ==
  \/ Replay(key)
  \/ \E to \in Outcomes \ {"canceled"} :
       /\ intents[pi].status \in Confirmable
       /\ MoveIntent(pi, to)
       /\ Save(key, ConfirmCall(pi),
               IF to = "requires_payment_method" THEN Error ELSE IntentAnswer(pi, to))
       /\ UNCHANGED <<stripe_refunds, acked>>
  \/ /\ intents[pi].status \notin Confirmable
     /\ Save(key, ConfirmCall(pi), Error)
     /\ UNCHANGED <<intents, stripe_refunds, events, acked>>

CancelIntent(key, pi) ==
  \/ Replay(key)
  \/ /\ MoveIntent(pi, "canceled")
     /\ Save(key, CancelCall(pi), IntentAnswer(pi, "canceled"))
     /\ UNCHANGED <<stripe_refunds, acked>>
  \/ /\ Successors[intents[pi].status] = {}
     /\ Save(key, CancelCall(pi), Error)
     /\ UNCHANGED <<intents, stripe_refunds, events, acked>>

RefundsOf(pi) == {x \in RefundIds : /\ stripe_refunds[x] # None
                                    /\ stripe_refunds[x].pi = pi}

AmountOf(xs) == Total([x \in xs |-> stripe_refunds[x].amount])

\* Refunds on their way (no move between these is told to the gateway), and
\* refunds that will not be made.
Unsettled == {"pending", "requires_action"}
Undone == {"failed", "canceled"}

\* What Stripe has refunded of a charge, or is about to; and what is settled.
Refunded(pi) == AmountOf({x \in RefundsOf(pi) : stripe_refunds[x].status \notin Undone})
Settled(pi) == AmountOf({x \in RefundsOf(pi) : stripe_refunds[x].status = "succeeded"})

Refundable(pi, amount) == /\ intents[pi].status = "succeeded"
                          /\ amount > 0
                          /\ Refunded(pi) + amount <= intents[pi].amount

\* A refund of a card settles at once, of other methods later.
NewRefund(pi, amount, x, status) ==
  /\ Refundable(pi, amount)
  /\ stripe_refunds[x] = None
  /\ stripe_refunds' = [stripe_refunds EXCEPT ![x] =
                          [pi |-> pi, amount |-> amount, status |-> status]]
  /\ Emit("charge.refunded", pi, pi)

RefundIntent(key, pi, amount) ==
  \/ Replay(key)
  \/ \E x \in RefundIds, status \in Unsettled \cup {"succeeded"} :
       /\ NewRefund(pi, amount, x, status)
       /\ Save(key, RefundCall(pi, amount),
               [pi |-> pi, refund |-> x, amount |-> amount, status |-> status])
       /\ UNCHANGED <<intents, acked>>
  \/ /\ ~Refundable(pi, amount)
     /\ Save(key, RefundCall(pi, amount), Error)
     /\ UNCHANGED <<intents, stripe_refunds, events, acked>>
-------------------------------------------------------------------------------
(***************************************************************************)
(* What happens at Stripe without the gateway asking.                      *)
(***************************************************************************)
\* The customer tries to pay, with the intent's client_secret.
CustomerPays(pi) ==
  /\ intents[pi] # None
  /\ intents[pi].status \in Confirmable
  /\ \E to \in Outcomes \ {"canceled"} : MoveIntent(pi, to)
  /\ UNCHANGED <<stripe_refunds, saved, acked>>

\* The bank settles or refuses a payment in processing.
BankSettles(pi) ==
  /\ intents[pi] # None
  /\ intents[pi].status = "processing"
  /\ \E to \in Outcomes \ {"canceled"} : MoveIntent(pi, to)
  /\ UNCHANGED <<stripe_refunds, saved, acked>>

\* Somebody cancels in the dashboard.
OperatorCancels(pi) ==
  /\ "canceled" \in Outcomes
  /\ MoveIntent(pi, "canceled")
  /\ UNCHANGED <<stripe_refunds, saved, acked>>

RefundSettles(x) ==
  /\ stripe_refunds[x] # None
  /\ stripe_refunds[x].status \in Unsettled
  /\ \E status \in Undone \cup {"succeeded"} :
       stripe_refunds' = [stripe_refunds EXCEPT ![x].status = status]
  /\ Emit("charge.refund.updated", stripe_refunds[x].pi, x)
  /\ UNCHANGED <<intents, saved, acked>>

DisputeOpens(pi) ==
  /\ "charge.dispute.created" \in Subscribed
  /\ intents[pi] # None
  /\ intents[pi].status = "succeeded"
  /\ Emit("charge.dispute.created", pi, pi)
  /\ UNCHANGED <<intents, stripe_refunds, saved, acked>>

StripeNext == \/ \E pi \in Intents : \/ BankSettles(pi) \/ OperatorCancels(pi)
                                    \/ DisputeOpens(pi)
              \/ \E x \in RefundIds : RefundSettles(x)
===============================================================================
