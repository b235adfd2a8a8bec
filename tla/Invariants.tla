------------------------------ MODULE Invariants ------------------------------
(***************************************************************************)
(* Why StatusSound holds: everything a handler may still write is sound    *)
(* as well.  The rows it loaded, the answers Stripe gave or will replay    *)
(* and the events it emitted all speak of an intent's past, and the two    *)
(* states a row may claim are the ones an intent never leaves.             *)
(***************************************************************************)
EXTENDS PayGateway

\* What an answer to the call (op, pi, amount) says is so at Stripe.
AnswerSound(op, pi, amount, ans) ==
  ans.status # "error" =>
    /\ ans.pi \in Intents
    /\ intents[ans.pi] # None
    /\ op # "create" => ans.pi = pi
    /\ op = "create" => /\ ans.status = "requires_payment_method"
                        /\ ans.amount \in Amounts
    /\ op \in {"confirm", "cancel"} => ans.status \in IntentStates
    /\ op = "cancel" => ans.status = "canceled"
    /\ op = "refund" => /\ ans.refund \in RefundIds
                        /\ ans.status \in StripeRefundStatuses
                        /\ amount \in Nat \ {0}
    /\ op # "refund" => Agrees(ans.status, ans.pi)

\* Stripe replays only what was so.
SavedSound ==
  \A k \in IdemKeys : saved[k] # None =>
    AnswerSound(saved[k].call.op, saved[k].call.pi, saved[k].call.amount, saved[k].ans)

\* An event says what was so, and a charge's event that there was a charge.
EventSound(event) ==
  /\ intents[event.pi] # None
  /\ event.type \in {"payment_intent.succeeded", "charge.refunded",
                     "charge.dispute.created"} => Captured(event.pi)
  /\ event.type = "payment_intent.canceled" => Abandoned(event.pi)

EventsSound == \A e \in DOMAIN events : EventSound(events[e])

\* A refund is of a charge.
ChargesSound ==
  \A x \in RefundIds : stripe_refunds[x] # None =>
    intents[stripe_refunds[x].pi] # None /\ Captured(stripe_refunds[x].pi)

\* A row as loaded is sound, and the row of the payment it is written back to
\* still has its external_id.
LoadedSound(k, row) ==
  /\ row # None
  /\ k # None
  /\ payments[k] # None
  /\ payments[k].external_id = row.external_id
  /\ RowSound(row)

\* What each request holds at each point.
RequestSound(r) ==
  LET q == req[r]
  IN  /\ Live(r) => q.pay # None /\ q.key # None
      /\ q.op = "create" => q.amount \in Amounts
      /\ Live(r) /\ q.op # "create" => LoadedSound(q.pay, q.row)
      /\ q.pc = "loaded" /\ q.op = "refund" => q.amount \in Int
      /\ q.pc \in {"called", "answered"} =>
           /\ q.ans # None
           /\ q.ans.status # "error"
           /\ AnswerSound(q.op, q.row.external_id, q.amount, q.ans)

\* What each delivery holds at each point.
DeliverySound(w) ==
  /\ hook[w].pc # "idle" => hook[w].event \in DOMAIN events
  /\ hook[w].pay # None =>
       /\ hook[w].event \in DOMAIN events
       /\ LoadedSound(hook[w].pay, hook[w].row)
       /\ hook[w].row.external_id = EventAt(w).pi
  /\ hook[w].pc = "found" => hook[w].pay # None
  /\ hook[w].refund # None => refunds[hook[w].refund] # None

Inv == /\ TypeOK
       /\ StatusSound
       /\ SavedSound
       /\ EventsSound
       /\ ChargesSound
       /\ \A r \in Requests : RequestSound(r)
       /\ \A w \in Workers : DeliverySound(w)
-------------------------------------------------------------------------------
(***************************************************************************)
(* Why a row records what Stripe has: an object of Stripe's and the row of *)
(* it go by one idempotency key, whose saved answer names the object.      *)
(***************************************************************************)
CreateSaved(k) == saved[k] # None /\ saved[k].call.op = "create"

RefundSaved(k) == /\ saved[k] # None
                  /\ saved[k].call.op = "refund"
                  /\ saved[k].ans.status # "error"

\* Every intent is the answer of one key.
IntentsOfKeys ==
  /\ \A k \in IdemKeys : CreateSaved(k) =>
       LET ans == saved[k].ans
       IN  /\ ans.pi \in Intents
           /\ intents[ans.pi] # None
           /\ intents[ans.pi].amount = ans.amount
  /\ \A j, k \in IdemKeys :
       CreateSaved(j) /\ CreateSaved(k) /\ saved[j].ans.pi = saved[k].ans.pi => j = k
  /\ \A pi \in Intents : intents[pi] # None =>
       \E k \in IdemKeys : CreateSaved(k) /\ saved[k].ans.pi = pi

\* A refund is the answer of one key at most, and the refund of that call.
RefundsOfKeys ==
  /\ \A k \in IdemKeys : RefundSaved(k) =>
       LET ans == saved[k].ans
           refund == stripe_refunds[ans.refund]
       IN  /\ ans.refund \in RefundIds
           /\ refund # None
           /\ refund.pi = saved[k].call.pi
           /\ refund.amount = saved[k].call.amount
           /\ ans.status = "succeeded" => refund.status = "succeeded"
  /\ \A j, k \in IdemKeys :
       RefundSaved(j) /\ RefundSaved(k) /\ saved[j].ans.refund = saved[k].ans.refund =>
         j = k

\* A request holds its key's saved answer.
RequestOfKey(r) ==
  LET q == req[r]
      entry == saved[q.key]
  IN  /\ Live(r) /\ q.op = "create" => q.key = q.pay
      /\ q.pc \in {"called", "answered"} =>
           /\ entry # None
           /\ entry.ans = q.ans
           /\ entry.call.op = q.op
           /\ q.op = "refund" => /\ entry.call.pi = q.row.external_id
                                 /\ entry.call.amount = q.amount

PaymentOfKey(k) == /\ CreateSaved(k)
                   /\ saved[k].ans.pi = payments[k].external_id
                   /\ saved[k].ans.amount = payments[k].amount

RefundOfKey(k) ==
  LET row == refunds[k]
  IN  /\ RefundSaved(k)
      /\ saved[k].ans.refund = row.external_id
      /\ saved[k].call.amount = row.amount
      /\ payments[row.payment] # None
      /\ payments[row.payment].external_id = saved[k].call.pi
      /\ row.status = "succeeded" => stripe_refunds[row.external_id].status = "succeeded"

RowsOfKeys == /\ \A k \in IdemKeys : payments[k] # None => PaymentOfKey(k)
              /\ \A k \in IdemKeys : refunds[k] # None => RefundOfKey(k)

\* The event of a refund names the charge, so that no delivery finds a refund.
ChargesNamed ==
  \A e \in DOMAIN events : events[e].type = "charge.refunded" => events[e].object \in Intents

NoRefundFound ==
  \A w \in Workers : /\ hook[w].refund = None
                     /\ hook[w].pc = "found" => EventAt(w).type = "charge.refunded"

RecordsInv == /\ IntentsOfKeys
              /\ RefundsOfKeys
              /\ \A r \in Requests : RequestOfKey(r)
              /\ RowsOfKeys
              /\ ChargesNamed
              /\ NoRefundFound
-------------------------------------------------------------------------------
(***************************************************************************)
(* Why refunds do not exceed the payment and its status does not run ahead *)
(* of them: Stripe keeps to the charge, what rows add up to is part of     *)
(* that, and so is a total a delivery read, however old it is by now.      *)
(***************************************************************************)
ChargesCovered ==
  \A pi \in Intents : intents[pi] # None => Refunded(pi) <= intents[pi].amount

\* Stripe speaks of a refund when it has made one.
RefundsAnnounced ==
  \A e \in DOMAIN events :
    events[e].type = "charge.refunded" => RefundsOf(events[e].pi) # {}

RowTotalled(w) ==
  hook[w].pay # None =>
    /\ hook[w].row.amount = payments[hook[w].pay].amount
    /\ EventAt(w).type = "charge.refunded" /\ hook[w].pc \in {"loaded", "answered"}
         => hook[w].total <= Settled(EventAt(w).pi)

TotalsInv == /\ ChargesCovered
             /\ RefundsAnnounced
             /\ \A w \in Workers : RowTotalled(w)
             /\ RefundStatusSound
-------------------------------------------------------------------------------
(***************************************************************************)
(* Why creations under one API key do not collide: the lock on its row     *)
(* keeps their sessions apart, and the second finds what the first logged. *)
(***************************************************************************)
CreatedBy(k, o) ==
  [action |-> "payment.created", pay |-> k, by |-> o] \in BagToSet(audit_log)

SessionsApart ==
  \A q, r \in Requests :
    Live(q) /\ Live(r) /\ req[q].cred = req[r].cred /\ req[r].cred \notin Jwts => q = r

CreationsLogged ==
  \A k \in IdemKeys, o \in Requests :
    CreatedBy(k, o) => payments[k] # None /\ req[o].pc = "done"

CreationsApart ==
  \A q, r \in Requests :
    Live(r) /\ req[r].op = "create" /\ CreatedBy(req[r].pay, q) =>
      req[q].cred # req[r].cred \/ req[r].cred \in Jwts

CreationsInv == SessionsApart /\ CreationsLogged /\ CreationsApart
===============================================================================
