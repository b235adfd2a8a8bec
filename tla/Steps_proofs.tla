---------------------------- MODULE Steps_proofs -----------------------------
(***************************************************************************)
(* Every step keeps Inv.  Its parts are kept as long as the gateway and    *)
(* Stripe only go forward, and every call to Stripe, and every step of its *)
(* own, is such a step.  So are the steps of requests (reading, calling    *)
(* Stripe, committing, failing) and those of webhook deliveries, one       *)
(* handler at a time.                                                      *)
(***************************************************************************)
EXTENDS Invariants, Totals_proofs

\* What no step takes back: intents stay, and stay in a final state; rows stay,
\* and keep their external_id; events stay where they are in the log.
Evolves ==
  /\ \A pi \in Intents : intents[pi] # None =>
       /\ intents'[pi] # None
       /\ Captured(pi) => Captured(pi)'
       /\ Abandoned(pi) => Abandoned(pi)'
  /\ \A k \in IdemKeys : payments[k] # None =>
       /\ payments'[k] # None
       /\ payments'[k].external_id = payments[k].external_id
  /\ \A k \in IdemKeys : refunds[k] # None => refunds'[k] # None
  /\ \A e \in DOMAIN events : e \in DOMAIN events' /\ events'[e] = events[e]

LEMMA RowKept ==
  ASSUME Evolves, NEW row \in PaymentRows, RowSound(row)
  PROVE  RowSound(row)'
BY DEF Evolves, RowSound, Agrees, PaymentRows

LEMMA AnswerKept ==
  ASSUME Evolves, NEW op, NEW pi, NEW amount, NEW ans \in Answers,
         AnswerSound(op, pi, amount, ans)
  PROVE  AnswerSound(op, pi, amount, ans)'
BY DEF Evolves, AnswerSound, Agrees

LEMMA EventKept ==
  ASSUME Evolves, NEW event \in Events, EventSound(event)
  PROVE  EventSound(event)'
BY DEF Evolves, EventSound, Events

LEMMA LoadedKept ==
  ASSUME Evolves, NEW k \in IdemKeys \cup {None}, NEW row \in PaymentRows \cup {None},
         LoadedSound(k, row)
  PROVE  LoadedSound(k, row)'
BY RowKept DEF Evolves, LoadedSound

LEMMA StatusKept ==
  ASSUME Evolves, TypeOK, StatusSound, UNCHANGED payments
  PROVE  StatusSound'
BY RowKept DEF TypeOK, DatabaseTypeOK, StripeTypeOK, StatusSound

LEMMA SavedKept ==
  ASSUME Evolves, TypeOK, SavedSound, UNCHANGED saved
  PROVE  SavedSound'
BY AnswerKept DEF TypeOK, DatabaseTypeOK, StripeTypeOK, SavedAnswers, SavedSound

LEMMA EventsKept ==
  ASSUME Evolves, TypeOK, EventsSound, UNCHANGED events
  PROVE  EventsSound'
BY EventKept DEF TypeOK, DatabaseTypeOK, StripeTypeOK, EventsSound

LEMMA ChargesKept ==
  ASSUME Evolves, TypeOK, ChargesSound, UNCHANGED stripe_refunds
  PROVE  ChargesSound'
BY DEF TypeOK, StripeTypeOK, ChargesSound, Evolves, Refunds

LEMMA RequestKept ==
  ASSUME Evolves, TypeOK, NEW r \in Requests, RequestSound(r), req'[r] = req[r]
  PROVE  RequestSound(r)'
<1>1. /\ req[r].pay \in IdemKeys \cup {None}
      /\ req[r].row \in PaymentRows \cup {None}
      /\ req[r].ans \in Answers \cup {None}
  BY PayKeysAreKeys DEF TypeOK, DatabaseTypeOK, StripeTypeOK, RequestStates
<1>2. LoadedSound(req[r].pay, req[r].row) => LoadedSound(req[r].pay, req[r].row)'
  BY <1>1, LoadedKept
<1> QED
  BY <1>1, <1>2, AnswerKept DEF RequestSound, Live

LEMMA DeliveryKept ==
  ASSUME Evolves, TypeOK, NEW w \in Workers, DeliverySound(w), hook'[w] = hook[w]
  PROVE  DeliverySound(w)'
<1>1. /\ hook[w].pay \in IdemKeys \cup {None}
      /\ hook[w].row \in PaymentRows \cup {None}
      /\ hook[w].refund \in IdemKeys \cup {None}
  BY DEF TypeOK, DatabaseTypeOK, StripeTypeOK, DeliveryStates
<1>2. LoadedSound(hook[w].pay, hook[w].row) => LoadedSound(hook[w].pay, hook[w].row)'
  BY <1>1, LoadedKept
<1> QED
  BY <1>1, <1>2 DEF DeliverySound, Evolves, EventAt
-------------------------------------------------------------------------------
(***************************************************************************)
(* Stripe's side of a step.                                                *)
(***************************************************************************)
\* The log of events grows by at most the event emitted.
LEMMA EmitAppends ==
  ASSUME TypeOK, NEW type \in EventTypes, NEW pi \in Intents,
         NEW object \in Intents \cup RefundIds, Emit(type, pi, object)
  PROVE  /\ events' \in Seq(Events)
         /\ Len(events') <= MaxEvents
         /\ \A e \in DOMAIN events : e \in DOMAIN events' /\ events'[e] = events[e]
         /\ \A e \in DOMAIN events' :
              \/ e \in DOMAIN events
              \/ events'[e] = [type |-> type, pi |-> pi, object |-> object]
<1> DEFINE event == [type |-> type, pi |-> pi, object |-> object]
<1>1. events \in Seq(Events) /\ Len(events) <= MaxEvents
  BY DEF TypeOK, DatabaseTypeOK, StripeTypeOK
<1>2. CASE UNCHANGED events
  BY <1>1, <1>2
<1>3. CASE Len(events) < MaxEvents /\ events' = Append(events, event)
  <2>1. event \in Events
    BY DEF Events
  <2> QED
    BY <1>1, <1>3, <2>1, MaxEventsIsNat
<1> QED
  BY <1>2, <1>3 DEF Emit

LEMMA EmitSound ==
  ASSUME TypeOK, EventsSound, Evolves, NEW type \in EventTypes, NEW pi \in Intents,
         NEW object \in Intents \cup RefundIds, Emit(type, pi, object),
         EventSound([type |-> type, pi |-> pi, object |-> object])'
  PROVE  EventsSound'
<1> DEFINE event == [type |-> type, pi |-> pi, object |-> object]
<1> SUFFICES ASSUME NEW e \in DOMAIN events'
             PROVE  EventSound(events[e])'
  BY DEF EventsSound
<1>1. CASE e \in DOMAIN events
  <2>1. PICK old \in Events : old = events[e] /\ EventSound(old)
    BY <1>1 DEF TypeOK, DatabaseTypeOK, StripeTypeOK, EventsSound
  <2>2. EventSound(old)' /\ events'[e] = old
    BY <1>1, <2>1, EventKept, EmitAppends
  <2> QED
    BY <2>2
<1>2. CASE events'[e] = event
  BY <1>2
<1> QED
  BY <1>1, <1>2, EmitAppends

\* An intent moves on from a state that is not final.
LEMMA MoveIntentSound ==
  ASSUME TypeOK, EventsSound, NEW pi \in Intents, NEW to, MoveIntent(pi, to),
         UNCHANGED dbVars
  PROVE  /\ Evolves
         /\ intents' \in [Intents -> PaymentIntents \cup {None}]
         /\ intents'[pi] # None
         /\ intents'[pi].status = to
         /\ intents[pi].status \in IntentStates
         /\ intents[pi].amount \in Amounts
         /\ to \in IntentStates
         /\ events' \in Seq(Events)
         /\ Len(events') <= MaxEvents
         /\ EventsSound'
<1>1. intents[pi] \in PaymentIntents
  BY DEF TypeOK, DatabaseTypeOK, StripeTypeOK, MoveIntent
<1>2. to \in IntentStates
  <2>1. intents[pi].status \in IntentStates /\ to \in Successors[intents[pi].status]
    BY <1>1 DEF MoveIntent, PaymentIntents
  <2> QED
    BY <2>1 DEF Successors, IntentStates
<1> DEFINE moved == [intents[pi] EXCEPT !.status = to]
<1>3. moved \in PaymentIntents /\ moved.status = to
  BY <1>1, <1>2 DEF PaymentIntents
<1>4. /\ intents' = [intents EXCEPT ![pi] = moved]
      /\ intents' \in [Intents -> PaymentIntents \cup {None}]
  BY <1>1, <1>3 DEF TypeOK, DatabaseTypeOK, StripeTypeOK, MoveIntent
<1>5. intents'[pi] = moved /\ moved # None
  BY <1>3, <1>4, NoneIsNoObject DEF TypeOK, DatabaseTypeOK, StripeTypeOK
<1>6. intents[pi].status \notin {"succeeded", "canceled"}
  BY DEF MoveIntent, Successors
<1>7. Evolves
  <2>1. \A i \in Intents : intents[i] # None =>
          /\ intents'[i] # None
          /\ Captured(i) => Captured(i)'
          /\ Abandoned(i) => Abandoned(i)'
    BY <1>4, <1>5, <1>6 DEF TypeOK, DatabaseTypeOK, StripeTypeOK, Captured, Abandoned
  <2>2. EventOf[to] \in EventTypes /\ Emit(EventOf[to], pi, pi)
    BY <1>2 DEF MoveIntent, EventTypes
  <2>3. \A e \in DOMAIN events : e \in DOMAIN events' /\ events'[e] = events[e]
    BY <2>2, EmitAppends
  <2> QED
    BY <2>1, <2>3 DEF Evolves, dbVars
<1>8. EventsSound'
  <2>1. EventOf[to] \in EventTypes /\ Emit(EventOf[to], pi, pi)
    BY <1>2 DEF MoveIntent, EventTypes
  <2>2. EventOf[to] = "payment_intent.succeeded" => to = "succeeded"
    BY <1>2 DEF EventOf, IntentStates, Successors
  <2>3. EventOf[to] = "payment_intent.canceled" => to = "canceled"
    BY <1>2 DEF EventOf, IntentStates, Successors
  <2>4. EventOf[to] \notin {"charge.refunded", "charge.dispute.created"}
    BY <1>2 DEF EventOf, IntentStates, Successors
  <2>5. EventSound([type |-> EventOf[to], pi |-> pi, object |-> pi])'
    BY <1>3, <1>5, <2>2, <2>3, <2>4 DEF EventSound, Captured, Abandoned
  <2> QED
    BY <1>7, <2>1, <2>5, EmitSound
<1> QED
  <2>1. EventOf[to] \in EventTypes /\ Emit(EventOf[to], pi, pi)
    BY <1>2 DEF MoveIntent, EventTypes
  <2> QED
    BY <1>1, <1>2, <1>3, <1>4, <1>5, <1>7, <1>8, <2>1, EmitAppends
       DEF PaymentIntents

\* An answer is saved once, under its call.
LEMMA SaveSound ==
  ASSUME TypeOK, SavedSound, Evolves, NEW key \in IdemKeys, NEW call \in Calls,
         NEW ans \in Answers, Save(key, call, ans),
         AnswerSound(call.op, call.pi, call.amount, ans)'
  PROVE  /\ saved' \in [IdemKeys -> SavedAnswers \cup {None}]
         /\ saved'[key] # None
         /\ SavedSound'
<1> DEFINE entry == [call |-> call, ans |-> ans]
<1>1. entry \in SavedAnswers /\ entry # None
  BY NoneIsNoObject DEF SavedAnswers
<1>2. /\ saved \in [IdemKeys -> SavedAnswers \cup {None}]
      /\ saved' = [saved EXCEPT ![key] = entry]
  BY DEF TypeOK, StripeTypeOK, Save
<1>3. ASSUME NEW k \in IdemKeys, saved'[k] # None
      PROVE  AnswerSound(saved[k].call.op, saved[k].call.pi, saved[k].call.amount,
                         saved[k].ans)'
  <2>1. CASE k = key
    BY <1>2, <2>1
  <2>2. CASE k # key
    <3>1. PICK old \in SavedAnswers : old = saved[k] /\ old = saved'[k]
      BY <1>2, <1>3, <2>2
    <3>2. AnswerSound(old.call.op, old.call.pi, old.call.amount, old.ans)
      BY <1>2, <1>3, <2>2, <3>1 DEF SavedSound
    <3>3. AnswerSound(old.call.op, old.call.pi, old.call.amount, old.ans)'
      BY <3>1, <3>2, AnswerKept DEF SavedAnswers
    <3> QED
      BY <3>1, <3>3
  <2> QED
    BY <2>1, <2>2
<1> QED
  BY <1>1, <1>2, <1>3 DEF SavedSound

\* What each call to the API leaves behind.
CallSound(key) ==
  /\ Evolves
  /\ StripeTypeOK'
  /\ SavedSound'
  /\ EventsSound'
  /\ ChargesSound'
  /\ saved'[key] # None

LEMMA ReplaySound ==
  ASSUME Inv, NEW key \in IdemKeys, Replay(key), UNCHANGED dbVars
  PROVE  CallSound(key)
<1>1. Evolves
  BY DEF Evolves, Replay, dbVars, stripeVars, Captured, Abandoned
<1> QED
  BY <1>1, SavedKept, EventsKept, ChargesKept
     DEF Inv, TypeOK, StripeTypeOK, CallSound, Replay, stripeVars

\* A refused call saves the error and changes nothing else.
LEMMA RefusalSound ==
  ASSUME Inv, NEW key \in IdemKeys, NEW call \in Calls, Save(key, call, Error),
         UNCHANGED <<dbVars, intents, stripe_refunds, events, acked>>
  PROVE  CallSound(key)
<1>1. Evolves
  BY DEF Evolves, dbVars, Captured, Abandoned
<1>2. Error \in Answers /\ AnswerSound(call.op, call.pi, call.amount, Error)'
  BY DEF Error, Answers, AnswerSound
<1> QED
  BY <1>1, <1>2, SaveSound, EventsKept, ChargesKept
     DEF Inv, TypeOK, StripeTypeOK, CallSound

LEMMA CreateIntentSound ==
  ASSUME Inv, NEW key \in IdemKeys, NEW amount \in Amounts,
         CreateIntent(key, amount), UNCHANGED dbVars
  PROVE  CallSound(key)
<1>1. CASE Replay(key)
  BY <1>1, ReplaySound
<1>2. CASE ~Replay(key)
  <2> DEFINE new == [status |-> "requires_payment_method", amount |-> amount]
             ans(pi) == [pi |-> pi, refund |-> None, amount |-> amount,
                         status |-> "requires_payment_method"]
  <2>1. PICK pi \in Intents :
          /\ intents[pi] = None
          /\ intents' = [intents EXCEPT ![pi] = new]
          /\ Save(key, CreateCall(amount), ans(pi))
          /\ Emit("payment_intent.created", pi, pi)
          /\ UNCHANGED <<stripe_refunds, acked>>
    BY <1>2 DEF CreateIntent
  <2>2. new \in PaymentIntents /\ new # None
    BY NoneIsNoObject DEF PaymentIntents, IntentStates, Successors
  <2>3. /\ intents' \in [Intents -> PaymentIntents \cup {None}]
        /\ intents'[pi] = new
    BY <2>1, <2>2 DEF Inv, TypeOK, StripeTypeOK
  <2>4. "payment_intent.created" \in EventTypes
    BY DEF EventTypes
  <2>5. Evolves
    <3>1. \A i \in Intents : intents[i] # None =>
            intents'[i] # None /\ intents'[i] = intents[i]
      BY <2>1, <2>2, <2>3 DEF Inv, TypeOK, StripeTypeOK
    <3>2. \A e \in DOMAIN events : e \in DOMAIN events' /\ events'[e] = events[e]
      BY <2>1, <2>4, EmitAppends DEF Inv
    <3> QED
      BY <3>1, <3>2 DEF Evolves, dbVars, Captured, Abandoned
  <2>6. EventsSound'
    <3>1. EventSound([type |-> "payment_intent.created", pi |-> pi, object |-> pi])'
      BY <2>2, <2>3 DEF EventSound
    <3> QED
      BY <2>1, <2>4, <2>5, <3>1, EmitSound DEF Inv
  <2>7. CreateCall(amount) \in Calls /\ ans(pi) \in Answers
    BY AmountsArePositive DEF CreateCall, Calls, Answers, IntentStates, Successors
  <2>8. AnswerSound("create", None, amount, ans(pi))'
    BY <2>2, <2>3 DEF AnswerSound, Agrees, CapturedStatuses
  <2>9. AnswerSound(CreateCall(amount).op, CreateCall(amount).pi,
                    CreateCall(amount).amount, ans(pi))'
    BY <2>8 DEF CreateCall
  <2> QED
    BY <2>1, <2>3, <2>4, <2>5, <2>6, <2>7, <2>9, SaveSound, EmitAppends,
       ChargesKept
       DEF Inv, TypeOK, StripeTypeOK, CallSound
<1> QED
  BY <1>1, <1>2

\* An intent that moves saves an answer that says where it moved to, or an error.
LEMMA MovingCallSound ==
  ASSUME Inv, NEW key \in IdemKeys, NEW call \in Calls, NEW ans \in Answers,
         NEW pi \in Intents, NEW to, MoveIntent(pi, to), Save(key, call, ans),
         call.op \in {"confirm", "cancel"}, call.pi = pi,
         call.op = "cancel" => to = "canceled",
         ans.status # "error" => ans.pi = pi /\ ans.status = to,
         UNCHANGED <<dbVars, stripe_refunds, acked>>
  PROVE  CallSound(key)
<1>1. /\ Evolves
      /\ intents' \in [Intents -> PaymentIntents \cup {None}]
      /\ intents'[pi] # None
      /\ intents'[pi].status = to
      /\ to \in IntentStates
      /\ events' \in Seq(Events)
      /\ Len(events') <= MaxEvents
      /\ EventsSound'
  BY MoveIntentSound DEF Inv
<1>2. AnswerSound(call.op, call.pi, call.amount, ans)'
  BY <1>1 DEF AnswerSound, Agrees, Captured, Abandoned, CapturedStatuses, IntentStates,
              Successors
<1> QED
  BY <1>1, <1>2, SaveSound, ChargesKept DEF Inv, TypeOK, StripeTypeOK, CallSound

LEMMA ConfirmIntentSound ==
  ASSUME Inv, NEW key \in IdemKeys, NEW pi \in Intents, intents[pi] # None,
         ConfirmIntent(key, pi), UNCHANGED dbVars
  PROVE  CallSound(key)
<1>1. ConfirmCall(pi) \in Calls
  BY DEF ConfirmCall, Calls
<1>2. CASE Replay(key)
  BY <1>2, ReplaySound
<1>3. ASSUME NEW to \in Outcomes \ {"canceled"}, MoveIntent(pi, to),
             Save(key, ConfirmCall(pi),
                  IF to = "requires_payment_method" THEN Error ELSE IntentAnswer(pi, to)),
             UNCHANGED <<stripe_refunds, acked>>
      PROVE  CallSound(key)
  <2> DEFINE ans == IF to = "requires_payment_method" THEN Error ELSE IntentAnswer(pi, to)
  <2>1. intents[pi].amount \in Nat /\ to \in IntentStates
    BY <1>3, MoveIntentSound, AmountsArePositive DEF Inv
  <2>2. ans \in Answers /\ (ans.status # "error" => ans.pi = pi /\ ans.status = to)
    BY <2>1 DEF Answers, Error, IntentAnswer
  <2>3. ConfirmCall(pi).op = "confirm" /\ ConfirmCall(pi).pi = pi
    BY DEF ConfirmCall
  <2> QED
    BY <1>1, <1>3, <2>2, <2>3, MovingCallSound
<1>4. CASE /\ Save(key, ConfirmCall(pi), Error)
           /\ UNCHANGED <<intents, stripe_refunds, events, acked>>
  BY <1>1, <1>4, RefusalSound
<1> QED
  BY <1>2, <1>3, <1>4 DEF ConfirmIntent

LEMMA CancelIntentSound ==
  ASSUME Inv, NEW key \in IdemKeys, NEW pi \in Intents, intents[pi] # None,
         CancelIntent(key, pi), UNCHANGED dbVars
  PROVE  CallSound(key)
<1>1. CancelCall(pi) \in Calls
  BY DEF CancelCall, Calls
<1>2. CASE Replay(key)
  BY <1>2, ReplaySound
<1>3. CASE /\ MoveIntent(pi, "canceled")
           /\ Save(key, CancelCall(pi), IntentAnswer(pi, "canceled"))
           /\ UNCHANGED <<stripe_refunds, acked>>
  <2> DEFINE ans == IntentAnswer(pi, "canceled")
  <2>1. intents[pi].amount \in Nat /\ "canceled" \in IntentStates
    BY <1>3, MoveIntentSound, AmountsArePositive DEF Inv
  <2>2. ans \in Answers /\ ans.pi = pi /\ ans.status = "canceled"
    BY <2>1 DEF Answers, IntentAnswer
  <2>3. CancelCall(pi).op = "cancel" /\ CancelCall(pi).pi = pi
    BY DEF CancelCall
  <2> QED
    BY <1>1, <1>3, <2>2, <2>3, MovingCallSound
<1>4. CASE /\ Save(key, CancelCall(pi), Error)
           /\ UNCHANGED <<intents, stripe_refunds, events, acked>>
  BY <1>1, <1>4, RefusalSound
<1> QED
  BY <1>2, <1>3, <1>4 DEF CancelIntent

LEMMA NewRefundSound ==
  ASSUME Inv, NEW pi \in Intents, intents[pi] # None, NEW amount \in Int,
         NEW x \in RefundIds, NEW status \in Unsettled \cup {"succeeded"},
         NewRefund(pi, amount, x, status), UNCHANGED <<dbVars, intents>>
  PROVE  /\ Evolves
         /\ amount \in Nat \ {0}
         /\ stripe_refunds' \in [RefundIds -> Refunds \cup {None}]
         /\ events' \in Seq(Events)
         /\ Len(events') <= MaxEvents
         /\ EventsSound'
         /\ ChargesSound'
<1> DEFINE refund == [pi |-> pi, amount |-> amount, status |-> status]
<1>1. amount \in Nat \ {0} /\ Captured(pi)
  BY DEF NewRefund, Refundable, Captured
<1>2. refund \in Refunds
  BY <1>1 DEF Refunds, StripeRefundStatuses, STRIPE_REFUND_STATUS_MAP, Unsettled, Undone
<1>3. stripe_refunds' = [stripe_refunds EXCEPT ![x] = refund]
  BY DEF NewRefund
<1>4. stripe_refunds' \in [RefundIds -> Refunds \cup {None}]
  BY <1>2, <1>3 DEF Inv, TypeOK, StripeTypeOK
<1>5. "charge.refunded" \in EventTypes /\ Emit("charge.refunded", pi, pi)
  BY DEF NewRefund, EventTypes
<1>6. Evolves
  BY <1>5, EmitAppends DEF Inv, Evolves, dbVars, Captured, Abandoned
<1>7. EventSound([type |-> "charge.refunded", pi |-> pi, object |-> pi])'
  BY <1>1 DEF EventSound, Captured
<1>8. ChargesSound'
  BY <1>1, <1>2, <1>3 DEF Inv, TypeOK, StripeTypeOK, ChargesSound, Captured, Refunds
<1> QED
  BY <1>1, <1>4, <1>5, <1>6, <1>7, <1>8, EmitAppends, EmitSound DEF Inv

LEMMA RefundIntentSound ==
  ASSUME Inv, NEW key \in IdemKeys, NEW pi \in Intents, intents[pi] # None,
         NEW amount \in Int, RefundIntent(key, pi, amount), UNCHANGED dbVars
  PROVE  CallSound(key)
<1>1. RefundCall(pi, amount) \in Calls
  BY DEF RefundCall, Calls
<1>2. CASE Replay(key)
  BY <1>2, ReplaySound
<1>3. ASSUME NEW x \in RefundIds, NEW status \in Unsettled \cup {"succeeded"},
             NewRefund(pi, amount, x, status),
             Save(key, RefundCall(pi, amount),
                  [pi |-> pi, refund |-> x, amount |-> amount, status |-> status]),
             UNCHANGED <<intents, acked>>
      PROVE  CallSound(key)
  <2> DEFINE ans == [pi |-> pi, refund |-> x, amount |-> amount, status |-> status]
  <2>1. /\ Evolves
        /\ amount \in Nat \ {0}
        /\ stripe_refunds' \in [RefundIds -> Refunds \cup {None}]
        /\ events' \in Seq(Events)
        /\ Len(events') <= MaxEvents
        /\ EventsSound'
        /\ ChargesSound'
    BY <1>3, NewRefundSound
  <2>2. status \in StripeRefundStatuses
    BY DEF StripeRefundStatuses, STRIPE_REFUND_STATUS_MAP, Unsettled, Undone
  <2>3. ans \in Answers
    BY <2>1, <2>2 DEF Answers
  <2>4. AnswerSound("refund", pi, amount, ans)'
    BY <1>3, <2>1, <2>2 DEF AnswerSound
  <2>5. AnswerSound(RefundCall(pi, amount).op, RefundCall(pi, amount).pi,
                    RefundCall(pi, amount).amount, ans)'
    BY <2>4 DEF RefundCall
  <2> QED
    BY <1>1, <1>3, <2>1, <2>3, <2>5, SaveSound
       DEF Inv, TypeOK, StripeTypeOK, CallSound
<1>4. CASE /\ Save(key, RefundCall(pi, amount), Error)
           /\ UNCHANGED <<intents, stripe_refunds, events, acked>>
  BY <1>1, <1>4, RefusalSound
<1> QED
  BY <1>2, <1>3, <1>4 DEF RefundIntent

\* The steps that Stripe takes of its own accord.
OwnStepSound ==
  Evolves /\ StripeTypeOK' /\ SavedSound' /\ EventsSound' /\ ChargesSound'

LEMMA OwnMoveSound ==
  ASSUME Inv, NEW pi \in Intents, NEW to, MoveIntent(pi, to),
         UNCHANGED <<dbVars, stripe_refunds, saved, acked>>
  PROVE  OwnStepSound
BY MoveIntentSound, SavedKept, ChargesKept DEF Inv, TypeOK, StripeTypeOK, OwnStepSound

LEMMA RefundSettlesSound ==
  ASSUME Inv, NEW x \in RefundIds, RefundSettles(x), UNCHANGED dbVars
  PROVE  OwnStepSound
<1>1. PICK status \in Undone \cup {"succeeded"} :
        stripe_refunds' = [stripe_refunds EXCEPT ![x].status = status]
  BY DEF RefundSettles
<1> DEFINE refund == [stripe_refunds[x] EXCEPT !.status = status]
           pi == stripe_refunds[x].pi
<1>2. stripe_refunds[x] \in Refunds
  BY DEF Inv, TypeOK, StripeTypeOK, RefundSettles
<1>3. refund \in Refunds /\ pi \in Intents
  BY <1>2 DEF Refunds, StripeRefundStatuses, STRIPE_REFUND_STATUS_MAP, Unsettled, Undone
<1>4. stripe_refunds' \in [RefundIds -> Refunds \cup {None}]
  BY <1>1, <1>3 DEF Inv, TypeOK, StripeTypeOK
<1>5. "charge.refund.updated" \in EventTypes /\ Emit("charge.refund.updated", pi, x)
  BY DEF RefundSettles, EventTypes
<1>6. Evolves
  BY <1>3, <1>5, EmitAppends
     DEF Inv, Evolves, RefundSettles, dbVars, Captured, Abandoned
<1>7. EventSound([type |-> "charge.refund.updated", pi |-> pi, object |-> x])'
  BY DEF Inv, ChargesSound, RefundSettles, EventSound
<1>8. ChargesSound'
  BY <1>1, <1>2, <1>3
     DEF Inv, TypeOK, StripeTypeOK, ChargesSound, RefundSettles, Captured, Refunds
<1> QED
  BY <1>3, <1>4, <1>5, <1>6, <1>7, <1>8, EmitAppends, EmitSound, SavedKept
     DEF Inv, TypeOK, StripeTypeOK, RefundSettles, OwnStepSound

LEMMA DisputeOpensSound ==
  ASSUME Inv, NEW pi \in Intents, DisputeOpens(pi), UNCHANGED dbVars
  PROVE  OwnStepSound
<1>1. /\ "charge.dispute.created" \in EventTypes
      /\ Emit("charge.dispute.created", pi, pi)
  BY DEF DisputeOpens, EventTypes
<1>2. Evolves
  BY <1>1, EmitAppends DEF Inv, Evolves, DisputeOpens, dbVars, Captured, Abandoned
<1>3. EventSound([type |-> "charge.dispute.created", pi |-> pi, object |-> pi])'
  BY DEF DisputeOpens, EventSound, Captured
<1> QED
  BY <1>1, <1>2, <1>3, EmitAppends, EmitSound, SavedKept, ChargesKept
     DEF Inv, TypeOK, StripeTypeOK, DisputeOpens, OwnStepSound
-------------------------------------------------------------------------------
(***************************************************************************)
(* The parts of Inv, each kept by a step that leaves its variables alone.  *)
(***************************************************************************)
DatabaseSound == DatabaseTypeOK /\ StatusSound

StripeSound == StripeTypeOK /\ SavedSound /\ EventsSound /\ ChargesSound

RequestsSound == /\ req \in [Requests -> RequestStates]
                 /\ \A r \in Requests : RequestSound(r)

DeliveriesSound == /\ hook \in [Workers -> DeliveryStates]
                   /\ faults \in 0 .. MaxFaults
                   /\ \A w \in Workers : DeliverySound(w)

LEMMA InvParts ==
  ASSUME DatabaseSound', StripeSound', RequestsSound', DeliveriesSound'
  PROVE  Inv'
BY DEF Inv, TypeOK, DatabaseSound, StripeSound, RequestsSound, DeliveriesSound

LEMMA QuietEvolves ==
  ASSUME UNCHANGED <<dbVars, stripeVars>>
  PROVE  Evolves
BY DEF Evolves, dbVars, stripeVars, Captured, Abandoned

LEMMA DatabaseKept ==
  ASSUME Inv, Evolves, UNCHANGED dbVars
  PROVE  DatabaseSound'
BY StatusKept DEF Inv, TypeOK, DatabaseTypeOK, DatabaseSound, dbVars

LEMMA StripeKept ==
  ASSUME Inv, Evolves, UNCHANGED stripeVars
  PROVE  StripeSound'
BY SavedKept, EventsKept, ChargesKept
   DEF Inv, TypeOK, StripeTypeOK, StripeSound, stripeVars

LEMMA RequestsKept ==
  ASSUME Inv, Evolves, UNCHANGED req
  PROVE  RequestsSound'
BY RequestKept DEF Inv, TypeOK, RequestsSound

LEMMA DeliveriesKept ==
  ASSUME Inv, Evolves, UNCHANGED hookVars
  PROVE  DeliveriesSound'
BY DeliveryKept DEF Inv, TypeOK, DeliveriesSound, hookVars

\* One request, or one delivery, goes on to a new state.
LEMMA RequestMoves ==
  ASSUME Inv, Evolves, NEW r \in Requests, NEW state \in RequestStates,
         req' = [req EXCEPT ![r] = state], RequestSound(r)'
  PROVE  RequestsSound'
<1>1. \A o \in Requests : o # r => req'[o] = req[o]
  BY DEF Inv, TypeOK
<1> QED
  BY <1>1, RequestKept DEF Inv, TypeOK, RequestsSound

LEMMA DeliveryMoves ==
  ASSUME Inv, Evolves, NEW w \in Workers, NEW state \in DeliveryStates,
         hook' = [hook EXCEPT ![w] = state], faults' \in 0 .. MaxFaults,
         DeliverySound(w)'
  PROVE  DeliveriesSound'
<1>1. \A o \in Workers : o # w => hook'[o] = hook[o]
  BY DEF Inv, TypeOK
<1> QED
  BY <1>1, DeliveryKept DEF Inv, TypeOK, DeliveriesSound
-------------------------------------------------------------------------------
(***************************************************************************)
(* What a commit leaves in the database.                                   *)
(***************************************************************************)
LEMMA LogActionTyped ==
  ASSUME DatabaseTypeOK, NEW action \in AuditActions, NEW k \in IdemKeys,
         NEW by \in Requests \cup (1 .. MaxEvents), LogAction(action, k, by)
  PROVE  DOMAIN audit_log' \subseteq [action : AuditActions, pay : IdemKeys,
                                     by : Requests \cup (1 .. MaxEvents)]
<1> DEFINE entry == [action |-> action, pay |-> k, by |-> by]
<1>1. DOMAIN audit_log' = DOMAIN audit_log \cup {entry}
  BY DEF LogAction, SetToBag, (+)
<1> QED
  BY <1>1 DEF DatabaseTypeOK

\* A flush of a sound row over a sound row leaves a sound row, whichever
\* columns it writes: both are rows of the same intent.
LEMMA FlushSound ==
  ASSUME Inv, NEW k \in IdemKeys, NEW loaded \in PaymentRows, NEW new \in PaymentRows,
         LoadedSound(k, loaded), new.external_id = loaded.external_id, RowSound(new),
         Flush(k, loaded, new), UNCHANGED <<intents, events>>,
         \A x \in IdemKeys : refunds[x] # None => refunds'[x] # None
  PROVE  /\ payments' \in [IdemKeys -> PaymentRows \cup {None}]
         /\ StatusSound'
         /\ Evolves
<1> DEFINE old == payments[k]
           written == [c \in DOMAIN old |-> IF new[c] # loaded[c] THEN new[c] ELSE old[c]]
<1>1. old \in PaymentRows /\ RowSound(old) /\ old.external_id = loaded.external_id
  BY DEF Inv, TypeOK, DatabaseTypeOK, StatusSound, LoadedSound
<1>2. /\ written.external_id = old.external_id
      /\ written.status \in {new.status, old.status}
      /\ written.amount \in {new.amount, old.amount}
      /\ written.confirmed_at \in {new.confirmed_at, old.confirmed_at}
      /\ written.canceled_at \in {new.canceled_at, old.canceled_at}
      /\ written.failure_code \in {new.failure_code, old.failure_code}
  BY <1>1 DEF PaymentRows
<1>3. written \in PaymentRows
  BY <1>1, <1>2 DEF PaymentRows
<1>4. RowSound(written)
  BY <1>1, <1>2 DEF RowSound, Agrees
<1>5. payments' = [payments EXCEPT ![k] = written]
  BY DEF Flush
<1>6. payments' \in [IdemKeys -> PaymentRows \cup {None}] /\ payments'[k] = written
  BY <1>3, <1>5 DEF Inv, TypeOK, DatabaseTypeOK
<1>7. Evolves
  BY <1>2, <1>3, <1>5, <1>6, NoneIsNoRow
     DEF Inv, TypeOK, DatabaseTypeOK, Evolves, Captured, Abandoned
<1>8. StatusSound'
  BY <1>4, <1>5, <1>6
     DEF Inv, TypeOK, DatabaseTypeOK, StatusSound, RowSound, Agrees, Captured, Abandoned
<1> QED
  BY <1>6, <1>7, <1>8
-------------------------------------------------------------------------------
(***************************************************************************)
(* The gateway's side of a request's step.                                 *)
(***************************************************************************)
LEMMA FinishSound ==
  ASSUME Inv, Evolves, NEW r \in Requests,
         NEW reply \in {"none", "2xx", "4xx", "5xx"}, Finish(r, reply)
  PROVE  RequestsSound'
<1> DEFINE state == Ended(req[r], reply)
<1>1. req[r] \in RequestStates
  BY DEF Inv, TypeOK
<1>2. state \in RequestStates
  BY <1>1 DEF Ended, RequestStates
<1>3. req' = [req EXCEPT ![r] = state] /\ req'[r] = state
  BY DEF Finish, Inv, TypeOK
<1>4. state.pc = "done" /\ state.op = req[r].op /\ state.amount = req[r].amount
  BY <1>1 DEF Ended, RequestStates
<1>5. req[r].op = "create" => req[r].amount \in Amounts
  BY DEF Inv, RequestSound
<1>6. RequestSound(r)'
  BY <1>3, <1>4, <1>5 DEF RequestSound, Live
<1> QED
  BY <1>2, <1>3, <1>6, RequestMoves

\* The provider's answer, fresh or replayed, is sound for the call it answers.
LEMMA TakeAnswerSound ==
  ASSUME Inv, NEW r \in Requests, req[r].pc = "loaded", CallSound(req[r].key),
         NEW call \in Calls, TakeAnswer(r, call), call.op = req[r].op,
         call.op # "create" => call.pi = req[r].row.external_id,
         call.op = "refund" => call.amount = req[r].amount
  PROVE  RequestsSound'
<1> DEFINE entry == saved'[req[r].key]
           ans == Answer(entry, call)
<1>1. req[r] \in RequestStates /\ RequestSound(r) /\ Live(r)
  BY DEF Inv, TypeOK, Live
<1>2. req[r].key \in IdemKeys /\ req[r].pay \in IdemKeys
  BY <1>1, PayKeysAreKeys DEF RequestSound, RequestStates
<1>3. PICK e \in SavedAnswers : e = entry
  BY <1>2 DEF CallSound, StripeTypeOK
<1>4. AnswerSound(e.call.op, e.call.pi, e.call.amount, e.ans)'
  BY <1>2, <1>3 DEF CallSound, SavedSound
<1>5. Evolves
  BY DEF CallSound
<1>6. CASE ans.status = "error"
  BY <1>5, <1>6, FinishSound DEF TakeAnswer
<1>7. CASE ans.status # "error"
  <2>1. e.call = call /\ ans = e.ans
    BY <1>3, <1>7 DEF Answer, Error
  <2>2. PICK a \in Answers : a = ans /\ a # None
    BY <1>3, <2>1, NoneIsNoObject DEF SavedAnswers
  <2> DEFINE state == [req[r] EXCEPT !.pc = "called", !.ans = a]
  <2>3. state \in RequestStates
    BY <1>1, <2>2 DEF RequestStates
  <2>4. req' = [req EXCEPT ![r] = state] /\ req'[r] = state
    BY <1>7, <2>2 DEF TakeAnswer, Inv, TypeOK
  <2>5. /\ state.pc = "called" /\ state.ans = a
        /\ state.op = req[r].op /\ state.pay = req[r].pay
        /\ state.key = req[r].key /\ state.amount = req[r].amount
        /\ state.row = req[r].row
    BY <1>1 DEF RequestStates
  <2>6. AnswerSound(call.op, call.pi, call.amount, a)'
    BY <1>4, <2>1, <2>2
  <2>7. PICK q \in RequestStates : q = req[r]
    BY <1>1
  <2>8. q.op # "create" => LoadedSound(q.pay, q.row)'
    BY <1>1, <1>5, <2>7, LoadedKept, PayKeysAreKeys DEF RequestSound, RequestStates
  <2>9. AnswerSound(q.op, q.row.external_id, q.amount, a)'
    BY <2>6, <2>7 DEF AnswerSound
  <2>10. RequestSound(r)'
    BY <1>1, <1>2, <1>7, <2>2, <2>4, <2>5, <2>7, <2>8, <2>9 DEF RequestSound, Live
  <2> QED
    BY <1>5, <2>3, <2>4, <2>10, RequestMoves
<1> QED
  BY <1>6, <1>7

\* A request begins with nothing loaded, or with the row it has just read.
LEMMA BeginSound ==
  ASSUME Inv, UNCHANGED <<dbVars, stripeVars>>, NEW r \in Requests,
         NEW op \in Ops, NEW k \in PayKeys, NEW key \in IdemKeys,
         NEW amount \in Int \cup {None}, NEW cred \in Credentials,
         op = "create" => amount \in Amounts,
         NEW state,
         req' = [req EXCEPT ![r] = state],
         \/ \E reply \in {"2xx", "4xx"} :
              state = Ended(Begin(op, k, key, amount, cred), reply)
         \/ /\ op = "create"
            /\ state = [Begin(op, k, key, amount, cred) EXCEPT !.pc = "loaded"]
         \/ /\ op \in {"confirm", "cancel"}
            /\ payments[k] # None
            /\ state = [Begin(op, k, key, amount, cred)
                          EXCEPT !.pc = "loaded", !.row = payments[k]]
         \/ /\ op = "refund"
            /\ payments[k] # None
            /\ state = [Begin(op, k, key, amount, cred)
                          EXCEPT !.pc = "found", !.row = payments[k]]
  PROVE  RequestsSound'
<1> DEFINE begun == Begin(op, k, key, amount, cred)
<1>1. /\ begun.op = op /\ begun.pay = k /\ begun.key = key
      /\ begun.amount = amount /\ begun.cred = cred /\ begun.pc = "idle"
      /\ begun \in RequestStates
  BY DEF Begin, RequestStates
<1>2. k \in IdemKeys /\ key # None /\ k # None
  BY PayKeysAreKeys, NoneIsNoValue
<1>3. Evolves
  BY QuietEvolves
<1>4. CASE \E reply \in {"2xx", "4xx"} : state = Ended(begun, reply)
  <2>1. /\ state \in RequestStates
        /\ state.pc = "done" /\ state.op = op /\ state.amount = amount
    BY <1>1, <1>4 DEF Ended, RequestStates
  <2>2. RequestSound(r)'
    BY <2>1 DEF Inv, TypeOK, RequestSound, Live
  <2> QED
    BY <1>3, <2>1, <2>2, RequestMoves
<1>5. CASE op = "create" /\ state = [begun EXCEPT !.pc = "loaded"]
  <2>1. /\ state \in RequestStates
        /\ state.pc = "loaded" /\ state.op = op /\ state.pay = k
        /\ state.key = key /\ state.amount = amount
    BY <1>1, <1>5 DEF RequestStates
  <2>2. RequestSound(r)'
    BY <1>2, <1>5, <2>1 DEF Inv, TypeOK, RequestSound, Live
  <2> QED
    BY <1>3, <2>1, <2>2, RequestMoves
<1>6. ASSUME NEW pc \in {"loaded", "found"}, pc = "loaded" => op # "refund",
             op # "create", payments[k] # None,
             state = [begun EXCEPT !.pc = pc, !.row = payments[k]]
      PROVE  RequestsSound'
  <2>1. PICK row \in PaymentRows : row = payments[k] /\ RowSound(row)
    BY <1>2, <1>6 DEF Inv, TypeOK, DatabaseTypeOK, StatusSound
  <2>2. /\ state \in RequestStates
        /\ state.pc = pc /\ state.op = op /\ state.pay = k
        /\ state.key = key /\ state.amount = amount /\ state.row = row
    BY <1>1, <1>6, <2>1 DEF RequestStates
  <2>3. LoadedSound(k, row)
    BY <1>2, <1>6, <2>1, NoneIsNoRow DEF LoadedSound
  <2>4. LoadedSound(k, row)'
    BY <1>2, <1>3, <2>3, LoadedKept
  <2>5. RequestSound(r)'
    BY <1>2, <1>6, <2>2, <2>4 DEF Inv, TypeOK, RequestSound, Live
  <2> QED
    BY <1>3, <2>2, <2>5, RequestMoves
<1> QED
  BY <1>4, <1>5, <1>6
-------------------------------------------------------------------------------
(***************************************************************************)
(* The steps of the requests.                                              *)
(***************************************************************************)
\* What a request that is in progress holds, typed.
LEMMA Holding ==
  ASSUME Inv, NEW r \in Requests, Live(r)
  PROVE  /\ req[r] \in RequestStates
         /\ RequestSound(r)
         /\ req[r].pay \in IdemKeys
         /\ req[r].key \in IdemKeys
         /\ req[r].op \in Ops \cup {None}
         /\ req[r].op # "create" =>
              /\ req[r].row \in PaymentRows
              /\ LoadedSound(req[r].pay, req[r].row)
              /\ req[r].row.external_id \in Intents
              /\ intents[req[r].row.external_id] # None
         /\ req[r].pc \in {"called", "answered"} =>
              /\ req[r].ans \in Answers
              /\ req[r].ans.status # "error"
              /\ AnswerSound(req[r].op, req[r].row.external_id, req[r].amount, req[r].ans)
<1>1. req[r] \in RequestStates /\ RequestSound(r)
  BY DEF Inv, TypeOK
<1>2. req[r].pay \in IdemKeys /\ req[r].key \in IdemKeys
  BY <1>1, PayKeysAreKeys DEF RequestStates, RequestSound
<1>3. ASSUME req[r].op # "create"
      PROVE  /\ req[r].row \in PaymentRows
             /\ LoadedSound(req[r].pay, req[r].row)
             /\ req[r].row.external_id \in Intents
             /\ intents[req[r].row.external_id] # None
  <2>1. LoadedSound(req[r].pay, req[r].row)
    BY <1>1, <1>3 DEF RequestSound
  <2>2. req[r].row \in PaymentRows
    BY <1>1, <2>1 DEF RequestStates, LoadedSound
  <2> QED
    BY <2>1, <2>2 DEF LoadedSound, RowSound, PaymentRows
<1>4. req[r].op \in Ops \cup {None} /\ req[r].ans \in Answers \cup {None}
  BY <1>1 DEF RequestStates
<1> QED
  BY <1>1, <1>2, <1>3, <1>4 DEF RequestSound

\* A session commits: given what it does to payments and refunds.
LEMMA CommitSound ==
  ASSUME Inv, NEW r \in Requests, NEW op, NEW action \in AuditActions,
         Commits(r, op, action), UNCHANGED hookVars, Evolves,
         payments' \in [IdemKeys -> PaymentRows \cup {None}],
         refunds' \in [IdemKeys -> RefundRows \cup {None}],
         StatusSound'
  PROVE  Inv'
<1>1. /\ LogAction(action, req[r].pay, r)
      /\ locks' \subseteq locks
      /\ Finish(r, "2xx")
      /\ UNCHANGED <<webhook_events, stripeVars>>
      /\ Live(r)
  BY DEF Commits, Unlock, At, Live
<1>2. DatabaseSound'
  <2>1. req[r].pay \in IdemKeys
    BY <1>1, Holding
  <2>2. DOMAIN audit_log' \subseteq [action : AuditActions, pay : IdemKeys,
                                    by : Requests \cup (1 .. MaxEvents)]
    BY <1>1, <2>1, LogActionTyped DEF Inv, TypeOK
  <2> QED
    BY <1>1, <2>2 DEF Inv, TypeOK, DatabaseTypeOK, DatabaseSound
<1>3. RequestsSound'
  BY <1>1, FinishSound
<1> QED
  BY <1>1, <1>2, <1>3, StripeKept, DeliveriesKept, InvParts

\* A handler reads, and changes nothing but its own state.
LEMMA ReadSound ==
  ASSUME Inv, UNCHANGED <<dbVars, stripeVars, hookVars>>, RequestsSound'
  PROVE  Inv'
BY QuietEvolves, DatabaseKept, StripeKept, DeliveriesKept, InvParts DEF Evolves

\* The provider answers a call.
LEMMA CallStepSound ==
  ASSUME Inv, NEW r \in Requests, CallSound(req[r].key), RequestsSound',
         UNCHANGED <<dbVars, hookVars>>
  PROVE  Inv'
BY DatabaseKept, DeliveriesKept, InvParts DEF CallSound, StripeSound

LEMMA CreatePaymentSound ==
  ASSUME Inv, NEW r \in Requests, NEW k \in PayKeys, NEW amount \in Amounts,
         NEW cred \in Credentials, CreatePayment(r, k, amount, cred), UNCHANGED hookVars
  PROVE  Inv'
<1> DEFINE begun == Begin("create", k, k, amount, cred)
           state == IF payments[k] # None THEN Ended(begun, "2xx")
                    ELSE [begun EXCEPT !.pc = "loaded"]
<1>1. "create" \in Ops /\ req' = [req EXCEPT ![r] = state]
      /\ UNCHANGED <<dbVars, stripeVars>>
  BY DEF CreatePayment
<1>2. k \in IdemKeys /\ amount \in Int
  BY PayKeysAreKeys, AmountsArePositive
<1>3. RequestsSound'
  BY <1>1, <1>2, BeginSound
<1> QED
  BY <1>1, <1>3, ReadSound

LEMMA LoadPaymentSound ==
  ASSUME Inv, NEW r \in Requests, NEW op \in {"confirm", "cancel"}, NEW k \in PayKeys,
         NEW key \in IdemKeys, NEW cred \in Credentials, NEW accepted,
         LoadPayment(r, op, k, key, cred, accepted), UNCHANGED hookVars
  PROVE  Inv'
<1> DEFINE begun == Begin(op, k, key, None, cred)
           state == IF payments[k] = None \/ ~accepted THEN Ended(begun, "4xx")
                    ELSE [begun EXCEPT !.pc = "loaded", !.row = payments[k]]
<1>1. op \in Ops /\ req' = [req EXCEPT ![r] = state]
      /\ UNCHANGED <<dbVars, stripeVars>>
  BY DEF LoadPayment
<1>2. \/ state = Ended(begun, "4xx")
      \/ /\ payments[k] # None
         /\ state = [begun EXCEPT !.pc = "loaded", !.row = payments[k]]
  OBVIOUS
<1> HIDE DEF state, begun
<1>3. RequestsSound'
  BY <1>1, <1>2, BeginSound DEF begun
<1> QED
  BY <1>1, <1>3, ReadSound

LEMMA CreateRefundSound ==
  ASSUME Inv, NEW r \in Requests, NEW k \in PayKeys, NEW key \in IdemKeys,
         NEW amount \in Amounts \cup {None}, NEW cred \in Credentials,
         CreateRefund(r, k, key, amount, cred), UNCHANGED hookVars
  PROVE  Inv'
<1> DEFINE begun == Begin("refund", k, key, amount, cred)
           state == IF payments[k] = None THEN Ended(begun, "4xx")
                    ELSE [begun EXCEPT !.pc = "found", !.row = payments[k]]
<1>1. "refund" \in Ops /\ req' = [req EXCEPT ![r] = state]
      /\ UNCHANGED <<dbVars, stripeVars>>
  BY DEF CreateRefund
<1>2. amount \in Int \cup {None}
  BY AmountsArePositive
<1>3. \/ state = Ended(begun, "4xx")
      \/ /\ payments[k] # None
         /\ state = [begun EXCEPT !.pc = "found", !.row = payments[k]]
  OBVIOUS
<1> HIDE DEF state, begun
<1>4. RequestsSound'
  BY <1>1, <1>2, <1>3, BeginSound DEF begun
<1> QED
  BY <1>1, <1>4, ReadSound

LEMMA CreatePaymentCallSound ==
  ASSUME Inv, NEW r \in Requests, CreatePaymentCall(r), UNCHANGED hookVars
  PROVE  Inv'
<1>1. /\ req[r].pc = "loaded" /\ req[r].op = "create" /\ Live(r)
      /\ UNCHANGED dbVars
  BY DEF CreatePaymentCall, At, Live
<1>2. req[r].key \in IdemKeys /\ req[r].amount \in Amounts
  BY <1>1, Holding DEF RequestSound
<1>3. CallSound(req[r].key)
  BY <1>1, <1>2, CreateIntentSound DEF CreatePaymentCall
<1> DEFINE call == CreateCall(req[r].amount)
<1>4. call \in Calls /\ call.op = "create"
  <2>1. PICK amount \in Amounts : amount = req[r].amount
    BY <1>2
  <2>2. amount \in Int
    BY AmountsArePositive
  <2> QED
    BY <2>1, <2>2 DEF CreateCall, Calls
<1>5. TakeAnswer(r, call)
  BY DEF CreatePaymentCall
<1> HIDE DEF call
<1>6. RequestsSound'
  BY <1>1, <1>3, <1>4, <1>5, TakeAnswerSound
<1> QED
  BY <1>1, <1>3, <1>6, CallStepSound

LEMMA ConfirmPaymentCallSound ==
  ASSUME Inv, NEW r \in Requests, ConfirmPaymentCall(r), UNCHANGED hookVars
  PROVE  Inv'
<1> DEFINE pi == req[r].row.external_id
           call == ConfirmCall(pi)
<1>1. /\ req[r].pc = "loaded" /\ req[r].op = "confirm" /\ Live(r)
      /\ ConfirmIntent(req[r].key, pi) /\ TakeAnswer(r, call)
      /\ UNCHANGED dbVars
  BY DEF ConfirmPaymentCall, At, Live
<1>2. req[r].key \in IdemKeys /\ pi \in Intents /\ intents[pi] # None
  BY <1>1, Holding
<1>3. CallSound(req[r].key)
  BY <1>1, <1>2, ConfirmIntentSound
<1>4. call \in Calls /\ call.op = "confirm" /\ call.pi = pi
  BY <1>2 DEF ConfirmCall, Calls
<1> HIDE DEF call
<1>5. RequestsSound'
  BY <1>1, <1>3, <1>4, TakeAnswerSound
<1> QED
  BY <1>1, <1>3, <1>5, CallStepSound

LEMMA CancelPaymentCallSound ==
  ASSUME Inv, NEW r \in Requests, CancelPaymentCall(r), UNCHANGED hookVars
  PROVE  Inv'
<1> DEFINE pi == req[r].row.external_id
           call == CancelCall(pi)
<1>1. /\ req[r].pc = "loaded" /\ req[r].op = "cancel" /\ Live(r)
      /\ CancelIntent(req[r].key, pi) /\ TakeAnswer(r, call)
      /\ UNCHANGED dbVars
  BY DEF CancelPaymentCall, At, Live
<1>2. req[r].key \in IdemKeys /\ pi \in Intents /\ intents[pi] # None
  BY <1>1, Holding
<1>3. CallSound(req[r].key)
  BY <1>1, <1>2, CancelIntentSound
<1>4. call \in Calls /\ call.op = "cancel" /\ call.pi = pi
  BY <1>2 DEF CancelCall, Calls
<1> HIDE DEF call
<1>5. RequestsSound'
  BY <1>1, <1>3, <1>4, TakeAnswerSound
<1> QED
  BY <1>1, <1>3, <1>5, CallStepSound

LEMMA CreateRefundCallSound ==
  ASSUME Inv, NEW r \in Requests, CreateRefundCall(r), UNCHANGED hookVars
  PROVE  Inv'
<1> DEFINE pi == req[r].row.external_id
           call == RefundCall(pi, req[r].amount)
<1>1. /\ req[r].pc = "loaded" /\ req[r].op = "refund" /\ Live(r)
      /\ RefundIntent(req[r].key, pi, req[r].amount) /\ TakeAnswer(r, call)
      /\ UNCHANGED dbVars
  BY DEF CreateRefundCall, At, Live
<1>2. req[r].key \in IdemKeys /\ pi \in Intents /\ intents[pi] # None
  BY <1>1, Holding
<1>3. req[r].amount \in Int
  BY <1>1, Holding DEF RequestSound
<1>4. CallSound(req[r].key)
  BY <1>1, <1>2, <1>3, RefundIntentSound
<1>5. call \in Calls /\ call.op = "refund" /\ call.pi = pi /\ call.amount = req[r].amount
  BY <1>2, <1>3 DEF RefundCall, Calls
<1> HIDE DEF call
<1>6. RequestsSound'
  BY <1>1, <1>4, <1>5, TakeAnswerSound
<1> QED
  BY <1>1, <1>4, <1>6, CallStepSound

\* What refunds of a payment add up to is a number.
LEMMA RefundedIsNat ==
  ASSUME Inv, NEW k, NEW settled
  PROVE  RefundedAmount(k, settled) \in Nat
<1> DEFINE rows == {x \in IdemKeys : /\ refunds[x] # None
                                     /\ refunds[x].payment = k
                                     /\ refunds[x].status = "succeeded" \/ x \in settled}
           amount == [x \in rows |-> refunds[x].amount]
<1>1. IsFiniteSet(rows)
  BY KeysAreFinite, FS_Subset
<1>2. amount \in [rows -> Nat]
  BY DEF Inv, TypeOK, DatabaseTypeOK, RefundRows
<1>3. Total(amount) \in Nat
  <2> HIDE DEF rows, amount
  <2> QED
    BY <1>1, <1>2, TotalIsNat
<1> QED
  BY <1>3 DEF RefundedAmount, AmountOfRows

\* max_refundable is an integer, which is all the call needs to be well formed:
\* it is Stripe that refuses an amount that is not positive.
LEMMA CreateRefundChecksSound ==
  ASSUME Inv, NEW r \in Requests, CreateRefundChecks(r), UNCHANGED hookVars
  PROVE  Inv'
<1> DEFINE row == req[r].row
           max_refundable == row.amount - RefundedAmount(req[r].pay, {})
           amount == IF req[r].amount = None THEN max_refundable ELSE req[r].amount
<1>1. /\ req[r].pc = "found" /\ req[r].op = "refund" /\ Live(r)
      /\ UNCHANGED <<dbVars, stripeVars>>
      /\ \/ Finish(r, "4xx")
         \/ req' = [req EXCEPT ![r].pc = "loaded", ![r].amount = amount]
  BY DEF CreateRefundChecks, At, Live
<1>2. Evolves
  BY <1>1, QuietEvolves
<1>3. CASE Finish(r, "4xx")
  BY <1>1, <1>2, <1>3, FinishSound, ReadSound
<1>4. CASE req' = [req EXCEPT ![r].pc = "loaded", ![r].amount = amount]
  <2>1. PICK q \in RequestStates : q = req[r]
    BY <1>1, Holding
  <2>2. /\ q.pay \in IdemKeys /\ q.key \in IdemKeys
        /\ q.row \in PaymentRows /\ LoadedSound(q.pay, q.row)
    BY <1>1, <2>1, Holding
  <2>3. RefundedAmount(q.pay, {}) \in Nat
    BY RefundedIsNat
  <2>4. amount \in Int
    <3>1. row.amount \in Nat
      BY <2>1, <2>2, AmountsArePositive DEF PaymentRows
    <3>2. req[r].amount \in Int \cup {None}
      BY <2>1 DEF RequestStates
    <3> QED
      BY <2>1, <2>3, <3>1, <3>2
  <2>5. PICK n \in Int : n = amount
    BY <2>4
  <2> HIDE DEF amount, max_refundable, row
  <2> DEFINE state == [q EXCEPT !.pc = "loaded", !.amount = n]
  <2>6. /\ state \in RequestStates
        /\ state.pc = "loaded" /\ state.op = "refund" /\ state.pay = q.pay
        /\ state.key = q.key /\ state.row = q.row /\ state.amount = n
    BY <1>1, <2>1 DEF RequestStates
  <2>7. req' = [req EXCEPT ![r] = state]
    BY <1>4, <2>1, <2>5 DEF Inv, TypeOK
  <2>8. LoadedSound(q.pay, q.row)'
    BY <1>2, <2>2, LoadedKept
  <2>9. RequestSound(r)'
    BY <2>2, <2>6, <2>7, <2>8, NoneIsNoValue DEF Inv, TypeOK, RequestSound, Live
  <2> QED
    BY <1>1, <1>2, <2>6, <2>7, <2>9, RequestMoves, ReadSound
<1> QED
  BY <1>1, <1>3, <1>4

\* The gateway's vocabulary claims no more of an intent than Stripe's does.
LEMMA MapAgrees ==
  ASSUME NEW status \in IntentStates, NEW pi, Agrees(status, pi)
  PROVE  /\ STRIPE_PAYMENT_STATUS_MAP[status] \in Statuses
         /\ Agrees(STRIPE_PAYMENT_STATUS_MAP[status], pi)
         /\ STRIPE_PAYMENT_STATUS_MAP[status] = "succeeded" => status = "succeeded"
BY DEF STRIPE_PAYMENT_STATUS_MAP, Statuses, IntentStates, Successors, Agrees,
       CapturedStatuses

\* What the commit of an operation finds: an answer that is no error.
LEMMA Committing ==
  ASSUME Inv, NEW r \in Requests, NEW op \in {"create", "confirm", "cancel", "refund"},
         NEW action, Commits(r, op, action)
  PROVE  /\ Live(r)
         /\ req[r].op = op
         /\ Fits(r)
         /\ UNCHANGED stripeVars
         /\ req[r].ans \in Answers
         /\ req[r].ans.status # "error"
         /\ AnswerSound(op, req[r].row.external_id, req[r].amount, req[r].ans)
<1>1. /\ Live(r) /\ req[r].pc \in {"called", "answered"}
      /\ req[r].op = op /\ Fits(r) /\ UNCHANGED stripeVars
  BY DEF Commits, At, Live
<1> QED
  BY <1>1, Holding

LEMMA CreatePaymentCommitSound ==
  ASSUME Inv, NEW r \in Requests, CreatePaymentCommit(r), UNCHANGED hookVars
  PROVE  Inv'
<1> DEFINE pi == req[r].ans
           k == req[r].pay
           new == [external_id |-> pi.pi, status |-> STRIPE_PAYMENT_STATUS_MAP[pi.status],
                   amount |-> pi.amount, confirmed_at |-> FALSE, canceled_at |-> FALSE,
                   failure_code |-> FALSE]
<1>1. /\ Commits(r, "create", "payment.created")
      /\ payments' = [payments EXCEPT ![k] = new]
      /\ UNCHANGED refunds
  BY DEF CreatePaymentCommit
<1>2. /\ UNCHANGED stripeVars /\ payments[k] = None /\ k \in IdemKeys
      /\ pi.pi \in Intents /\ intents[pi.pi] # None
      /\ pi.status = "requires_payment_method" /\ pi.amount \in Amounts
  BY <1>1, Committing, Holding DEF Fits, AnswerSound
<1>3. STRIPE_PAYMENT_STATUS_MAP[pi.status] = "pending"
  BY <1>2 DEF STRIPE_PAYMENT_STATUS_MAP
<1>4. new \in PaymentRows /\ RowSound(new)
  BY <1>2, <1>3 DEF PaymentRows, Statuses, RowSound, Agrees, CapturedStatuses
<1> HIDE DEF new
<1>5. payments' \in [IdemKeys -> PaymentRows \cup {None}]
  BY <1>1, <1>4 DEF Inv, TypeOK, DatabaseTypeOK
<1>6. Evolves
  BY <1>1, <1>2 DEF Inv, TypeOK, DatabaseTypeOK, Evolves, stripeVars, Captured, Abandoned
<1>7. StatusSound'
  BY <1>1, <1>2, <1>4
     DEF Inv, TypeOK, DatabaseTypeOK, StatusSound, stripeVars, RowSound, Agrees, Captured,
         Abandoned
<1>8. refunds' \in [IdemKeys -> RefundRows \cup {None}] /\ "payment.created" \in AuditActions
  BY <1>1 DEF Inv, TypeOK, DatabaseTypeOK, AuditActions
<1> QED
  BY <1>1, <1>5, <1>6, <1>7, <1>8, CommitSound

LEMMA ConfirmPaymentCommitSound ==
  ASSUME Inv, NEW r \in Requests, ConfirmPaymentCommit(r), UNCHANGED hookVars
  PROVE  Inv'
<1> DEFINE row == req[r].row
           status == STRIPE_PAYMENT_STATUS_MAP[req[r].ans.status]
           new == [row EXCEPT !.status = status,
                              !.confirmed_at = @ \/ status = "succeeded",
                              !.failure_code = FALSE]
<1>1. /\ Commits(r, "confirm", "payment.confirmed")
      /\ Flush(req[r].pay, row, new)
      /\ UNCHANGED refunds
  BY DEF ConfirmPaymentCommit
<1>2. /\ UNCHANGED stripeVars /\ req[r].pay \in IdemKeys
      /\ row \in PaymentRows /\ LoadedSound(req[r].pay, row)
      /\ row.external_id \in Intents
      /\ req[r].ans.status \in IntentStates
      /\ Agrees(req[r].ans.status, row.external_id)
  BY <1>1, Committing, Holding DEF AnswerSound
<1>3. /\ status \in Statuses /\ Agrees(status, row.external_id)
      /\ status = "succeeded" => Captured(row.external_id)
  BY <1>2, MapAgrees DEF Agrees, CapturedStatuses
<1>4. /\ new.external_id = row.external_id /\ new.status = status
      /\ new.amount = row.amount /\ new.canceled_at = row.canceled_at
      /\ new.confirmed_at = (row.confirmed_at \/ status = "succeeded")
      /\ new.failure_code = FALSE
      /\ new \in PaymentRows
  BY <1>2, <1>3 DEF PaymentRows
<1>5. RowSound(new)
  BY <1>2, <1>3, <1>4 DEF LoadedSound, RowSound
<1> HIDE DEF new
<1>6. /\ payments' \in [IdemKeys -> PaymentRows \cup {None}]
      /\ StatusSound' /\ Evolves
  BY <1>1, <1>2, <1>4, <1>5, FlushSound DEF stripeVars
<1>7. refunds' \in [IdemKeys -> RefundRows \cup {None}] /\ "payment.confirmed" \in AuditActions
  BY <1>1 DEF Inv, TypeOK, DatabaseTypeOK, AuditActions
<1> QED
  BY <1>1, <1>6, <1>7, CommitSound

LEMMA CancelPaymentCommitSound ==
  ASSUME Inv, NEW r \in Requests, CancelPaymentCommit(r), UNCHANGED hookVars
  PROVE  Inv'
<1> DEFINE row == req[r].row
           status == STRIPE_PAYMENT_STATUS_MAP[req[r].ans.status]
           new == [row EXCEPT !.status = status, !.canceled_at = TRUE]
<1>1. /\ Commits(r, "cancel", "payment.canceled")
      /\ Flush(req[r].pay, row, new)
      /\ UNCHANGED refunds
  BY DEF CancelPaymentCommit
<1>2. /\ UNCHANGED stripeVars /\ req[r].pay \in IdemKeys
      /\ row \in PaymentRows /\ LoadedSound(req[r].pay, row)
      /\ row.external_id \in Intents
      /\ req[r].ans.status = "canceled"
      /\ Agrees(req[r].ans.status, row.external_id)
  BY <1>1, Committing, Holding DEF AnswerSound
<1>3. status = "canceled" /\ Abandoned(row.external_id)
  BY <1>2 DEF Agrees, STRIPE_PAYMENT_STATUS_MAP
<1>4. /\ new.external_id = row.external_id /\ new.status = "canceled"
      /\ new.confirmed_at = row.confirmed_at /\ new \in PaymentRows
  BY <1>2, <1>3 DEF PaymentRows, Statuses
<1>5. RowSound(new)
  BY <1>2, <1>3, <1>4 DEF LoadedSound, RowSound, Agrees, CapturedStatuses
<1> HIDE DEF new
<1>6. /\ payments' \in [IdemKeys -> PaymentRows \cup {None}]
      /\ StatusSound' /\ Evolves
  BY <1>1, <1>2, <1>4, <1>5, FlushSound DEF stripeVars
<1>7. refunds' \in [IdemKeys -> RefundRows \cup {None}] /\ "payment.canceled" \in AuditActions
  BY <1>1 DEF Inv, TypeOK, DatabaseTypeOK, AuditActions
<1> QED
  BY <1>1, <1>6, <1>7, CommitSound

LEMMA CreateRefundCommitSound ==
  ASSUME Inv, NEW r \in Requests, CreateRefundCommit(r), UNCHANGED hookVars
  PROVE  Inv'
<1> DEFINE new == [payment |-> req[r].pay, external_id |-> req[r].ans.refund,
                   amount |-> req[r].amount,
                   status |-> RefundStatusOf(req[r].ans.status)]
<1>1. /\ Commits(r, "refund", "refund.created")
      /\ refunds' = [refunds EXCEPT ![req[r].key] = new]
      /\ UNCHANGED payments
  BY DEF CreateRefundCommit
<1>2. /\ UNCHANGED stripeVars
      /\ req[r].pay \in IdemKeys /\ req[r].key \in IdemKeys
      /\ req[r].ans.refund \in RefundIds /\ req[r].amount \in Nat \ {0}
      /\ req[r].ans.status \in StripeRefundStatuses
  BY <1>1, Committing, Holding DEF AnswerSound
<1>3. RefundStatusOf(req[r].ans.status) \in RefundStatuses
  BY <1>2 DEF STRIPE_REFUND_STATUS_MAP, StripeRefundStatuses, RefundStatusOf, RefundStatuses
<1>4. new \in RefundRows /\ new # None
  BY <1>2, <1>3, NoneIsNoRow DEF RefundRows
<1> HIDE DEF new
<1>5. refunds' \in [IdemKeys -> RefundRows \cup {None}]
  BY <1>1, <1>4 DEF Inv, TypeOK, DatabaseTypeOK
<1>6. Evolves
  BY <1>1, <1>2, <1>4 DEF Inv, TypeOK, DatabaseTypeOK, Evolves, stripeVars, Captured, Abandoned
<1>7. StatusSound'
  BY <1>1, <1>6, StatusKept DEF Inv
<1>8. /\ payments' \in [IdemKeys -> PaymentRows \cup {None}]
      /\ "refund.created" \in AuditActions
  BY <1>1 DEF Inv, TypeOK, DatabaseTypeOK, AuditActions
<1> QED
  BY <1>1, <1>5, <1>6, <1>7, <1>8, CommitSound

\* The response that goes out before the commit locks the row it wrote.
LEMMA RespondFirstSound ==
  ASSUME Inv, NEW r \in Requests, RespondFirst(r), UNCHANGED hookVars
  PROVE  Inv'
<1> DEFINE q == req[r]
           state == [q EXCEPT !.pc = "answered", !.reply = "2xx"]
<1>1. /\ req[r].pc = "called" /\ Live(r)
      /\ locks' = locks \cup {RowOf(r)}
      /\ req' = [req EXCEPT ![r].pc = "answered", ![r].reply = "2xx"]
      /\ UNCHANGED <<payments, refunds, webhook_events, audit_log, stripeVars>>
  BY DEF RespondFirst, Lock, Live
<1>2. q \in RequestStates /\ RequestSound(r) /\ q.pay \in IdemKeys /\ q.key \in IdemKeys
  BY <1>1, Holding
<1>3. RowOf(r) \in Rows
  BY <1>2 DEF RowOf, Rows
<1>4. Evolves
  BY <1>1 DEF Evolves, stripeVars, Captured, Abandoned
<1>5. DatabaseSound'
  BY <1>1, <1>3, <1>4, StatusKept DEF Inv, TypeOK, DatabaseTypeOK, DatabaseSound
<1>6. /\ state \in RequestStates /\ state.pc = "answered"
      /\ state.op = q.op /\ state.pay = q.pay /\ state.key = q.key
      /\ state.amount = q.amount /\ state.row = q.row /\ state.ans = q.ans
  BY <1>2 DEF RequestStates
<1>7. req' = [req EXCEPT ![r] = state] /\ req'[r] = state
  BY <1>1 DEF Inv, TypeOK
<1>8. RequestSound(r)'
  <2>1. PICK p \in RequestStates : p = req[r]
    BY <1>2
  <2>2. /\ p.op # "create" => LoadedSound(p.pay, p.row)
        /\ p.ans \in Answers /\ p.ans # None /\ p.ans.status # "error"
        /\ AnswerSound(p.op, p.row.external_id, p.amount, p.ans)
    BY <1>1, <2>1, Holding, NoneIsNoObject
  <2>3. /\ p.op # "create" => LoadedSound(p.pay, p.row)'
        /\ AnswerSound(p.op, p.row.external_id, p.amount, p.ans)'
    <3>1. p.pay \in IdemKeys /\ p.row \in PaymentRows \cup {None}
      BY <1>2, <2>1 DEF RequestStates
    <3> QED
      BY <1>4, <2>2, <3>1, LoadedKept, AnswerKept
  <2> HIDE DEF state
  <2> QED
    BY <1>1, <1>2, <1>6, <1>7, <2>1, <2>2, <2>3, NoneIsNoValue DEF RequestSound, Live
<1> QED
  BY <1>1, <1>4, <1>5, <1>6, <1>7, <1>8, RequestMoves, StripeKept, DeliveriesKept, InvParts

LEMMA RollbackSound ==
  ASSUME Inv, NEW r \in Requests, Rollback(r), UNCHANGED hookVars
  PROVE  Inv'
<1>1. /\ locks' \subseteq locks
      /\ Finish(r, IF req[r].pc = "answered" THEN "2xx" ELSE "5xx")
      /\ UNCHANGED <<payments, refunds, webhook_events, audit_log, stripeVars>>
  BY DEF Rollback, Unlock
<1>2. Evolves
  BY <1>1 DEF Evolves, stripeVars, Captured, Abandoned
<1>3. DatabaseSound'
  BY <1>1, <1>2, StatusKept DEF Inv, TypeOK, DatabaseTypeOK, DatabaseSound
<1>4. RequestsSound'
  BY <1>1, <1>2, FinishSound
<1> QED
  BY <1>1, <1>2, <1>3, <1>4, StripeKept, DeliveriesKept, InvParts

LEMMA InsertConflictsSound ==
  ASSUME Inv, NEW r \in Requests, InsertConflicts(r), UNCHANGED hookVars
  PROVE  Inv'
BY QuietEvolves, FinishSound, ReadSound DEF InsertConflicts

\* One case per action of the three modules of requests.
LEMMA RequestStepSound ==
  ASSUME Inv, PaymentServiceNext \/ RefundServiceNext \/ SessionNext, UNCHANGED hookVars
  PROVE  Inv'
<1>1. CASE PaymentServiceNext
  <2>1. ASSUME NEW r \in Requests, NEW k \in PayKeys, NEW cred \in Credentials,
               NEW amount \in Amounts, CreatePayment(r, k, amount, cred)
        PROVE  Inv'
    BY <2>1, CreatePaymentSound
  <2>2. ASSUME NEW r \in Requests, NEW k \in PayKeys, NEW cred \in Credentials,
               NEW key \in IdemKeys,
               ConfirmPayment(r, k, key, cred) \/ CancelPayment(r, k, key, cred)
        PROVE  Inv'
    BY <2>2, LoadPaymentSound DEF ConfirmPayment, CancelPayment
  <2>3. ASSUME NEW r \in Requests, PaymentServiceStep(r)
        PROVE  Inv'
    BY <2>3, CreatePaymentCallSound, CreatePaymentCommitSound, ConfirmPaymentCallSound,
       ConfirmPaymentCommitSound, CancelPaymentCallSound, CancelPaymentCommitSound
       DEF PaymentServiceStep
  <2> QED
    BY <1>1, <2>1, <2>2, <2>3 DEF PaymentServiceNext
<1>2. CASE RefundServiceNext
  BY <1>2, CreateRefundSound, CreateRefundChecksSound, CreateRefundCallSound,
     CreateRefundCommitSound DEF RefundServiceNext, RefundServiceStep
<1>3. CASE SessionNext
  BY <1>3, InsertConflictsSound, RespondFirstSound, RollbackSound DEF SessionNext
<1> QED
  BY <1>1, <1>2, <1>3
-------------------------------------------------------------------------------
LEMMA ReleaseSound ==
  ASSUME Inv, Evolves, NEW w \in Workers, Release(w), faults' \in 0 .. MaxFaults
  PROVE  DeliveriesSound'
<1>1. Waiting \in DeliveryStates
  BY MaxEventsIsNat DEF Waiting, DeliveryStates
<1>2. DeliverySound(w)'
  BY DEF Release, Waiting, DeliverySound, Inv, TypeOK
<1> QED
  BY <1>1, <1>2, DeliveryMoves DEF Release

LEMMA GotoSound ==
  ASSUME Inv, Evolves, NEW w \in Workers,
         NEW pc \in {"stored", "loaded", "handled", "answered", "raised"},
         hook[w].pc # "idle", Goto(w, pc), faults' \in 0 .. MaxFaults
  PROVE  DeliveriesSound'
<1> DEFINE state == [hook[w] EXCEPT !.pc = pc]
<1>1. PICK d \in DeliveryStates : d = hook[w]
  BY DEF Inv, TypeOK
<1>2. /\ state \in DeliveryStates /\ state.pc = pc /\ state.event = d.event
      /\ state.pay = d.pay /\ state.row = d.row /\ state.refund = d.refund
  BY <1>1 DEF DeliveryStates
<1>3. hook' = [hook EXCEPT ![w] = state] /\ hook'[w] = state
  BY DEF Goto, Inv, TypeOK
<1>4. /\ d.event \in DOMAIN events'
      /\ d.pay # None => /\ LoadedSound(d.pay, d.row)'
                         /\ d.row.external_id = events'[d.event].pi
      /\ d.refund # None => refunds'[d.refund] # None
  <2>1. DeliverySound(w)
    BY DEF Inv
  <2>2. /\ d.pay \in IdemKeys \cup {None} /\ d.row \in PaymentRows \cup {None}
        /\ d.refund \in IdemKeys \cup {None}
    BY DEF DeliveryStates
  <2> QED
    BY <1>1, <2>1, <2>2, LoadedKept DEF DeliverySound, EventAt, Evolves
<1> HIDE DEF state
<1>5. DeliverySound(w)'
  BY <1>2, <1>3, <1>4 DEF DeliverySound, EventAt
<1> QED
  BY <1>2, <1>3, <1>5, DeliveryMoves

\* A delivery reads, and changes nothing but its own state.
LEMMA DeliveryReadSound ==
  ASSUME Inv, UNCHANGED <<dbVars, stripeVars, req>>, DeliveriesSound'
  PROVE  Inv'
BY QuietEvolves, DatabaseKept, StripeKept, RequestsKept, InvParts

LEMMA DeliverStepSound ==
  ASSUME Inv, NEW w \in Workers, NEW e, Deliver(w, e), UNCHANGED req
  PROVE  Inv'
<1> DEFINE pc == IF Processed(e) THEN "handled" ELSE IF Stored(e) THEN "stored" ELSE "new"
           state == [Waiting EXCEPT !.event = e, !.pc = pc]
<1>1. /\ e \in DOMAIN events
      /\ hook' = [hook EXCEPT ![w] = state]
      /\ UNCHANGED <<dbVars, stripeVars>>
  BY DEF Deliver
<1>2. e \in 0 .. MaxEvents
  BY <1>1, MaxEventsIsNat DEF Inv, TypeOK, StripeTypeOK
<1>3. pc \in {"handled", "stored", "new"}
  OBVIOUS
<1> HIDE DEF pc
<1>4. /\ state \in DeliveryStates
      /\ state.event = e /\ state.pay = None /\ state.refund = None /\ state.pc # "found"
  BY <1>2, <1>3 DEF Waiting, DeliveryStates
<1> HIDE DEF state
<1>5. DeliverySound(w)'
  BY <1>1, <1>4 DEF DeliverySound, EventAt, Inv, TypeOK, stripeVars
<1>6. Evolves
  BY <1>1, QuietEvolves
<1>7. faults' \in 0 .. MaxFaults
  <2>1. faults \in 0 .. MaxFaults
    BY DEF Inv, TypeOK
  <2> QED
    BY <2>1, MaxFaultsIsNat DEF Deliver
<1>8. DeliveriesSound'
  BY <1>1, <1>4, <1>5, <1>6, <1>7, DeliveryMoves
<1> QED
  BY <1>1, <1>8, DeliveryReadSound

LEMMA StoreEventSound ==
  ASSUME Inv, NEW w \in Workers, StoreEvent(w), UNCHANGED req
  PROVE  Inv'
<1>1. /\ hook[w].pc = "new" /\ (Release(w) \/ Goto(w, "stored"))
      /\ UNCHANGED <<faults, dbVars, stripeVars>>
  BY DEF StoreEvent
<1>2. faults' \in 0 .. MaxFaults /\ Evolves
  BY <1>1, QuietEvolves DEF Inv, TypeOK
<1> QED
  BY <1>1, <1>2, ReleaseSound, GotoSound, DeliveryReadSound

LEMMA FindPaymentSound ==
  ASSUME Inv, NEW w \in Workers, FindPayment(w), UNCHANGED req
  PROVE  Inv'
<1>1. hook[w].pc = "stored" /\ UNCHANGED <<faults, dbVars, stripeVars>>
  BY DEF FindPayment
<1>2. faults' \in 0 .. MaxFaults /\ Evolves
  BY <1>1, QuietEvolves DEF Inv, TypeOK
<1>3. CASE Goto(w, "loaded")
  BY <1>1, <1>2, <1>3, GotoSound, DeliveryReadSound
<1>4. ASSUME NEW k \in PaymentsOf(EventAt(w).pi), NEW pc \in {"found", "loaded"},
             hook' = [hook EXCEPT ![w].pc = pc, ![w].pay = k, ![w].row = payments[k]]
      PROVE  Inv'
  <2>1. /\ k \in IdemKeys /\ payments[k] # None
        /\ payments[k].external_id = EventAt(w).pi
    BY <1>4 DEF PaymentsOf
  <2>2. PICK row \in PaymentRows : row = payments[k] /\ RowSound(row)
    BY <2>1 DEF Inv, TypeOK, DatabaseTypeOK, StatusSound
  <2>3. LoadedSound(k, row)
    BY <2>1, <2>2, NoneIsNoRow, NoneIsNoValue DEF LoadedSound
  <2>4. LoadedSound(k, row)'
    BY <1>2, <2>1, <2>3, LoadedKept
  <2>5. PICK d \in DeliveryStates : d = hook[w]
    BY DEF Inv, TypeOK
  <2> DEFINE state == [d EXCEPT !.pc = pc, !.pay = k, !.row = row]
  <2>6. /\ state \in DeliveryStates /\ state.pc = pc /\ state.event = d.event
        /\ state.pay = k /\ state.row = row /\ state.refund = d.refund
    BY <2>1, <2>5 DEF DeliveryStates
  <2>7. hook' = [hook EXCEPT ![w] = state] /\ hook'[w] = state
    BY <1>4, <2>2, <2>5 DEF Inv, TypeOK
  <2>8. d.event \in DOMAIN events /\ (d.refund # None => refunds[d.refund] # None)
    BY <1>1, <2>5 DEF Inv, DeliverySound
  <2> HIDE DEF state
  <2>9. DeliverySound(w)'
    BY <1>1, <2>1, <2>2, <2>4, <2>5, <2>6, <2>7, <2>8, NoneIsNoValue
       DEF DeliverySound, EventAt, stripeVars, dbVars
  <2> QED
    BY <1>1, <1>2, <2>6, <2>7, <2>9, DeliveryMoves, DeliveryReadSound
<1> QED
  BY <1>3, <1>4 DEF FindPayment

LEMMA LoadRefundsSound ==
  ASSUME Inv, NEW w \in Workers, LoadRefunds(w), UNCHANGED req
  PROVE  Inv'
<1> DEFINE named == {x \in IdemKeys : /\ refunds[x] # None
                                      /\ refunds[x].external_id =
                                           RefundProviderId(EventAt(w))}
           total == RefundedAmount(hook[w].pay, named)
           refund == IF named = {} THEN None ELSE CHOOSE x \in named : TRUE
<1>1. /\ hook[w].pc = "found"
      /\ hook' = [hook EXCEPT ![w].pc = "loaded", ![w].total = total, ![w].refund = refund]
      /\ UNCHANGED <<faults, dbVars, stripeVars>>
  BY DEF LoadRefunds
<1>2. faults' \in 0 .. MaxFaults /\ Evolves
  BY <1>1, QuietEvolves DEF Inv, TypeOK
<1>3. PICK n \in Nat : n = total
  BY RefundedIsNat
<1>4. refund = None \/ (refund \in IdemKeys /\ refunds[refund] # None)
  <2>1. named # {} => refund \in named
    OBVIOUS
  <2> QED
    BY <2>1
<1> HIDE DEF total, refund
<1>5. PICK x \in IdemKeys \cup {None} : x = refund
  BY <1>4
<1>6. PICK d \in DeliveryStates : d = hook[w]
  BY DEF Inv, TypeOK
<1> DEFINE state == [d EXCEPT !.pc = "loaded", !.total = n, !.refund = x]
<1>7. /\ state \in DeliveryStates /\ state.pc = "loaded" /\ state.event = d.event
      /\ state.pay = d.pay /\ state.row = d.row /\ state.refund = x
  BY <1>3, <1>5, <1>6 DEF DeliveryStates
<1>8. hook' = [hook EXCEPT ![w] = state] /\ hook'[w] = state
  BY <1>1, <1>3, <1>5, <1>6 DEF Inv, TypeOK
<1>9. /\ d.event \in DOMAIN events
      /\ LoadedSound(d.pay, d.row) /\ d.row.external_id = events[d.event].pi
  BY <1>1, <1>6 DEF Inv, DeliverySound, EventAt
<1>10. LoadedSound(d.pay, d.row)'
  BY <1>2, <1>6, <1>9, LoadedKept DEF DeliveryStates
<1> HIDE DEF state
<1>11. DeliverySound(w)'
  BY <1>1, <1>4, <1>5, <1>7, <1>8, <1>9, <1>10
     DEF DeliverySound, EventAt, stripeVars, dbVars
<1> QED
  BY <1>1, <1>2, <1>7, <1>8, <1>11, DeliveryMoves, DeliveryReadSound

LEMMA AnswerFirstSound ==
  ASSUME Inv, NEW w \in Workers, AnswerFirst(w), UNCHANGED req
  PROVE  Inv'
<1>1. /\ hook[w].pc = "loaded" /\ Goto(w, "answered")
      /\ acked' = acked \cup {hook[w].event}
      /\ \/ UNCHANGED locks
         \/ hook[w].pay # None /\ locks' = locks \cup {<<"payments", hook[w].pay>>}
      /\ UNCHANGED <<faults, payments, refunds, webhook_events, audit_log, intents,
                     stripe_refunds, saved, events>>
  BY DEF AnswerFirst, Lock
<1>2. Evolves
  BY <1>1 DEF Evolves, Captured, Abandoned
<1>3. locks' \subseteq Rows
  BY <1>1 DEF Inv, TypeOK, DatabaseTypeOK, DeliveryStates, Rows
<1>4. DatabaseSound'
  BY <1>1, <1>2, <1>3, StatusKept DEF Inv, TypeOK, DatabaseTypeOK, DatabaseSound
<1>5. hook[w].event \in 1 .. MaxEvents
  BY <1>1, MaxEventsIsNat DEF Inv, TypeOK, StripeTypeOK, DeliverySound
<1>6. StripeSound'
  BY <1>1, <1>2, <1>5, SavedKept, EventsKept, ChargesKept
     DEF Inv, TypeOK, StripeTypeOK, StripeSound
<1>7. faults' \in 0 .. MaxFaults
  BY <1>1 DEF Inv, TypeOK
<1> QED
  BY <1>1, <1>2, <1>4, <1>6, <1>7, GotoSound, RequestsKept, InvParts

\* What the commit of a handler finds: a sound row of the intent that its event
\* is of, and an event that says what was so.
LEMMA HandlingSound ==
  ASSUME Inv, NEW w \in Workers, NEW type, Handling(w, type)
  PROVE  /\ hook[w].pc \in {"loaded", "answered"}
         /\ hook[w].pay \in IdemKeys
         /\ hook[w].row \in PaymentRows
         /\ LoadedSound(hook[w].pay, hook[w].row)
         /\ hook[w].event \in 1 .. MaxEvents
         /\ EventSound([type |-> type, pi |-> hook[w].row.external_id,
                        object |-> EventAt(w).object])
<1>1. /\ hook[w].pc \in {"loaded", "answered"} /\ hook[w].pay # None
      /\ EventAt(w).type = type
  BY DEF Handling, ReadyToCommit
<1>2. /\ hook[w].event \in DOMAIN events
      /\ LoadedSound(hook[w].pay, hook[w].row)
      /\ hook[w].row.external_id = EventAt(w).pi
  BY <1>1 DEF Inv, DeliverySound
<1>3. hook[w].pay \in IdemKeys /\ hook[w].row \in PaymentRows
  BY <1>1, <1>2 DEF Inv, TypeOK, DeliveryStates, LoadedSound
<1>4. hook[w].event \in 1 .. MaxEvents
  BY <1>2, MaxEventsIsNat DEF Inv, TypeOK, StripeTypeOK
<1>5. EventSound(EventAt(w))
  BY <1>2 DEF Inv, EventsSound, EventAt
<1> QED
  BY <1>1, <1>2, <1>3, <1>4, <1>5 DEF EventSound

\* The event's row is committed, given what the handler does to the tables.
LEMMA MarkProcessedSound ==
  ASSUME Inv, NEW w \in Workers, ReadyToCommit(w), MarkProcessed(w), UNCHANGED req,
         Evolves, StatusSound',
         payments' \in [IdemKeys -> PaymentRows \cup {None}],
         refunds' \in [IdemKeys -> RefundRows \cup {None}],
         DOMAIN audit_log' \subseteq [action : AuditActions, pay : IdemKeys,
                                     by : Requests \cup (1 .. MaxEvents)]
  PROVE  Inv'
<1> DEFINE row == [event |-> hook[w].event, processed |-> TRUE]
<1>1. /\ hook[w].pc # "idle" /\ (Release(w) \/ Goto(w, "handled"))
      /\ webhook_events' = webhook_events \cup {row}
      /\ locks' \subseteq locks
      /\ UNCHANGED <<faults, stripeVars>>
  BY DEF ReadyToCommit, MarkProcessed, Unlock
<1>2. row \in [event : 1 .. MaxEvents, processed : BOOLEAN]
  BY <1>1, MaxEventsIsNat DEF Inv, TypeOK, StripeTypeOK, DeliverySound
<1>3. DatabaseSound'
  BY <1>1, <1>2 DEF Inv, TypeOK, DatabaseTypeOK, DatabaseSound
<1>4. faults' \in 0 .. MaxFaults
  BY <1>1 DEF Inv, TypeOK
<1>5. DeliveriesSound'
  BY <1>1, <1>4, ReleaseSound, GotoSound
<1> QED
  BY <1>1, <1>3, <1>5, StripeKept, RequestsKept, InvParts

\* The status change of a handler, applied or refused.
LEMMA ApplySound ==
  ASSUME Inv, NEW w \in Workers, NEW type, Handling(w, type), NEW target,
         NEW new \in PaymentRows, new.external_id = hook[w].row.external_id,
         RowSound(new), Apply(w, target, new), UNCHANGED stripeVars,
         \A x \in IdemKeys : refunds[x] # None => refunds'[x] # None
  PROVE  /\ payments' \in [IdemKeys -> PaymentRows \cup {None}]
         /\ StatusSound'
         /\ Evolves
<1>1. /\ hook[w].pay \in IdemKeys /\ hook[w].row \in PaymentRows
      /\ LoadedSound(hook[w].pay, hook[w].row)
  BY HandlingSound
<1>2. UNCHANGED <<intents, events>>
  BY DEF stripeVars
<1>3. CASE Flush(hook[w].pay, hook[w].row, new)
  BY <1>1, <1>2, <1>3, FlushSound
<1>4. CASE UNCHANGED payments
  <2>1. Evolves
    BY <1>2, <1>4 DEF Evolves, Captured, Abandoned
  <2> QED
    BY <1>4, <2>1, StatusKept DEF Inv, TypeOK, DatabaseTypeOK
<1> QED
  BY <1>3, <1>4 DEF Apply

\* A handler that writes new over the row it loaded, and maybe an audit row.
LEMMA HandlerSound ==
  ASSUME Inv, NEW w \in Workers, NEW type, Handling(w, type), NEW target,
         NEW new \in PaymentRows, new.external_id = hook[w].row.external_id,
         RowSound(new), Apply(w, target, new), MarkProcessed(w), UNCHANGED req,
         refunds' \in [IdemKeys -> RefundRows \cup {None}],
         \A x \in IdemKeys : refunds[x] # None => refunds'[x] # None,
         \/ UNCHANGED audit_log
         \/ \E action \in AuditActions : LogAction(action, hook[w].pay, hook[w].event)
  PROVE  Inv'
<1>1. UNCHANGED stripeVars /\ ReadyToCommit(w)
  BY DEF MarkProcessed, Handling
<1>2. hook[w].pay \in IdemKeys /\ hook[w].event \in 1 .. MaxEvents
  BY HandlingSound
<1>3. DOMAIN audit_log' \subseteq [action : AuditActions, pay : IdemKeys,
                                  by : Requests \cup (1 .. MaxEvents)]
  BY <1>2, LogActionTyped DEF Inv, TypeOK, DatabaseTypeOK
<1> QED
  BY <1>1, <1>3, ApplySound, MarkProcessedSound

LEMMA HandlePaymentSucceededSound ==
  ASSUME Inv, NEW w \in Workers, HandlePaymentSucceeded(w), UNCHANGED req
  PROVE  Inv'
<1> DEFINE row == hook[w].row
           new == [row EXCEPT !.status = "succeeded", !.confirmed_at = TRUE]
<1>1. /\ Handling(w, "payment_intent.succeeded") /\ MarkProcessed(w)
      /\ Apply(w, "succeeded", new)
      /\ UNCHANGED refunds
  BY DEF HandlePaymentSucceeded
<1>2. new \in PaymentRows /\ new.external_id = row.external_id /\ RowSound(new)
  <2>1. /\ row \in PaymentRows /\ RowSound(row)
        /\ EventSound([type |-> "payment_intent.succeeded", pi |-> row.external_id,
                       object |-> EventAt(w).object])
    BY <1>1, HandlingSound DEF LoadedSound
  <2>2. /\ new.status = "succeeded" /\ new.canceled_at = row.canceled_at
        /\ new.external_id = row.external_id /\ new \in PaymentRows
    BY <2>1 DEF PaymentRows, Statuses
  <2> QED
    BY <2>1, <2>2 DEF RowSound, Agrees, EventSound, CapturedStatuses
<1>3. \/ UNCHANGED audit_log
      \/ \E action \in AuditActions : LogAction(action, hook[w].pay, hook[w].event)
  BY DEF HandlePaymentSucceeded, LogApplied, AuditActions
<1>4. refunds' \in [IdemKeys -> RefundRows \cup {None}]
  BY <1>1 DEF Inv, TypeOK, DatabaseTypeOK
<1> HIDE DEF new, row
<1> QED
  BY <1>1, <1>2, <1>3, <1>4, HandlerSound DEF row

LEMMA HandlePaymentFailedSound ==
  ASSUME Inv, NEW w \in Workers, HandlePaymentFailed(w), UNCHANGED req
  PROVE  Inv'
<1> DEFINE row == hook[w].row
           new == [row EXCEPT !.status = "failed", !.failure_code = TRUE]
<1>1. /\ Handling(w, "payment_intent.payment_failed") /\ MarkProcessed(w)
      /\ Apply(w, "failed", new)
      /\ UNCHANGED refunds
  BY DEF HandlePaymentFailed
<1>2. new \in PaymentRows /\ new.external_id = row.external_id /\ RowSound(new)
  <2>1. /\ row \in PaymentRows /\ RowSound(row)
        /\ EventSound([type |-> "payment_intent.payment_failed", pi |-> row.external_id,
                       object |-> EventAt(w).object])
    BY <1>1, HandlingSound DEF LoadedSound
  <2>2. /\ new.status = "failed"
        /\ new.confirmed_at = row.confirmed_at /\ new.canceled_at = row.canceled_at
        /\ new.external_id = row.external_id /\ new \in PaymentRows
    BY <2>1 DEF PaymentRows, Statuses
  <2> QED
    BY <2>1, <2>2 DEF RowSound, Agrees, EventSound, CapturedStatuses
<1>3. \/ UNCHANGED audit_log
      \/ \E action \in AuditActions : LogAction(action, hook[w].pay, hook[w].event)
  BY DEF HandlePaymentFailed, LogApplied, AuditActions
<1>4. refunds' \in [IdemKeys -> RefundRows \cup {None}]
  BY <1>1 DEF Inv, TypeOK, DatabaseTypeOK
<1> HIDE DEF new, row
<1> QED
  BY <1>1, <1>2, <1>3, <1>4, HandlerSound DEF row

LEMMA HandlePaymentCanceledSound ==
  ASSUME Inv, NEW w \in Workers, HandlePaymentCanceled(w), UNCHANGED req
  PROVE  Inv'
<1> DEFINE row == hook[w].row
           new == [row EXCEPT !.status = "canceled", !.canceled_at = TRUE]
<1>1. /\ Handling(w, "payment_intent.canceled") /\ MarkProcessed(w)
      /\ Apply(w, "canceled", new)
      /\ UNCHANGED refunds
  BY DEF HandlePaymentCanceled
<1>2. new \in PaymentRows /\ new.external_id = row.external_id /\ RowSound(new)
  <2>1. /\ row \in PaymentRows /\ RowSound(row)
        /\ EventSound([type |-> "payment_intent.canceled", pi |-> row.external_id,
                       object |-> EventAt(w).object])
    BY <1>1, HandlingSound DEF LoadedSound
  <2>2. /\ new.status = "canceled" /\ new.confirmed_at = row.confirmed_at
        /\ new.external_id = row.external_id /\ new \in PaymentRows
    BY <2>1 DEF PaymentRows, Statuses
  <2> QED
    BY <2>1, <2>2 DEF RowSound, Agrees, EventSound, CapturedStatuses
<1>3. \/ UNCHANGED audit_log
      \/ \E action \in AuditActions : LogAction(action, hook[w].pay, hook[w].event)
  BY DEF HandlePaymentCanceled, LogApplied, AuditActions
<1>4. refunds' \in [IdemKeys -> RefundRows \cup {None}]
  BY <1>1 DEF Inv, TypeOK, DatabaseTypeOK
<1> HIDE DEF new, row
<1> QED
  BY <1>1, <1>2, <1>3, <1>4, HandlerSound DEF row

LEMMA HandlePaymentProcessingSound ==
  ASSUME Inv, NEW w \in Workers, HandlePaymentProcessing(w), UNCHANGED req
  PROVE  Inv'
<1> DEFINE row == hook[w].row
           new == [row EXCEPT !.status = "processing"]
<1>1. /\ Handling(w, "payment_intent.processing") /\ MarkProcessed(w)
      /\ Apply(w, "processing", new)
      /\ UNCHANGED refunds
  BY DEF HandlePaymentProcessing
<1>2. new \in PaymentRows /\ new.external_id = row.external_id /\ RowSound(new)
  <2>1. /\ row \in PaymentRows /\ RowSound(row)
        /\ EventSound([type |-> "payment_intent.processing", pi |-> row.external_id,
                       object |-> EventAt(w).object])
    BY <1>1, HandlingSound DEF LoadedSound
  <2>2. /\ new.status = "processing"
        /\ new.confirmed_at = row.confirmed_at /\ new.canceled_at = row.canceled_at
        /\ new.external_id = row.external_id /\ new \in PaymentRows
    BY <2>1 DEF PaymentRows, Statuses
  <2> QED
    BY <2>1, <2>2 DEF RowSound, Agrees, EventSound, CapturedStatuses
<1>3. UNCHANGED audit_log
  BY DEF HandlePaymentProcessing
<1>4. refunds' \in [IdemKeys -> RefundRows \cup {None}]
  BY <1>1 DEF Inv, TypeOK, DatabaseTypeOK
<1> HIDE DEF new, row
<1> QED
  BY <1>1, <1>2, <1>3, <1>4, HandlerSound DEF row

LEMMA HandlePaymentRequiresActionSound ==
  ASSUME Inv, NEW w \in Workers, HandlePaymentRequiresAction(w), UNCHANGED req
  PROVE  Inv'
<1> DEFINE row == hook[w].row
           new == [row EXCEPT !.status = "requires_action"]
<1>1. /\ Handling(w, "payment_intent.requires_action") /\ MarkProcessed(w)
      /\ Apply(w, "requires_action", new)
      /\ UNCHANGED refunds
  BY DEF HandlePaymentRequiresAction
<1>2. new \in PaymentRows /\ new.external_id = row.external_id /\ RowSound(new)
  <2>1. /\ row \in PaymentRows /\ RowSound(row)
        /\ EventSound([type |-> "payment_intent.requires_action", pi |-> row.external_id,
                       object |-> EventAt(w).object])
    BY <1>1, HandlingSound DEF LoadedSound
  <2>2. /\ new.status = "requires_action"
        /\ new.confirmed_at = row.confirmed_at /\ new.canceled_at = row.canceled_at
        /\ new.external_id = row.external_id /\ new \in PaymentRows
    BY <2>1 DEF PaymentRows, Statuses
  <2> QED
    BY <2>1, <2>2 DEF RowSound, Agrees, EventSound, CapturedStatuses
<1>3. UNCHANGED audit_log
  BY DEF HandlePaymentRequiresAction
<1>4. refunds' \in [IdemKeys -> RefundRows \cup {None}]
  BY <1>1 DEF Inv, TypeOK, DatabaseTypeOK
<1> HIDE DEF new, row
<1> QED
  BY <1>1, <1>2, <1>3, <1>4, HandlerSound DEF row

LEMMA HandleDisputeCreatedSound ==
  ASSUME Inv, NEW w \in Workers, HandleDisputeCreated(w), UNCHANGED req
  PROVE  Inv'
<1> DEFINE row == hook[w].row
           new == [row EXCEPT !.status = "disputed"]
<1>1. /\ Handling(w, "charge.dispute.created") /\ MarkProcessed(w)
      /\ Apply(w, "disputed", new)
      /\ UNCHANGED refunds
  BY DEF HandleDisputeCreated
<1>2. new \in PaymentRows /\ new.external_id = row.external_id /\ RowSound(new)
  <2>1. /\ row \in PaymentRows /\ RowSound(row)
        /\ EventSound([type |-> "charge.dispute.created", pi |-> row.external_id,
                       object |-> EventAt(w).object])
    BY <1>1, HandlingSound DEF LoadedSound
  <2>2. /\ new.status = "disputed"
        /\ new.confirmed_at = row.confirmed_at /\ new.canceled_at = row.canceled_at
        /\ new.external_id = row.external_id /\ new \in PaymentRows
    BY <2>1 DEF PaymentRows, Statuses
  <2> QED
    BY <2>1, <2>2 DEF RowSound, Agrees, EventSound, CapturedStatuses
<1>3. \E action \in AuditActions : LogAction(action, hook[w].pay, hook[w].event)
  BY DEF HandleDisputeCreated, AuditActions
<1>4. refunds' \in [IdemKeys -> RefundRows \cup {None}]
  BY <1>1 DEF Inv, TypeOK, DatabaseTypeOK
<1> HIDE DEF new, row
<1> QED
  BY <1>1, <1>2, <1>3, <1>4, HandlerSound DEF row

\* Whatever total the handler compares, either status says no more than that
\* there was a charge.
LEMMA HandleChargeRefundedSound ==
  ASSUME Inv, NEW w \in Workers, HandleChargeRefunded(w), UNCHANGED req
  PROVE  Inv'
<1> DEFINE row == hook[w].row
           x == hook[w].refund
           status == IF hook[w].total >= row.amount THEN "refunded" ELSE "partially_refunded"
           new == [row EXCEPT !.status = status]
<1>1. /\ Handling(w, "charge.refunded") /\ MarkProcessed(w)
      /\ Apply(w, status, new)
      /\ refunds' = IF x = None THEN refunds
                    ELSE [refunds EXCEPT ![x].status = "succeeded"]
      /\ LogAction("refund.completed_via_webhook", hook[w].pay, hook[w].event)
  BY DEF HandleChargeRefunded
<1>2. status \in {"refunded", "partially_refunded"}
  OBVIOUS
<1> HIDE DEF status
<1>3. new \in PaymentRows /\ new.external_id = row.external_id /\ RowSound(new)
  <2>1. /\ row \in PaymentRows /\ RowSound(row)
        /\ EventSound([type |-> "charge.refunded", pi |-> row.external_id,
                       object |-> EventAt(w).object])
    BY <1>1, HandlingSound DEF LoadedSound
  <2>2. /\ new.status = status
        /\ new.confirmed_at = row.confirmed_at /\ new.canceled_at = row.canceled_at
        /\ new.external_id = row.external_id /\ new \in PaymentRows
    BY <1>2, <2>1 DEF PaymentRows, Statuses
  <2> QED
    BY <1>2, <2>1, <2>2 DEF RowSound, Agrees, EventSound, CapturedStatuses
<1>4. /\ refunds' \in [IdemKeys -> RefundRows \cup {None}]
      /\ \A k \in IdemKeys : refunds[k] # None => refunds'[k] # None
  <2>1. CASE x = None
    BY <1>1, <2>1 DEF Inv, TypeOK, DatabaseTypeOK
  <2>2. CASE x # None
    <3>1. x \in IdemKeys /\ refunds[x] # None
      BY <2>2 DEF Inv, TypeOK, DeliveryStates, DeliverySound
    <3>2. refunds[x] \in RefundRows
      BY <3>1 DEF Inv, TypeOK, DatabaseTypeOK
    <3> DEFINE refund == [refunds[x] EXCEPT !.status = "succeeded"]
    <3>3. refund \in RefundRows /\ refund # None
      BY <3>2, NoneIsNoRow
      DEF RefundRows, RefundStatuses, RefundStatusOf, StripeRefundStatuses,
          STRIPE_REFUND_STATUS_MAP
    <3>4. refunds' = [refunds EXCEPT ![x] = refund]
      BY <1>1, <2>2
    <3> HIDE DEF refund
    <3> QED
      BY <3>1, <3>3, <3>4 DEF Inv, TypeOK, DatabaseTypeOK
  <2> QED
    BY <2>1, <2>2
<1>5. "refund.completed_via_webhook" \in AuditActions
  BY DEF AuditActions
<1> HIDE DEF new, row, x
<1> QED
  BY <1>1, <1>3, <1>4, <1>5, HandlerSound DEF row

LEMMA HandleNothingSound ==
  ASSUME Inv, NEW w \in Workers, HandleNothing(w), UNCHANGED req
  PROVE  Inv'
<1>1. /\ ReadyToCommit(w) /\ MarkProcessed(w)
      /\ UNCHANGED <<payments, refunds, audit_log, stripeVars>>
  BY DEF HandleNothing, MarkProcessed
<1>2. Evolves
  BY <1>1 DEF Evolves, stripeVars, Captured, Abandoned
<1> QED
  BY <1>1, <1>2, StatusKept, MarkProcessedSound DEF Inv, TypeOK, DatabaseTypeOK

LEMMA AnswerOkSound ==
  ASSUME Inv, NEW w \in Workers, AnswerOk(w), UNCHANGED req
  PROVE  Inv'
<1>1. /\ hook[w].pc = "handled" /\ Release(w)
      /\ acked' = acked \cup {hook[w].event}
      /\ UNCHANGED <<faults, dbVars, intents, stripe_refunds, saved, events>>
  BY DEF AnswerOk
<1>2. Evolves
  BY <1>1 DEF Evolves, dbVars, Captured, Abandoned
<1>3. hook[w].event \in 1 .. MaxEvents
  BY <1>1, MaxEventsIsNat DEF Inv, TypeOK, StripeTypeOK, DeliverySound
<1>4. StripeSound'
  BY <1>1, <1>2, <1>3, SavedKept, EventsKept, ChargesKept
     DEF Inv, TypeOK, StripeTypeOK, StripeSound
<1>5. faults' \in 0 .. MaxFaults
  BY <1>1 DEF Inv, TypeOK
<1> QED
  BY <1>1, <1>2, <1>4, <1>5, ReleaseSound, DatabaseKept, RequestsKept, InvParts

\* A delivery that fails leaves everything but its own state as it was.
LEMMA DeliveryEndsSound ==
  ASSUME Inv, NEW w \in Workers, HandlerRaises(w) \/ AnswerError(w) \/ Drop(w),
         UNCHANGED req
  PROVE  Inv'
<1>1. faults' \in 0 .. MaxFaults
  BY MaxFaultsIsNat DEF Inv, TypeOK, HandlerRaises, AnswerError, Drop
<1>2. CASE HandlerRaises(w)
  BY <1>1, <1>2, QuietEvolves, GotoSound, DeliveryReadSound DEF HandlerRaises
<1>3. CASE AnswerError(w)
  BY <1>1, <1>3, QuietEvolves, ReleaseSound, DeliveryReadSound DEF AnswerError
<1>4. CASE Drop(w)
  <2>1. /\ Release(w) /\ locks' \subseteq locks
        /\ UNCHANGED <<payments, refunds, webhook_events, audit_log, stripeVars>>
    BY <1>4 DEF Drop, Unlock
  <2>2. Evolves
    BY <2>1 DEF Evolves, stripeVars, Captured, Abandoned
  <2>3. DatabaseSound'
    BY <2>1, <2>2, StatusKept DEF Inv, TypeOK, DatabaseTypeOK, DatabaseSound
  <2> QED
    BY <1>1, <2>1, <2>2, <2>3, ReleaseSound, StripeKept, RequestsKept, InvParts
<1> QED
  BY <1>2, <1>3, <1>4

\* One case per action of a delivery.
LEMMA DeliveryStepSound ==
  ASSUME Inv, WebhookServiceNext, UNCHANGED req
  PROVE  Inv'
<1>1. ASSUME NEW w \in Workers, NEW e \in 1 .. MaxEvents, Deliver(w, e)
      PROVE  Inv'
  BY <1>1, DeliverStepSound
<1>2. ASSUME NEW w \in Workers, HandleEvent(w)
      PROVE  Inv'
  BY <1>2, HandleNothingSound, HandlePaymentSucceededSound, HandlePaymentFailedSound,
     HandlePaymentCanceledSound, HandlePaymentProcessingSound,
     HandlePaymentRequiresActionSound, HandleChargeRefundedSound, HandleDisputeCreatedSound
     DEF HandleEvent
<1>3. ASSUME NEW w \in Workers, WebhookServiceStep(w)
      PROVE  Inv'
  BY <1>2, <1>3, StoreEventSound, FindPaymentSound, LoadRefundsSound, AnswerFirstSound,
     AnswerOkSound, DeliveryEndsSound DEF WebhookServiceStep
<1>4. ASSUME NEW w \in Workers, HandlerRaises(w) \/ Drop(w)
      PROVE  Inv'
  BY <1>4, DeliveryEndsSound
<1> QED
  BY <1>1, <1>3, <1>4 DEF WebhookServiceNext
===============================================================================
