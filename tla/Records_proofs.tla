---------------------------- MODULE Records_proofs ----------------------------
(***************************************************************************)
(* What the rows of payments and refunds record is what Stripe has, each   *)
(* object once, a creation can be repeated until it has its row, and what  *)
(* refunds add up to stays within the payment and behind its status: for   *)
(* any requests, deliveries, keys, crashes and both orders of commit and   *)
(* response.  CreatedStored alone needs the commit before the response.    *)
(***************************************************************************)
EXTENDS PayGateway_proofs

(***************************************************************************)
(* Stripe's objects: none disappears, and saved answers stay.              *)
(***************************************************************************)
IntentsStay ==
  \A pi \in Intents : intents[pi] # None =>
    intents'[pi] # None /\ intents'[pi].amount = intents[pi].amount

RefundsStay ==
  \A x \in RefundIds : stripe_refunds[x] # None =>
    /\ stripe_refunds'[x] # None
    /\ stripe_refunds'[x].pi = stripe_refunds[x].pi
    /\ stripe_refunds'[x].amount = stripe_refunds[x].amount
    /\ stripe_refunds[x].status = "succeeded" => stripe_refunds'[x].status = "succeeded"

SavedStay == \A k \in IdemKeys : saved[k] # None => saved'[k] = saved[k]

ObjectsStay == IntentsStay /\ RefundsStay /\ SavedStay

\* No intent is new, and no saved answer that names one.
NoNewIntent == /\ \A pi \in Intents : intents'[pi] # None => intents[pi] # None
               /\ \A k \in IdemKeys : CreateSaved(k)' => saved'[k] = saved[k]

NoNewRefund == \A k \in IdemKeys : RefundSaved(k)' => saved'[k] = saved[k]

LEMMA IntentsOfKeysKept ==
  ASSUME IntentsOfKeys, ObjectsStay, NoNewIntent
  PROVE  IntentsOfKeys'
<1>1. \A k \in IdemKeys : CreateSaved(k)' => CreateSaved(k) /\ saved'[k] = saved[k]
  BY DEF NoNewIntent, CreateSaved
<1>2. \A k \in IdemKeys : CreateSaved(k) => CreateSaved(k)' /\ saved'[k] = saved[k]
  BY DEF ObjectsStay, SavedStay, CreateSaved
<1>3. ASSUME NEW k \in IdemKeys, CreateSaved(k)'
      PROVE  /\ saved'[k].ans.pi \in Intents
             /\ intents'[saved'[k].ans.pi] # None
             /\ intents'[saved'[k].ans.pi].amount = saved'[k].ans.amount
  BY <1>1, <1>3 DEF IntentsOfKeys, ObjectsStay, IntentsStay
<1>4. \A j, k \in IdemKeys :
        CreateSaved(j)' /\ CreateSaved(k)' /\ saved'[j].ans.pi = saved'[k].ans.pi => j = k
  BY <1>1 DEF IntentsOfKeys
<1>5. ASSUME NEW pi \in Intents, intents'[pi] # None
      PROVE  \E k \in IdemKeys : CreateSaved(k)' /\ saved'[k].ans.pi = pi
  BY <1>2, <1>5 DEF IntentsOfKeys, NoNewIntent
<1> QED
  BY <1>3, <1>4, <1>5 DEF IntentsOfKeys

LEMMA RefundsOfKeysKept ==
  ASSUME RefundsOfKeys, ObjectsStay, NoNewRefund
  PROVE  RefundsOfKeys'
<1>1. \A k \in IdemKeys : RefundSaved(k)' => RefundSaved(k) /\ saved'[k] = saved[k]
  BY DEF NoNewRefund, RefundSaved
<1>2. ASSUME NEW k \in IdemKeys, RefundSaved(k)'
      PROVE  LET ans == saved'[k].ans
                 refund == stripe_refunds'[ans.refund]
             IN  /\ ans.refund \in RefundIds
                 /\ refund # None
                 /\ refund.pi = saved'[k].call.pi
                 /\ refund.amount = saved'[k].call.amount
                 /\ ans.status = "succeeded" => refund.status = "succeeded"
  BY <1>1, <1>2 DEF RefundsOfKeys, ObjectsStay, RefundsStay
<1>3. \A j, k \in IdemKeys :
        /\ RefundSaved(j)' /\ RefundSaved(k)'
        /\ saved'[j].ans.refund = saved'[k].ans.refund
        => j = k
  BY <1>1 DEF RefundsOfKeys
<1> QED
  BY <1>2, <1>3 DEF RefundsOfKeys

\* Stripe's side of a step.
StripeKeeps == ObjectsStay /\ IntentsOfKeys' /\ RefundsOfKeys'

LEMMA StripeIdle ==
  ASSUME IntentsOfKeys, RefundsOfKeys, UNCHANGED <<intents, stripe_refunds, saved>>
  PROVE  StripeKeeps
<1>1. ObjectsStay /\ NoNewIntent /\ NoNewRefund
  BY DEF ObjectsStay, IntentsStay, RefundsStay, SavedStay, NoNewIntent, NoNewRefund
<1> QED
  BY <1>1, IntentsOfKeysKept, RefundsOfKeysKept DEF StripeKeeps

\* An intent moves.
LEMMA MoveStays ==
  ASSUME Inv, NEW pi \in Intents, NEW to, MoveIntent(pi, to)
  PROVE  IntentsStay /\ \A o \in Intents : intents'[o] # None => intents[o] # None
<1>1. intents[pi] \in PaymentIntents /\ intents \in [Intents -> PaymentIntents \cup {None}]
  BY DEF Inv, TypeOK, StripeTypeOK, MoveIntent
<1>2. to \in IntentStates
  <2>1. intents[pi].status \in IntentStates /\ to \in Successors[intents[pi].status]
    BY <1>1 DEF MoveIntent, PaymentIntents
  <2> QED
    BY <2>1 DEF Successors, IntentStates
<1> DEFINE moved == [intents[pi] EXCEPT !.status = to]
<1>3. moved \in PaymentIntents /\ moved.amount = intents[pi].amount
  BY <1>1, <1>2 DEF PaymentIntents
<1>4. intents' = [intents EXCEPT ![pi] = moved]
  BY DEF MoveIntent
<1> HIDE DEF moved
<1> QED
  BY <1>1, <1>3, <1>4, NoneIsNoObject DEF IntentsStay, MoveIntent

\* A call that names no new object saves its answer, or the error.
LEMMA SaveStays ==
  ASSUME Inv, NEW key \in IdemKeys, NEW call, NEW ans, Save(key, call, ans)
  PROVE  /\ SavedStay
         /\ call.op # "create" =>
              \A k \in IdemKeys : CreateSaved(k)' => saved'[k] = saved[k]
         /\ call.op # "refund" \/ ans.status = "error" => NoNewRefund
<1> DEFINE entry == [call |-> call, ans |-> ans]
<1>1. /\ saved' = [saved EXCEPT ![key] = entry] /\ saved[key] = None
      /\ saved \in [IdemKeys -> SavedAnswers \cup {None}]
      /\ entry.call = call /\ entry.ans = ans
  BY DEF Save, Inv, TypeOK, StripeTypeOK
<1> HIDE DEF entry
<1>2. saved'[key] = entry /\ \A k \in IdemKeys \ {key} : saved'[k] = saved[k]
  BY <1>1
<1> QED
  BY <1>1, <1>2 DEF SavedStay, NoNewRefund, CreateSaved, RefundSaved

LEMMA CreateIntentKeeps ==
  ASSUME Inv, IntentsOfKeys, RefundsOfKeys, NEW key \in IdemKeys, NEW amount \in Amounts,
         CreateIntent(key, amount)
  PROVE  StripeKeeps
<1>1. CASE Replay(key)
  BY <1>1, StripeIdle DEF Replay, stripeVars
<1>2. ASSUME NEW pi \in Intents, intents[pi] = None,
             intents' = [intents EXCEPT ![pi] =
                           [status |-> "requires_payment_method", amount |-> amount]],
             Save(key, CreateCall(amount),
                  [pi |-> pi, refund |-> None, amount |-> amount,
                   status |-> "requires_payment_method"]),
             UNCHANGED stripe_refunds
      PROVE  StripeKeeps
  <2> DEFINE new == [status |-> "requires_payment_method", amount |-> amount]
             entry == [call |-> CreateCall(amount),
                       ans |-> [pi |-> pi, refund |-> None, amount |-> amount,
                                status |-> "requires_payment_method"]]
  <2>1. new \in PaymentIntents /\ new.amount = amount
    BY DEF PaymentIntents, IntentStates, Successors
  <2>2. /\ entry # None /\ entry.call.op = "create"
        /\ entry.ans.pi = pi /\ entry.ans.amount = amount
    <3>1. entry \in SavedAnswers
      <4>1. /\ amount \in Nat /\ amount \in Int /\ "requires_payment_method" \in IntentStates
        BY AmountsArePositive DEF IntentStates, Successors
      <4> QED
        BY <4>1 DEF SavedAnswers, Calls, CreateCall, Answers
    <3> QED
      BY <3>1, NoneIsNoObject DEF CreateCall
  <2>3. /\ intents' = [intents EXCEPT ![pi] = new]
        /\ saved' = [saved EXCEPT ![key] = entry] /\ saved[key] = None
    BY <1>2 DEF Save
  <2> HIDE DEF new, entry
  <2>4. /\ intents'[pi] = new /\ \A o \in Intents \ {pi} : intents'[o] = intents[o]
        /\ saved'[key] = entry /\ \A k \in IdemKeys \ {key} : saved'[k] = saved[k]
    BY <2>3 DEF Inv, TypeOK, StripeTypeOK
  <2>5. ObjectsStay
    BY <1>2, <2>3, <2>4 DEF ObjectsStay, IntentsStay, RefundsStay, SavedStay
  <2>6. RefundsOfKeys'
    <3>1. NoNewRefund
      BY <2>2, <2>4 DEF NoNewRefund, RefundSaved
    <3> QED
      BY <2>5, <3>1, RefundsOfKeysKept
  <2>7. \A k \in IdemKeys \ {key} : CreateSaved(k)' <=> CreateSaved(k)
    BY <2>4 DEF CreateSaved
  <2>8. CreateSaved(key)'
    BY <2>2, <2>4 DEF CreateSaved
  <2>9. \A k \in IdemKeys : CreateSaved(k) =>
          saved[k].ans.pi \in Intents /\ saved[k].ans.pi # pi
    BY <1>2 DEF IntentsOfKeys
  <2>10. ASSUME NEW k \in IdemKeys, CreateSaved(k)'
         PROVE  /\ saved'[k].ans.pi \in Intents
                /\ intents'[saved'[k].ans.pi] # None
                /\ intents'[saved'[k].ans.pi].amount = saved'[k].ans.amount
    <3>1. CASE k = key
      BY <2>1, <2>2, <2>4, <3>1, NoneIsNoObject
    <3>2. CASE k # key
      BY <2>4, <2>7, <2>9, <2>10, <3>2 DEF IntentsOfKeys
    <3> QED
      BY <3>1, <3>2
  <2>11. ASSUME NEW j \in IdemKeys, NEW k \in IdemKeys, CreateSaved(j)', CreateSaved(k)',
                saved'[j].ans.pi = saved'[k].ans.pi
         PROVE  j = k
    BY <2>2, <2>4, <2>7, <2>9, <2>11 DEF IntentsOfKeys
  <2>12. ASSUME NEW o \in Intents, intents'[o] # None
         PROVE  \E k \in IdemKeys : CreateSaved(k)' /\ saved'[k].ans.pi = o
    <3>1. CASE o = pi
      BY <2>2, <2>4, <2>8, <3>1
    <3>2. CASE o # pi
      <4>1. PICK k \in IdemKeys : CreateSaved(k) /\ saved[k].ans.pi = o
        BY <2>4, <2>12, <3>2 DEF IntentsOfKeys
      <4>2. CreateSaved(k)' /\ saved'[k] = saved[k]
        BY <2>3, <2>4, <2>7, <4>1 DEF CreateSaved
      <4> QED
        BY <4>1, <4>2
    <3> QED
      BY <3>1, <3>2
  <2>13. IntentsOfKeys'
    BY <2>10, <2>11, <2>12 DEF IntentsOfKeys
  <2> QED
    BY <2>5, <2>6, <2>13 DEF StripeKeeps
<1> QED
  BY <1>1, <1>2 DEF CreateIntent

\* Confirmations and cancellations name no new object.
LEMMA MovingCallKeeps ==
  ASSUME Inv, IntentsOfKeys, RefundsOfKeys, NEW key \in IdemKeys, NEW pi \in Intents,
         ConfirmIntent(key, pi) \/ CancelIntent(key, pi)
  PROVE  StripeKeeps
<1>1. CASE Replay(key)
  BY <1>1, StripeIdle DEF Replay, stripeVars
<1>2. ASSUME NEW call, NEW ans, Save(key, call, ans), call.op \in {"confirm", "cancel"},
             UNCHANGED stripe_refunds,
             UNCHANGED intents \/ \E to : MoveIntent(pi, to)
      PROVE  StripeKeeps
  <2>1. IntentsStay /\ \A o \in Intents : intents'[o] # None => intents[o] # None
    BY <1>2, MoveStays DEF IntentsStay
  <2>2. ObjectsStay /\ NoNewIntent /\ NoNewRefund
    BY <1>2, <2>1, SaveStays DEF ObjectsStay, RefundsStay, NoNewIntent
  <2> QED
    BY <2>2, IntentsOfKeysKept, RefundsOfKeysKept DEF StripeKeeps
<1>3. ConfirmCall(pi).op = "confirm" /\ CancelCall(pi).op = "cancel"
  BY DEF ConfirmCall, CancelCall
<1> QED
  BY <1>1, <1>2, <1>3 DEF ConfirmIntent, CancelIntent

LEMMA RefundIntentKeeps ==
  ASSUME Inv, IntentsOfKeys, RefundsOfKeys, NEW key \in IdemKeys, NEW pi \in Intents,
         NEW amount \in Int, RefundIntent(key, pi, amount)
  PROVE  StripeKeeps
<1>1. CASE Replay(key)
  BY <1>1, StripeIdle DEF Replay, stripeVars
<1>2. CASE Save(key, RefundCall(pi, amount), Error) /\ UNCHANGED <<intents, stripe_refunds>>
  <2>1. RefundCall(pi, amount).op = "refund" /\ Error.status = "error"
    BY DEF RefundCall, Error
  <2>2. ObjectsStay /\ NoNewIntent /\ NoNewRefund
    BY <1>2, <2>1, SaveStays DEF ObjectsStay, IntentsStay, RefundsStay, NoNewIntent
  <2> QED
    BY <2>2, IntentsOfKeysKept, RefundsOfKeysKept DEF StripeKeeps
<1>3. ASSUME NEW x \in RefundIds, NEW status \in Unsettled \cup {"succeeded"},
             NewRefund(pi, amount, x, status),
             Save(key, RefundCall(pi, amount),
                  [pi |-> pi, refund |-> x, amount |-> amount, status |-> status]),
             UNCHANGED intents
      PROVE  StripeKeeps
  <2> DEFINE new == [pi |-> pi, amount |-> amount, status |-> status]
             call == RefundCall(pi, amount)
             ans == [pi |-> pi, refund |-> x, amount |-> amount, status |-> status]
             entry == [call |-> call, ans |-> ans]
  <2>1. new \in Refunds
    <3>1. amount \in Nat
      BY <1>3 DEF NewRefund, Refundable
    <3> QED
      BY <3>1 DEF Refunds, StripeRefundStatuses, STRIPE_REFUND_STATUS_MAP, Unsettled, Undone
  <2>2. /\ new.pi = pi /\ new.amount = amount /\ new.status = status
        /\ entry.call.op = "refund" /\ entry.call.pi = pi /\ entry.call.amount = amount
        /\ entry.ans.refund = x /\ entry.ans.status = status
        /\ call.op = "refund"
    BY DEF RefundCall
  <2>3. /\ stripe_refunds' = [stripe_refunds EXCEPT ![x] = new] /\ stripe_refunds[x] = None
        /\ saved' = [saved EXCEPT ![key] = entry] /\ saved[key] = None
    BY <1>3 DEF Save, NewRefund
  <2>4. ObjectsStay /\ NoNewIntent
    <3>1. RefundsStay
      BY <2>3 DEF Inv, TypeOK, StripeTypeOK, RefundsStay
    <3> QED
      BY <1>3, <2>2, <3>1, SaveStays DEF ObjectsStay, IntentsStay, NoNewIntent
  <2> HIDE DEF new, entry, call, ans
  <2>5. /\ stripe_refunds'[x] = new
        /\ \A y \in RefundIds \ {x} : stripe_refunds'[y] = stripe_refunds[y]
        /\ saved'[key] = entry /\ \A k \in IdemKeys \ {key} : saved'[k] = saved[k]
    BY <2>3 DEF Inv, TypeOK, StripeTypeOK
  <2>6. \A k \in IdemKeys \ {key} : RefundSaved(k)' <=> RefundSaved(k)
    BY <2>5 DEF RefundSaved
  <2>7. \A k \in IdemKeys : RefundSaved(k) =>
          saved[k].ans.refund \in RefundIds /\ saved[k].ans.refund # x
    BY <2>3 DEF RefundsOfKeys
  <2>8. ASSUME NEW k \in IdemKeys, RefundSaved(k)'
        PROVE  LET a == saved'[k].ans
                   refund == stripe_refunds'[a.refund]
               IN  /\ a.refund \in RefundIds
                   /\ refund # None
                   /\ refund.pi = saved'[k].call.pi
                   /\ refund.amount = saved'[k].call.amount
                   /\ a.status = "succeeded" => refund.status = "succeeded"
    <3>1. CASE k = key
      BY <2>1, <2>2, <2>5, <3>1, NoneIsNoObject
    <3>2. CASE k # key
      BY <2>5, <2>6, <2>7, <2>8, <3>2 DEF RefundsOfKeys
    <3> QED
      BY <3>1, <3>2
  <2>9. ASSUME NEW j \in IdemKeys, NEW k \in IdemKeys, RefundSaved(j)', RefundSaved(k)',
               saved'[j].ans.refund = saved'[k].ans.refund
        PROVE  j = k
    BY <2>2, <2>5, <2>6, <2>7, <2>9 DEF RefundsOfKeys
  <2>10. RefundsOfKeys'
    BY <2>8, <2>9 DEF RefundsOfKeys
  <2> QED
    BY <2>4, <2>10, IntentsOfKeysKept DEF StripeKeeps
<1> QED
  BY <1>1, <1>2, <1>3 DEF RefundIntent

LEMMA OwnStepKeeps ==
  ASSUME Inv, IntentsOfKeys, RefundsOfKeys, CustomerNext \/ StripeNext
  PROVE  StripeKeeps
<1>1. ASSUME NEW pi \in Intents, NEW to, MoveIntent(pi, to),
             UNCHANGED <<stripe_refunds, saved>>
      PROVE  StripeKeeps
  <2>1. ObjectsStay /\ NoNewIntent /\ NoNewRefund
    BY <1>1, MoveStays DEF ObjectsStay, RefundsStay, SavedStay, NoNewIntent, NoNewRefund
  <2> QED
    BY <2>1, IntentsOfKeysKept, RefundsOfKeysKept DEF StripeKeeps
<1>2. ASSUME NEW x \in RefundIds, RefundSettles(x)
      PROVE  StripeKeeps
  <2>1. PICK status \in Undone \cup {"succeeded"} :
          stripe_refunds' = [stripe_refunds EXCEPT ![x].status = status]
    BY <1>2 DEF RefundSettles
  <2>2. /\ stripe_refunds[x] # None /\ stripe_refunds[x].status \in Unsettled
        /\ stripe_refunds \in [RefundIds -> Refunds \cup {None}]
        /\ UNCHANGED <<intents, saved>>
    BY <1>2 DEF RefundSettles, Inv, TypeOK, StripeTypeOK
  <2> DEFINE settled == [stripe_refunds[x] EXCEPT !.status = status]
  <2>3. /\ settled \in Refunds /\ settled.pi = stripe_refunds[x].pi
        /\ settled.amount = stripe_refunds[x].amount
    BY <2>2 DEF Refunds, StripeRefundStatuses, STRIPE_REFUND_STATUS_MAP, Unsettled, Undone
  <2>4. stripe_refunds' = [stripe_refunds EXCEPT ![x] = settled]
    BY <2>1
  <2> HIDE DEF settled
  <2>5. RefundsStay
    BY <2>2, <2>3, <2>4, NoneIsNoObject DEF RefundsStay, Unsettled
  <2>6. ObjectsStay /\ NoNewIntent /\ NoNewRefund
    BY <2>2, <2>5 DEF ObjectsStay, IntentsStay, SavedStay, NoNewIntent, NoNewRefund
  <2> QED
    BY <2>6, IntentsOfKeysKept, RefundsOfKeysKept DEF StripeKeeps
<1>3. ASSUME NEW pi, DisputeOpens(pi)
      PROVE  StripeKeeps
  BY <1>3, StripeIdle DEF DisputeOpens
<1> QED
  BY <1>1, <1>2, <1>3
     DEF CustomerNext, StripeNext, CustomerPays, BankSettles, OperatorCancels
-------------------------------------------------------------------------------
(***************************************************************************)
(* A step of a request: it begins, or it goes on and perhaps ends.         *)
(***************************************************************************)
Begins(r) ==
  /\ UNCHANGED <<dbVars, stripeVars>>
  /\ \A o \in Requests \ {r} : req'[o] = req[o]
  /\ Admitted(r, req'[r].cred)
  /\ req'[r].pay \in PayKeys
  /\ req'[r].pc \in {"found", "loaded", "done"}
  /\ req'[r].op = "create" =>
       /\ req'[r].key = req'[r].pay
       /\ IF payments[req'[r].pay] = None THEN req'[r].pc = "loaded" /\ req'[r].reply = "none"
          ELSE req'[r].pc = "done"
  /\ req'[r].op # "create" => req'[r].reply # "2xx"

GoesOn(r) ==
  /\ Live(r)
  /\ \A o \in Requests \ {r} : req'[o] = req[o]
  /\ req'[r].op = req[r].op /\ req'[r].pay = req[r].pay
  /\ req'[r].key = req[r].key /\ req'[r].cred = req[r].cred
  /\ req'[r].pc \in {"loaded", "called", "answered", "done"}

LEMMA BeginIsBegins ==
  ASSUME Inv, NEW r \in Requests, NEW k \in PayKeys, NEW key, NEW cred, NEW amount,
         \/ CreatePayment(r, k, amount, cred) \/ ConfirmPayment(r, k, key, cred)
         \/ CancelPayment(r, k, key, cred) \/ CreateRefund(r, k, key, amount, cred)
  PROVE  Begins(r)
<1>1. req \in [Requests -> RequestStates]
  BY DEF Inv, TypeOK
<1>2. ASSUME NEW op, NEW x, NEW n, NEW state, Admitted(r, cred),
             UNCHANGED <<dbVars, stripeVars>>, req' = [req EXCEPT ![r] = state],
             \/ /\ state = Ended(Begin(op, k, x, n, cred), "2xx")
                /\ op = "create" /\ x = k /\ payments[k] # None
             \/ /\ state = [Begin(op, k, x, n, cred) EXCEPT !.pc = "loaded"]
                /\ op = "create" /\ x = k /\ payments[k] = None
             \/ /\ state = Ended(Begin(op, k, x, n, cred), "4xx")
                /\ op # "create"
             \/ /\ \E row : state = [Begin(op, k, x, n, cred)
                                       EXCEPT !.pc = "loaded", !.row = row]
                /\ op # "create"
             \/ /\ \E row : state = [Begin(op, k, x, n, cred)
                                       EXCEPT !.pc = "found", !.row = row]
                /\ op # "create"
      PROVE  Begins(r)
  <2>1. /\ state.cred = cred /\ state.op = op /\ state.pay = k /\ state.key = x
        /\ \/ state.pc = "done" /\ op = "create" /\ payments[k] # None
           \/ state.pc = "loaded" /\ state.reply = "none" /\ op = "create"
              /\ payments[k] = None
           \/ state.pc \in {"found", "loaded", "done"} /\ state.reply # "2xx"
              /\ op # "create"
        /\ op = "create" => x = k
    BY <1>2 DEF Ended, Begin
  <2>2. req'[r] = state /\ \A o \in Requests \ {r} : req'[o] = req[o]
    BY <1>1, <1>2
  <2> QED
    BY <1>2, <2>1, <2>2 DEF Begins
<1>3. CASE CreatePayment(r, k, amount, cred)
  <2> DEFINE state == IF payments[k] # None THEN Ended(Begin("create", k, k, amount, cred), "2xx")
                      ELSE [Begin("create", k, k, amount, cred) EXCEPT !.pc = "loaded"]
  <2>1. /\ Admitted(r, cred) /\ req' = [req EXCEPT ![r] = state]
        /\ UNCHANGED <<dbVars, stripeVars>>
    BY <1>3 DEF CreatePayment
  <2>2. PICK s : s = state
    OBVIOUS
  <2> QED
    BY <1>2, <2>1, <2>2
<1>4. ASSUME NEW op \in {"confirm", "cancel"}, NEW accepted,
             LoadPayment(r, op, k, key, cred, accepted)
      PROVE  Begins(r)
  <2> DEFINE begun == Begin(op, k, key, None, cred)
             state == IF payments[k] = None \/ ~accepted THEN Ended(begun, "4xx")
                      ELSE [begun EXCEPT !.pc = "loaded", !.row = payments[k]]
  <2>1. /\ Admitted(r, cred) /\ req' = [req EXCEPT ![r] = state]
        /\ UNCHANGED <<dbVars, stripeVars>>
    BY <1>4 DEF LoadPayment
  <2>2. PICK s, row : s = state /\ row = payments[k]
    OBVIOUS
  <2> QED
    BY <1>2, <1>4, <2>1, <2>2
<1>5. CASE CreateRefund(r, k, key, amount, cred)
  <2>1. PICK op, row : op = "refund" /\ row = payments[k]
    OBVIOUS
  <2> DEFINE begun == Begin(op, k, key, amount, cred)
             state == IF row = None THEN Ended(begun, "4xx")
                      ELSE [begun EXCEPT !.pc = "found", !.row = row]
  <2>2. /\ Admitted(r, cred) /\ req' = [req EXCEPT ![r] = state]
        /\ UNCHANGED <<dbVars, stripeVars>>
    BY <1>5, <2>1 DEF CreateRefund
  <2>3. PICK s : s = state
    OBVIOUS
  <2>4. \/ s = Ended(begun, "4xx")
        \/ \E held : s = [begun EXCEPT !.pc = "found", !.row = held]
    BY <2>3
  <2>5. op # "create"
    BY <2>1
  <2> HIDE DEF state
  <2> QED
    BY <1>2, <2>2, <2>3, <2>4, <2>5
<1>6. CASE ConfirmPayment(r, k, key, cred)
  BY <1>4, <1>6 DEF ConfirmPayment
<1>7. CASE CancelPayment(r, k, key, cred)
  <2>1. PICK accepted : accepted = (payments[k].status \in CANCELABLE_STATUSES)
    OBVIOUS
  <2> QED
    BY <1>4, <1>7, <2>1 DEF CancelPayment
<1> QED
  BY <1>3, <1>5, <1>6, <1>7

LEMMA FinishGoesOn ==
  ASSUME Inv, NEW r \in Requests, Live(r), NEW reply, Finish(r, reply)
  PROVE  GoesOn(r) /\ req'[r].pc = "done" /\ req'[r].reply = reply
<1>1. req \in [Requests -> RequestStates] /\ req[r] \in RequestStates
  BY DEF Inv, TypeOK
<1> DEFINE state == Ended(req[r], reply)
<1>2. /\ state.pc = "done" /\ state.reply = reply /\ state.op = req[r].op
      /\ state.pay = req[r].pay /\ state.key = req[r].key /\ state.cred = req[r].cred
  BY <1>1 DEF Ended, RequestStates
<1>3. req' = [req EXCEPT ![r] = state]
  BY DEF Finish
<1> HIDE DEF state
<1> QED
  BY <1>1, <1>2, <1>3 DEF GoesOn

\* The provider answers: the request ends, or holds its key's saved answer.
LEMMA TakeAnswerGoesOn ==
  ASSUME Inv, NEW r \in Requests, req[r].pc = "loaded", NEW call,
         TakeAnswer(r, call), saved'[req[r].key] # None
  PROVE  /\ GoesOn(r)
         /\ \/ req'[r].pc = "done" /\ req'[r].reply = "5xx"
            \/ /\ req'[r].pc = "called" /\ req'[r].reply = req[r].reply
               /\ req'[r].row = req[r].row /\ req'[r].amount = req[r].amount
               /\ saved'[req[r].key].call = call
               /\ saved'[req[r].key].ans = req'[r].ans
<1> DEFINE ans == Answer(saved'[req[r].key], call)
<1>1. req \in [Requests -> RequestStates] /\ req[r] \in RequestStates /\ Live(r)
  BY DEF Inv, TypeOK, Live
<1>2. CASE ans.status = "error"
  BY <1>1, <1>2, FinishGoesOn DEF TakeAnswer
<1>3. CASE ans.status # "error"
  <2>1. saved'[req[r].key].call = call /\ saved'[req[r].key].ans = ans
    BY <1>3 DEF Answer, Error
  <2> DEFINE state == [req[r] EXCEPT !.pc = "called", !.ans = ans]
  <2>2. /\ state.pc = "called" /\ state.ans = ans /\ state.op = req[r].op
        /\ state.pay = req[r].pay /\ state.key = req[r].key /\ state.cred = req[r].cred
        /\ state.row = req[r].row /\ state.amount = req[r].amount
        /\ state.reply = req[r].reply
    BY <1>1 DEF RequestStates
  <2>3. req' = [req EXCEPT ![r] = state]
    BY <1>3 DEF TakeAnswer
  <2> HIDE DEF state, ans
  <2>4. req'[r] = state /\ \A o \in Requests \ {r} : req'[o] = req[o]
    BY <1>1, <2>3
  <2> QED
    BY <1>1, <2>1, <2>2, <2>4 DEF GoesOn
<1> QED
  BY <1>2, <1>3

\* What a call to the provider comes to.
CallsProvider(r) ==
  /\ UNCHANGED dbVars
  /\ req[r].pc = "loaded"
  /\ GoesOn(r)
  /\ \/ req'[r].pc = "done" /\ req'[r].reply = "5xx"
     \/ /\ req'[r].pc = "called" /\ req'[r].reply = req[r].reply
        /\ req'[r].row = req[r].row /\ req'[r].amount = req[r].amount
        /\ saved'[req[r].key] # None
        /\ saved'[req[r].key].ans = req'[r].ans
        /\ saved'[req[r].key].call.op = req[r].op
        /\ req[r].op = "refund" =>
             /\ saved'[req[r].key].call.pi = req[r].row.external_id
             /\ saved'[req[r].key].call.amount = req[r].amount

LEMMA CallKeeps ==
  ASSUME Inv, IntentsOfKeys, RefundsOfKeys, NEW r \in Requests,
         \/ CreatePaymentCall(r) \/ ConfirmPaymentCall(r)
         \/ CancelPaymentCall(r) \/ CreateRefundCall(r)
  PROVE  StripeKeeps /\ CallsProvider(r)
<1> DEFINE key == req[r].key
           pi == req[r].row.external_id
<1>1. /\ req[r].pc = "loaded" /\ Live(r) /\ UNCHANGED dbVars
      /\ req[r].op \in {"create", "confirm", "cancel", "refund"}
  BY DEF CreatePaymentCall, ConfirmPaymentCall, CancelPaymentCall, CreateRefundCall, At, Live
<1>2. /\ key \in IdemKeys
      /\ req[r].op = "create" => req[r].amount \in Amounts
      /\ req[r].op # "create" => pi \in Intents /\ intents[pi] # None
      /\ req[r].op = "refund" => req[r].amount \in Int
  BY <1>1, Holding DEF RequestSound
<1>3. ASSUME NEW call, TakeAnswer(r, call), saved'[key] # None, call.op = req[r].op,
             req[r].op = "refund" => call.pi = pi /\ call.amount = req[r].amount
      PROVE  CallsProvider(r)
  BY <1>1, <1>3, TakeAnswerGoesOn DEF CallsProvider
<1>4. CASE CreatePaymentCall(r)
  <2>1. /\ CreateIntent(key, req[r].amount) /\ req[r].op = "create"
        /\ TakeAnswer(r, CreateCall(req[r].amount))
    BY <1>4 DEF CreatePaymentCall, At
  <2>2. CallSound(key)
    BY <1>1, <1>2, <2>1, CreateIntentSound
  <2>3. StripeKeeps
    BY <1>2, <2>1, CreateIntentKeeps
  <2>4. CreateCall(req[r].amount).op = "create"
    BY DEF CreateCall
  <2> QED
    BY <1>3, <2>1, <2>2, <2>3, <2>4 DEF CallSound
<1>5. CASE ConfirmPaymentCall(r)
  <2>1. /\ ConfirmIntent(key, pi) /\ req[r].op = "confirm"
        /\ TakeAnswer(r, ConfirmCall(pi))
    BY <1>5 DEF ConfirmPaymentCall, At
  <2>2. CallSound(key)
    BY <1>1, <1>2, <2>1, ConfirmIntentSound
  <2>3. StripeKeeps
    BY <1>2, <2>1, MovingCallKeeps
  <2>4. ConfirmCall(pi).op = "confirm"
    BY DEF ConfirmCall
  <2> QED
    BY <1>3, <2>1, <2>2, <2>3, <2>4 DEF CallSound
<1>6. CASE CancelPaymentCall(r)
  <2>1. /\ CancelIntent(key, pi) /\ req[r].op = "cancel"
        /\ TakeAnswer(r, CancelCall(pi))
    BY <1>6 DEF CancelPaymentCall, At
  <2>2. CallSound(key)
    BY <1>1, <1>2, <2>1, CancelIntentSound
  <2>3. StripeKeeps
    BY <1>2, <2>1, MovingCallKeeps
  <2>4. CancelCall(pi).op = "cancel"
    BY DEF CancelCall
  <2> QED
    BY <1>3, <2>1, <2>2, <2>3, <2>4 DEF CallSound
<1>7. CASE CreateRefundCall(r)
  <2>1. /\ RefundIntent(key, pi, req[r].amount) /\ req[r].op = "refund"
        /\ TakeAnswer(r, RefundCall(pi, req[r].amount))
    BY <1>7 DEF CreateRefundCall, At
  <2>2. CallSound(key)
    BY <1>1, <1>2, <2>1, RefundIntentSound
  <2>3. StripeKeeps
    BY <1>2, <2>1, RefundIntentKeeps
  <2>4. /\ RefundCall(pi, req[r].amount).op = "refund"
        /\ RefundCall(pi, req[r].amount).pi = pi
        /\ RefundCall(pi, req[r].amount).amount = req[r].amount
    BY DEF RefundCall
  <2> QED
    BY <1>3, <2>1, <2>2, <2>3, <2>4 DEF CallSound
<1> QED
  BY <1>4, <1>5, <1>6, <1>7

\* Without a call to the provider: the checks of a refund, the response that
\* goes out first, and every end.
LEMMA ChecksGoOn ==
  ASSUME Inv, NEW r \in Requests, CreateRefundChecks(r)
  PROVE  /\ GoesOn(r) /\ UNCHANGED <<dbVars, stripeVars>>
         /\ req[r].op = "refund" /\ req'[r].pc \in {"loaded", "done"}
         /\ req'[r].reply # "2xx" \/ req'[r].reply = req[r].reply
<1> DEFINE row == req[r].row
           left == row.amount - RefundedAmount(req[r].pay, {})
           amount == IF req[r].amount = None THEN left ELSE req[r].amount
<1>1. /\ req \in [Requests -> RequestStates] /\ req[r] \in RequestStates
      /\ Live(r) /\ req[r].op = "refund" /\ UNCHANGED <<dbVars, stripeVars>>
      /\ \/ Finish(r, "4xx")
         \/ req' = [req EXCEPT ![r].pc = "loaded", ![r].amount = amount]
  BY DEF Inv, TypeOK, CreateRefundChecks, At, Live
<1>2. CASE Finish(r, "4xx")
  BY <1>1, <1>2, FinishGoesOn
<1>3. CASE req' = [req EXCEPT ![r].pc = "loaded", ![r].amount = amount]
  <2> DEFINE state == [req[r] EXCEPT !.pc = "loaded", !.amount = amount]
  <2>1. /\ state.pc = "loaded" /\ state.op = req[r].op /\ state.reply = req[r].reply
        /\ state.pay = req[r].pay /\ state.key = req[r].key /\ state.cred = req[r].cred
    BY <1>1 DEF RequestStates
  <2>2. req' = [req EXCEPT ![r] = state]
    BY <1>3
  <2> HIDE DEF state
  <2> QED
    BY <1>1, <2>1, <2>2 DEF GoesOn
<1> QED
  BY <1>1, <1>2, <1>3

LEMMA RespondFirstGoesOn ==
  ASSUME Inv, NEW r \in Requests, RespondFirst(r)
  PROVE  /\ GoesOn(r) /\ ~CommitBeforeResponse
         /\ UNCHANGED <<payments, refunds, audit_log, stripeVars>>
         /\ req[r].pc = "called" /\ req'[r].pc = "answered"
         /\ req'[r].ans = req[r].ans /\ req'[r].row = req[r].row
         /\ req'[r].amount = req[r].amount
<1>1. /\ req \in [Requests -> RequestStates] /\ req[r] \in RequestStates
      /\ Live(r)
  BY DEF Inv, TypeOK, RespondFirst, Live
<1> DEFINE state == [req[r] EXCEPT !.pc = "answered", !.reply = "2xx"]
<1>2. /\ state.pc = "answered" /\ state.op = req[r].op /\ state.ans = req[r].ans
      /\ state.pay = req[r].pay /\ state.key = req[r].key /\ state.cred = req[r].cred
      /\ state.row = req[r].row /\ state.amount = req[r].amount
  BY <1>1 DEF RequestStates
<1>3. req' = [req EXCEPT ![r] = state]
  BY DEF RespondFirst
<1> HIDE DEF state
<1> QED
  BY <1>1, <1>2, <1>3 DEF GoesOn, RespondFirst

\* A commit, with what it logs.
CommitsRow(r, action) ==
  /\ GoesOn(r) /\ UNCHANGED stripeVars
  /\ req'[r].pc = "done" /\ req'[r].reply = "2xx"
  /\ req[r].pc = IF CommitBeforeResponse THEN "called" ELSE "answered"
  /\ LogAction(action, req[r].pay, r)
  /\ Fits(r)

LEMMA CommitGoesOn ==
  ASSUME Inv, NEW r \in Requests, NEW op, NEW action, Commits(r, op, action)
  PROVE  CommitsRow(r, action) /\ req[r].op = op
<1>1. Live(r)
  BY DEF Commits, At, Live
<1> QED
  BY <1>1, FinishGoesOn DEF Commits, At, CommitsRow

\* A step that ends a request and records nothing.
EndsUnrecorded(r) ==
  /\ GoesOn(r) /\ UNCHANGED <<payments, refunds, audit_log, stripeVars>>
  /\ req'[r].pc = "done"
  /\ req'[r].reply = "2xx" => req[r].pc = "answered"

LEMMA EndGoesOn ==
  ASSUME Inv, NEW r \in Requests, InsertConflicts(r) \/ Rollback(r)
  PROVE  EndsUnrecorded(r)
<1>1. Live(r)
  BY DEF InsertConflicts, Rollback, Live
<1>2. CASE InsertConflicts(r)
  BY <1>1, <1>2, FinishGoesOn DEF InsertConflicts, EndsUnrecorded, dbVars
<1>3. CASE Rollback(r)
  BY <1>1, <1>3, FinishGoesOn DEF Rollback, EndsUnrecorded
<1> QED
  BY <1>2, <1>3

\* All steps of requests.
RequestKinds(r) ==
  \/ Begins(r)
  \/ CallsProvider(r) /\ StripeKeeps
  \/ CreateRefundChecks(r)
  \/ RespondFirst(r)
  \/ CreatePaymentCommit(r)
  \/ ConfirmPaymentCommit(r) \/ CancelPaymentCommit(r)
  \/ CreateRefundCommit(r)
  \/ EndsUnrecorded(r)

LEMMA RequestStepKinds ==
  ASSUME Inv, IntentsOfKeys, RefundsOfKeys,
         PaymentServiceNext \/ RefundServiceNext \/ SessionNext
  PROVE  \E r \in Requests : RequestKinds(r)
<1>1. CASE PaymentServiceNext
  BY <1>1, BeginIsBegins, CallKeeps DEF PaymentServiceNext, PaymentServiceStep, RequestKinds
<1>2. CASE RefundServiceNext
  BY <1>2, BeginIsBegins, CallKeeps DEF RefundServiceNext, RefundServiceStep, RequestKinds
<1>3. CASE SessionNext
  BY <1>3, EndGoesOn DEF SessionNext, RequestKinds
<1> QED
  BY <1>1, <1>2, <1>3
-------------------------------------------------------------------------------
(***************************************************************************)
(* The parts of RecordsInv, one after the other.                           *)
(***************************************************************************)
\* No step makes Stripe forget or changes what a key answers.
LEMMA EveryStepKeeps ==
  ASSUME Inv, IntentsOfKeys, RefundsOfKeys, [Next]_vars
  PROVE  StripeKeeps
<1>1. ASSUME UNCHANGED <<intents, stripe_refunds, saved>>
      PROVE  StripeKeeps
  BY <1>1, StripeIdle
<1>2. ASSUME NEW r \in Requests, RequestKinds(r)
      PROVE  StripeKeeps
  BY <1>1, <1>2
     DEF RequestKinds, Begins, CreateRefundChecks, RespondFirst, CreatePaymentCommit,
         ConfirmPaymentCommit, CancelPaymentCommit, CreateRefundCommit, Commits,
         EndsUnrecorded, stripeVars
<1>3. CASE PaymentServiceNext \/ RefundServiceNext \/ SessionNext
  BY <1>2, <1>3, RequestStepKinds
<1>4. CASE WebhookServiceNext
  BY <1>1, <1>4
     DEF WebhookServiceNext, WebhookServiceStep, StoreEvent, FindPayment, LoadRefunds,
         AnswerFirst, AnswerOk, AnswerError, Deliver, HandlerRaises, Drop, HandleEvent,
         HandleNothing, HandlePaymentSucceeded, HandlePaymentFailed, HandlePaymentCanceled,
         HandlePaymentProcessing, HandlePaymentRequiresAction, HandleChargeRefunded,
         HandleDisputeCreated, MarkProcessed, stripeVars
<1>5. CASE CustomerNext \/ StripeNext
  BY <1>5, OwnStepKeeps
<1>6. CASE UNCHANGED vars
  BY <1>1, <1>6 DEF vars, stripeVars
<1> QED
  BY <1>3, <1>4, <1>5, <1>6 DEF Next

\* A request that does not move still holds its key's answer.
LEMMA RequestOfKeyStays ==
  ASSUME Inv, SavedStay, NEW r \in Requests, RequestOfKey(r), req'[r] = req[r]
  PROVE  RequestOfKey(r)'
<1>1. req[r].pc \in {"called", "answered"} => req[r].key \in IdemKeys
  BY Holding DEF Live
<1> QED
  BY <1>1 DEF RequestOfKey, SavedStay, Live

LEMMA RequestsOfKeysNext ==
  ASSUME Inv, RecordsInv, [Next]_vars
  PROVE  \A r \in Requests : RequestOfKey(r)'
<1>1. SavedStay /\ \A r \in Requests : RequestOfKey(r)
  BY EveryStepKeeps DEF RecordsInv, StripeKeeps, ObjectsStay
<1>2. ASSUME NEW r \in Requests, RequestKinds(r)
      PROVE  \A o \in Requests : RequestOfKey(o)'
  <2>1. \A o \in Requests \ {r} : req'[o] = req[o]
    BY <1>2, ChecksGoOn, RespondFirstGoesOn, CommitGoesOn
       DEF RequestKinds, Begins, CallsProvider, GoesOn, CreatePaymentCommit,
           ConfirmPaymentCommit, CancelPaymentCommit, CreateRefundCommit, CommitsRow,
           EndsUnrecorded
  <2>2. ASSUME Begins(r)
        PROVE  RequestOfKey(r)'
    BY <2>2 DEF Begins, RequestOfKey
  <2>3. ASSUME GoesOn(r) /\ req'[r].pc \in {"loaded", "done"}
        PROVE  RequestOfKey(r)'
    BY <2>3 DEF GoesOn, RequestOfKey, RecordsInv, Live
  <2>4. ASSUME CallsProvider(r)
        PROVE  RequestOfKey(r)'
    BY <2>4 DEF CallsProvider, GoesOn, RequestOfKey, RecordsInv, Live
  <2>5. ASSUME RespondFirst(r)
        PROVE  RequestOfKey(r)'
    BY <2>5, RespondFirstGoesOn DEF GoesOn, RequestOfKey, RecordsInv, Live, stripeVars
  <2>6. RequestOfKey(r)'
    BY <1>2, <2>2, <2>3, <2>4, <2>5, ChecksGoOn, CommitGoesOn
       DEF RequestKinds, CreatePaymentCommit, ConfirmPaymentCommit, CancelPaymentCommit,
           CreateRefundCommit, CommitsRow, EndsUnrecorded
  <2>7. ASSUME NEW o \in Requests \ {r}
        PROVE  RequestOfKey(o)'
    BY <1>1, <2>1, RequestOfKeyStays
  <2> QED
    BY <2>6, <2>7
<1>3. CASE UNCHANGED req
  <2> SUFFICES ASSUME NEW o \in Requests
               PROVE  RequestOfKey(o)'
    OBVIOUS
  <2> QED
    BY <1>1, <1>3, RequestOfKeyStays
<1>4. CASE PaymentServiceNext \/ RefundServiceNext \/ SessionNext
  <2>1. PICK r \in Requests : RequestKinds(r)
    BY <1>4, RequestStepKinds DEF RecordsInv
  <2> QED
    BY <1>2, <2>1
<1> QED
  BY <1>3, <1>4 DEF Next, vars

\* A refund's row is inserted by create_refund and stays as it is: the webhook
\* handler finds none to change.
LEMMA RowsWritten ==
  ASSUME Inv, NoRefundFound, [Next]_vars
  PROVE  \/ \E r \in Requests : CreatePaymentCommit(r)
         \/ \E r \in Requests : CreateRefundCommit(r)
         \/ (UNCHANGED payments \/ OverwritesRow) /\ UNCHANGED refunds
<1>1. CASE PaymentServiceNext
  <2>1. ASSUME NEW r, NEW k, NEW key, NEW cred, NEW amount,
               \/ CreatePayment(r, k, amount, cred)
               \/ ConfirmPayment(r, k, key, cred)
               \/ CancelPayment(r, k, key, cred)
        PROVE  UNCHANGED <<payments, refunds>>
    BY <2>1 DEF CreatePayment, ConfirmPayment, CancelPayment, LoadPayment, dbVars
  <2>2. ASSUME NEW r \in Requests,
               CreatePaymentCall(r) \/ ConfirmPaymentCall(r) \/ CancelPaymentCall(r)
        PROVE  UNCHANGED <<payments, refunds>>
    BY <2>2 DEF CreatePaymentCall, ConfirmPaymentCall, CancelPaymentCall, dbVars
  <2>3. ASSUME NEW r \in Requests, ConfirmPaymentCommit(r) \/ CancelPaymentCommit(r)
        PROVE  OverwritesRow /\ UNCHANGED refunds
    BY <2>3, CommitWritesRow DEF ConfirmPaymentCommit, CancelPaymentCommit
  <2> QED
    BY <1>1, <2>1, <2>2, <2>3 DEF PaymentServiceNext, PaymentServiceStep
<1>2. CASE RefundServiceNext \/ SessionNext
  BY <1>2
     DEF RefundServiceNext, RefundServiceStep, CreateRefund, CreateRefundChecks,
         CreateRefundCall, SessionNext, InsertConflicts, RespondFirst, Rollback, dbVars
<1>3. CASE WebhookServiceNext
  <2>1. ASSUME NEW w \in Workers, HandleEvent(w)
        PROVE  UNCHANGED refunds
    BY <2>1
       DEF HandleEvent, HandleNothing, HandlePaymentSucceeded, HandlePaymentFailed,
           HandlePaymentCanceled, HandlePaymentProcessing, HandlePaymentRequiresAction,
           HandleChargeRefunded, HandleDisputeCreated, NoRefundFound
  <2> QED
    BY <1>3, <2>1, HandleEventWritesRow
       DEF WebhookServiceNext, WebhookServiceStep, StoreEvent, FindPayment, LoadRefunds,
           AnswerFirst, AnswerOk, AnswerError, Deliver, HandlerRaises, Drop, dbVars
<1>4. CASE UNCHANGED dbVars
  BY <1>4 DEF dbVars
<1> QED
  BY <1>1, <1>2, <1>3, <1>4 DEF Next, vars

\* Rows stay, with their external_id and amount.
RowsStay ==
  /\ \A k \in IdemKeys : payments[k] # None =>
       /\ payments'[k] # None
       /\ payments'[k].external_id = payments[k].external_id
       /\ payments'[k].amount = payments[k].amount
  /\ \A k \in IdemKeys : refunds[k] # None => refunds'[k] = refunds[k]

LEMMA PaymentOfKeyStays ==
  ASSUME RowsStay, SavedStay, NEW k \in IdemKeys, payments[k] # None, PaymentOfKey(k)
  PROVE  PaymentOfKey(k)'
BY DEF RowsStay, SavedStay, PaymentOfKey, CreateSaved

LEMMA RefundOfKeyStays ==
  ASSUME Inv, RowsStay, ObjectsStay, RefundsOfKeys, NEW k \in IdemKeys,
         refunds[k] # None, RefundOfKey(k)
  PROVE  RefundOfKey(k)'
<1>1. /\ refunds[k] \in RefundRows /\ refunds[k].payment \in IdemKeys
      /\ refunds[k].external_id \in RefundIds /\ refunds'[k] = refunds[k]
  BY DEF Inv, TypeOK, DatabaseTypeOK, RefundRows, RowsStay
<1>2. /\ saved'[k] = saved[k] /\ RefundSaved(k)
      /\ stripe_refunds[refunds[k].external_id] # None
  BY DEF ObjectsStay, SavedStay, RefundOfKey, RefundSaved, RefundsOfKeys
<1>3. RefundSaved(k)'
  BY <1>2 DEF RefundSaved
<1> QED
  BY <1>1, <1>2, <1>3 DEF RefundOfKey, RowsStay, ObjectsStay, RefundsStay

LEMMA PaymentRowsKept ==
  ASSUME Inv, NoRefundFound, [Next]_vars
  PROVE  RowsStay
<1>1. CASE \E r \in Requests : CreatePaymentCommit(r)
  <2>1. PICK r \in Requests : CreatePaymentCommit(r)
    BY <1>1
  <2>2. InsertsRow /\ UNCHANGED refunds
    BY <2>1, CommitWritesRow DEF CreatePaymentCommit
  <2> QED
    BY <2>2 DEF InsertsRow, RowsStay
<1>2. CASE \E r \in Requests : CreateRefundCommit(r)
  <2>1. PICK r \in Requests : CreateRefundCommit(r)
    BY <1>2
  <2>2. Live(r) /\ req[r].op = "refund" /\ Fits(r) /\ UNCHANGED payments
    BY <2>1, Committing DEF CreateRefundCommit
  <2>3. \A k \in IdemKeys \ {req[r].key} : refunds'[k] = refunds[k]
    BY <2>1 DEF CreateRefundCommit, Inv, TypeOK, DatabaseTypeOK
  <2> QED
    BY <2>2, <2>3 DEF Fits, RowsStay
<1>3. CASE (UNCHANGED payments \/ OverwritesRow) /\ UNCHANGED refunds
  BY <1>3 DEF OverwritesRow, RowsStay
<1> QED
  BY <1>1, <1>2, <1>3, RowsWritten

\* The row a creation commits is of the answer its key has.
LEMMA NewPaymentOfKey ==
  ASSUME Inv, NEW r \in Requests, RequestOfKey(r), CreatePaymentCommit(r),
         NEW k, k = req[r].pay
  PROVE  /\ k \in IdemKeys
         /\ PaymentOfKey(k)'
         /\ \A j \in IdemKeys \ {k} : payments'[j] = payments[j]
<1> DEFINE new == [external_id |-> req[r].ans.pi,
                   status |-> STRIPE_PAYMENT_STATUS_MAP[req[r].ans.status],
                   amount |-> req[r].ans.amount,
                   confirmed_at |-> FALSE, canceled_at |-> FALSE, failure_code |-> FALSE]
<1>1. /\ Commits(r, "create", "payment.created")
      /\ payments' = [payments EXCEPT ![k] = new]
  BY DEF CreatePaymentCommit
<1>2. new.external_id = req[r].ans.pi /\ new.amount = req[r].ans.amount
  OBVIOUS
<1> HIDE DEF new
<1>3. /\ Live(r) /\ req[r].pc \in {"called", "answered"} /\ req[r].op = "create"
      /\ UNCHANGED stripeVars /\ k \in IdemKeys
  BY <1>1, Committing, Holding DEF Commits, At
<1>4. payments'[k] = new /\ \A j \in IdemKeys \ {k} : payments'[j] = payments[j]
  BY <1>1, <1>3 DEF Inv, TypeOK, DatabaseTypeOK
<1>5. /\ saved'[k] = saved[k] /\ saved[k] # None /\ saved[k].call.op = "create"
      /\ saved[k].ans = req[r].ans
  BY <1>3 DEF RequestOfKey, stripeVars
<1> QED
  BY <1>2, <1>3, <1>4, <1>5 DEF PaymentOfKey, CreateSaved

\* And so is the row of a refund.
LEMMA NewRefundOfKey ==
  ASSUME Inv, RefundsOfKeys, NEW r \in Requests, RequestOfKey(r), CreateRefundCommit(r),
         NEW k, k = req[r].key
  PROVE  /\ k \in IdemKeys
         /\ RefundOfKey(k)'
         /\ \A j \in IdemKeys \ {k} : refunds'[j] = refunds[j]
<1> DEFINE new == [payment |-> req[r].pay, external_id |-> req[r].ans.refund,
                   amount |-> req[r].amount,
                   status |-> RefundStatusOf(req[r].ans.status)]
<1>1. /\ Commits(r, "refund", "refund.created") /\ UNCHANGED payments
      /\ refunds' = [refunds EXCEPT ![k] = new]
  BY DEF CreateRefundCommit
<1>2. /\ new.payment = req[r].pay /\ new.external_id = req[r].ans.refund
      /\ new.amount = req[r].amount
      /\ new.status = RefundStatusOf(req[r].ans.status)
  OBVIOUS
<1> HIDE DEF new
<1>3. /\ Live(r) /\ req[r].pc \in {"called", "answered"} /\ req[r].op = "refund"
      /\ UNCHANGED stripeVars /\ k \in IdemKeys /\ req[r].ans.status # "error"
      /\ req[r].ans.status \in StripeRefundStatuses
  BY <1>1, Committing, Holding DEF Commits, At, AnswerSound
<1>4. refunds'[k] = new /\ \A j \in IdemKeys \ {k} : refunds'[j] = refunds[j]
  BY <1>1, <1>3 DEF Inv, TypeOK, DatabaseTypeOK
<1>5. /\ saved'[k] = saved[k] /\ RefundSaved(k) /\ saved[k].ans = req[r].ans
      /\ saved[k].call.pi = req[r].row.external_id /\ saved[k].call.amount = req[r].amount
  BY <1>3 DEF RequestOfKey, RefundSaved, stripeVars
<1>6. /\ payments[req[r].pay] # None
      /\ payments[req[r].pay].external_id = req[r].row.external_id
  BY <1>3, Holding DEF LoadedSound
<1>7. new.status = "succeeded" => stripe_refunds[new.external_id].status = "succeeded"
  <2>1. new.status = "succeeded" => req[r].ans.status = "succeeded"
    BY <1>2, <1>3 DEF STRIPE_REFUND_STATUS_MAP, StripeRefundStatuses, RefundStatusOf
  <2> QED
    BY <1>2, <1>3, <1>5, <2>1 DEF RefundsOfKeys
<1>8. RefundSaved(k)'
  BY <1>5 DEF RefundSaved
<1>9. UNCHANGED <<payments, stripe_refunds>>
  BY <1>1, <1>3 DEF stripeVars
<1> QED
  BY <1>2, <1>3, <1>4, <1>5, <1>6, <1>7, <1>8, <1>9 DEF RefundOfKey

LEMMA RowsOfKeysNext ==
  ASSUME Inv, RecordsInv, [Next]_vars
  PROVE  RowsOfKeys'
<1>1. /\ IntentsOfKeys /\ RefundsOfKeys /\ RowsOfKeys /\ NoRefundFound
      /\ \A r \in Requests : RequestOfKey(r)
  BY DEF RecordsInv
<1>2. ObjectsStay /\ SavedStay /\ RowsStay
  BY <1>1, EveryStepKeeps, PaymentRowsKept DEF StripeKeeps, ObjectsStay
<1>3. ASSUME NEW k \in IdemKeys, payments[k] # None
      PROVE  PaymentOfKey(k)'
  BY <1>1, <1>2, <1>3, PaymentOfKeyStays DEF RowsOfKeys
<1>4. ASSUME NEW k \in IdemKeys, refunds[k] # None
      PROVE  RefundOfKey(k)'
  BY <1>1, <1>2, <1>4, RefundOfKeyStays DEF RowsOfKeys
<1>5. ASSUME NEW k \in IdemKeys, payments[k] = None, payments'[k] # None
      PROVE  PaymentOfKey(k)'
  <2>1. PICK r \in Requests : CreatePaymentCommit(r)
    BY <1>1, <1>5, RowsWritten DEF OverwritesRow, CreateRefundCommit
  <2>2. PICK j : j = req[r].pay
    OBVIOUS
  <2> QED
    BY <1>1, <1>5, <2>1, <2>2, NewPaymentOfKey
<1>6. ASSUME NEW k \in IdemKeys, refunds[k] = None, refunds'[k] # None
      PROVE  RefundOfKey(k)'
  <2>1. PICK r \in Requests : CreateRefundCommit(r)
    BY <1>1, <1>6, RowsWritten DEF CreatePaymentCommit
  <2>2. PICK j : j = req[r].key
    OBVIOUS
  <2> QED
    BY <1>1, <1>6, <2>1, <2>2, NewRefundOfKey
<1> QED
  BY <1>3, <1>4, <1>5, <1>6 DEF RowsOfKeys
-------------------------------------------------------------------------------
RefundAfter(x, pi) == stripe_refunds'[x] # None /\ stripe_refunds'[x].pi = pi

\* Events stay where they are, and a new one of a refund names the charge, of
\* which there is a refund.
EventsName ==
  /\ \A e \in DOMAIN events : e \in DOMAIN events' /\ events'[e] = events[e]
  /\ \A e \in DOMAIN events' :
       \/ e \in DOMAIN events
       \/ events'[e].type = "charge.refunded" =>
            /\ events'[e].object \in Intents
            /\ \E x \in RefundIds : RefundAfter(x, events'[e].pi)

LEMMA EmitNames ==
  ASSUME Inv, NEW type \in EventTypes, NEW pi \in Intents,
         NEW object \in Intents \cup RefundIds, Emit(type, pi, object),
         type = "charge.refunded" =>
           object \in Intents /\ \E x \in RefundIds : RefundAfter(x, pi)
  PROVE  EventsName
<1> DEFINE event == [type |-> type, pi |-> pi, object |-> object]
<1>1. /\ \A e \in DOMAIN events : e \in DOMAIN events' /\ events'[e] = events[e]
      /\ \A e \in DOMAIN events' : e \in DOMAIN events \/ events'[e] = event
  BY EmitAppends DEF Inv
<1>2. event.type = type /\ event.pi = pi /\ event.object = object
  OBVIOUS
<1> HIDE DEF event
<1> QED
  BY <1>1, <1>2 DEF EventsName

\* A refund that Stripe makes.
LEMMA NewRefundOf ==
  ASSUME Inv, NEW pi \in Intents, NEW amount \in Int, NEW x \in RefundIds,
         NEW status \in Unsettled \cup {"succeeded"}, NewRefund(pi, amount, x, status)
  PROVE  /\ amount \in Nat
         /\ stripe_refunds[x] = None /\ stripe_refunds'[x] # None
         /\ stripe_refunds'[x].pi = pi /\ stripe_refunds'[x].amount = amount
         /\ stripe_refunds'[x].status = status
         /\ \A y \in RefundIds \ {x} : stripe_refunds'[y] = stripe_refunds[y]
         /\ RefundAfter(x, pi)
<1> DEFINE new == [pi |-> pi, amount |-> amount, status |-> status]
<1>1. amount \in Nat /\ stripe_refunds[x] = None
  BY DEF NewRefund, Refundable
<1>2. new \in Refunds /\ new.pi = pi /\ new.amount = amount /\ new.status = status
  BY <1>1 DEF Refunds, StripeRefundStatuses, STRIPE_REFUND_STATUS_MAP, Unsettled, Undone
<1>3. stripe_refunds' = [stripe_refunds EXCEPT ![x] = new]
  BY DEF NewRefund
<1> HIDE DEF new
<1>4. /\ stripe_refunds'[x] = new
      /\ \A y \in RefundIds \ {x} : stripe_refunds'[y] = stripe_refunds[y]
  BY <1>3 DEF Inv, TypeOK, StripeTypeOK
<1>5. stripe_refunds'[x] # None
  BY <1>2, <1>4, NoneIsNoObject
<1> QED
  BY <1>1, <1>2, <1>4, <1>5 DEF RefundAfter

LEMMA MoveNames ==
  ASSUME Inv, NEW pi \in Intents, NEW to, MoveIntent(pi, to)
  PROVE  EventsName
<1>1. intents[pi].status \in IntentStates /\ to \in Successors[intents[pi].status]
  BY DEF MoveIntent, Inv, TypeOK, StripeTypeOK, PaymentIntents
<1>2. to \in IntentStates
  BY <1>1 DEF IntentStates, Successors
<1>3. EventOf[to] \in EventTypes /\ EventOf[to] # "charge.refunded"
  BY <1>2 DEF EventTypes, EventOf, IntentStates, Successors
<1> QED
  BY <1>3, EmitNames DEF MoveIntent

LEMMA StepNames ==
  ASSUME Inv, [Next]_vars
  PROVE  EventsName
<1>1. ASSUME UNCHANGED events
      PROVE  EventsName
  BY <1>1 DEF EventsName
<1>2. ASSUME NEW r \in Requests, CreatePaymentCall(r)
      PROVE  EventsName
  BY <1>1, <1>2, EmitNames
     DEF CreatePaymentCall, CreateIntent, Replay, stripeVars, EventTypes
<1>3. ASSUME NEW r \in Requests, ConfirmPaymentCall(r) \/ CancelPaymentCall(r)
      PROVE  EventsName
  <2>1. req[r].row.external_id \in Intents
    BY <1>3, Holding DEF ConfirmPaymentCall, CancelPaymentCall, At, Live
  <2> QED
    BY <1>1, <1>3, <2>1, MoveNames
       DEF ConfirmPaymentCall, CancelPaymentCall, ConfirmIntent, CancelIntent, Replay,
           stripeVars
<1>4. ASSUME NEW r \in Requests, CreateRefundCall(r)
      PROVE  EventsName
  <2>1. req[r].row.external_id \in Intents /\ req[r].amount \in Int
    BY <1>4, Holding DEF CreateRefundCall, At, Live, RequestSound
  <2>2. "charge.refunded" \in EventTypes
    BY DEF EventTypes
  <2>3. ASSUME NEW pi \in Intents, NEW amount \in Int, NEW x \in RefundIds,
               NEW status \in Unsettled \cup {"succeeded"}, NewRefund(pi, amount, x, status)
        PROVE  EventsName
    <3>1. RefundAfter(x, pi)
      BY <2>3, NewRefundOf
    <3> QED
      BY <2>2, <2>3, <3>1, EmitNames DEF NewRefund
  <2> QED
    BY <1>1, <1>4, <2>1, <2>3 DEF CreateRefundCall, RefundIntent, Replay, stripeVars
<1>5. CASE PaymentServiceNext \/ RefundServiceNext \/ SessionNext
  <2>1. ASSUME NEW r, NEW k, NEW key, NEW cred, NEW amount,
               \/ CreatePayment(r, k, amount, cred) \/ ConfirmPayment(r, k, key, cred)
               \/ CancelPayment(r, k, key, cred) \/ CreateRefund(r, k, key, amount, cred)
        PROVE  EventsName
    BY <1>1, <2>1
       DEF CreatePayment, ConfirmPayment, CancelPayment, LoadPayment, CreateRefund, stripeVars
  <2>2. ASSUME NEW r,
               \/ CreatePaymentCommit(r) \/ ConfirmPaymentCommit(r)
               \/ CancelPaymentCommit(r) \/ CreateRefundCommit(r)
        PROVE  EventsName
    BY <1>1, <2>2
       DEF CreatePaymentCommit, ConfirmPaymentCommit, CancelPaymentCommit,
           CreateRefundCommit, Commits, stripeVars
  <2>3. ASSUME NEW r,
               CreateRefundChecks(r) \/ InsertConflicts(r) \/ RespondFirst(r) \/ Rollback(r)
        PROVE  EventsName
    BY <1>1, <2>3
       DEF CreateRefundChecks, InsertConflicts, RespondFirst, Rollback, stripeVars
  <2>4. CASE PaymentServiceNext
    BY <1>2, <1>3, <2>1, <2>2, <2>4 DEF PaymentServiceNext, PaymentServiceStep
  <2>5. CASE RefundServiceNext
    BY <1>4, <2>1, <2>2, <2>3, <2>5 DEF RefundServiceNext, RefundServiceStep
  <2>6. CASE SessionNext
    BY <2>3, <2>6 DEF SessionNext
  <2> QED
    BY <1>5, <2>4, <2>5, <2>6
<1>6. CASE WebhookServiceNext
  BY <1>1, <1>6
     DEF WebhookServiceNext, WebhookServiceStep, StoreEvent, FindPayment, LoadRefunds,
         AnswerFirst, AnswerOk, AnswerError, Deliver, HandlerRaises, Drop, HandleEvent,
         HandleNothing, HandlePaymentSucceeded, HandlePaymentFailed, HandlePaymentCanceled,
         HandlePaymentProcessing, HandlePaymentRequiresAction, HandleChargeRefunded,
         HandleDisputeCreated, MarkProcessed, stripeVars
<1>7. CASE CustomerNext
  BY <1>7, MoveNames DEF CustomerNext, CustomerPays
<1>8. CASE StripeNext
  <2>1. ASSUME NEW pi \in Intents, DisputeOpens(pi)
        PROVE  EventsName
    <3>1. "charge.dispute.created" \in EventTypes
      BY DEF EventTypes
    <3> QED
      BY <2>1, <3>1, EmitNames DEF DisputeOpens
  <2>2. ASSUME NEW x \in RefundIds, RefundSettles(x)
        PROVE  EventsName
    <3>1. "charge.refund.updated" \in EventTypes
      BY DEF EventTypes
    <3>2. stripe_refunds[x].pi \in Intents
      BY <2>2 DEF RefundSettles, Inv, TypeOK, StripeTypeOK, Refunds
    <3> QED
      BY <2>2, <3>1, <3>2, EmitNames DEF RefundSettles
  <2> QED
    BY <1>8, <2>1, <2>2, MoveNames DEF StripeNext, BankSettles, OperatorCancels
<1>9. CASE UNCHANGED vars
  BY <1>1, <1>9 DEF vars, stripeVars
<1> QED
  BY <1>5, <1>6, <1>7, <1>8, <1>9 DEF Next

LEMMA ChargesNamedNext ==
  ASSUME Inv, ChargesNamed, [Next]_vars
  PROVE  ChargesNamed'
BY StepNames DEF EventsName, ChargesNamed

\* A delivery never finds the refund of the event it handles: the total it
\* reads is of the refunds that have succeeded by then.
LEMMA LoadsTotal ==
  ASSUME Inv, ChargesNamed, NoRefundFound, NEW w \in Workers, LoadRefunds(w)
  PROVE  /\ hook[w].pc = "found" /\ hook[w].event \in DOMAIN events
         /\ \E total \in Nat :
              /\ total = RefundedAmount(hook[w].pay, {})
              /\ hook' = [hook EXCEPT ![w] =
                   [hook[w] EXCEPT !.pc = "loaded", !.total = total, !.refund = None]]
<1> DEFINE named == {x \in IdemKeys : /\ refunds[x] # None
                                      /\ refunds[x].external_id =
                                           RefundProviderId(EventAt(w))}
           total == RefundedAmount(hook[w].pay, named)
<1>1. hook[w].pc = "found" /\ hook[w].event \in DOMAIN events /\ hook[w] \in DeliveryStates
  BY DEF LoadRefunds, Inv, TypeOK, DeliverySound
<1>2. RefundProviderId(EventAt(w)) \in Intents
  BY <1>1 DEF NoRefundFound, ChargesNamed, EventAt, RefundProviderId
<1>3. \A x \in IdemKeys : refunds[x] # None => refunds[x].external_id \in RefundIds
  BY DEF Inv, TypeOK, DatabaseTypeOK, RefundRows
<1>4. named = {}
  BY <1>2, <1>3, ObjectsAreDistinct
<1>5. hook' = [hook EXCEPT ![w].pc = "loaded", ![w].total = total,
                           ![w].refund = IF named = {} THEN None
                                         ELSE CHOOSE x \in named : TRUE]
  BY DEF LoadRefunds
<1>6. total \in Nat
  BY RefundedIsNat
<1> HIDE DEF named
<1>7. total = RefundedAmount(hook[w].pay, {})
  BY <1>4
<1> HIDE DEF total
<1> QED
  BY <1>1, <1>4, <1>5, <1>6, <1>7

LEMMA NoRefundFoundNext ==
  ASSUME Inv, ChargesNamed, NoRefundFound, [Next]_vars
  PROVE  NoRefundFound'
<1>1. EventsName
  BY StepNames
<1>2. ASSUME NEW w \in Workers, hook'[w] = hook[w]
      PROVE  /\ hook'[w].refund = None
             /\ hook'[w].pc = "found" => EventAt(w)'.type = "charge.refunded"
  <2>1. hook[w].pc = "found" => hook[w].event \in DOMAIN events
    BY DEF Inv, DeliverySound
  <2> QED
    BY <1>1, <1>2, <2>1 DEF EventsName, NoRefundFound, EventAt
<1>3. CASE UNCHANGED hook
  BY <1>2, <1>3 DEF NoRefundFound
<1>4. ASSUME NEW w \in Workers, NEW state, hook' = [hook EXCEPT ![w] = state],
             state.refund = None, state.pc # "found"
      PROVE  NoRefundFound'
  <2>1. hook'[w] = state /\ \A o \in Workers \ {w} : hook'[o] = hook[o]
    BY <1>4 DEF Inv, TypeOK
  <2>2. ASSUME NEW o \in Workers
        PROVE  /\ hook'[o].refund = None
               /\ hook'[o].pc = "found" => EventAt(o)'.type = "charge.refunded"
    BY <1>2, <1>4, <2>1
  <2> QED
    BY <2>2 DEF NoRefundFound
<1>5. ASSUME NEW w \in Workers, NEW pc, pc # "found", Goto(w, pc)
      PROVE  NoRefundFound'
  <2> DEFINE state == [hook[w] EXCEPT !.pc = pc]
  <2>1. hook[w] \in DeliveryStates
    BY DEF Inv, TypeOK
  <2>2. state.pc = pc /\ state.refund = hook[w].refund
    BY <2>1 DEF DeliveryStates
  <2>3. hook' = [hook EXCEPT ![w] = state]
    BY <1>5 DEF Goto
  <2> HIDE DEF state
  <2> QED
    BY <1>4, <1>5, <2>2, <2>3 DEF NoRefundFound
<1>6. ASSUME NEW w \in Workers, Release(w)
      PROVE  NoRefundFound'
  <2>1. PICK state : state = Waiting
    OBVIOUS
  <2>2. state.refund = None /\ state.pc # "found"
    BY <2>1 DEF Waiting
  <2> QED
    BY <1>4, <1>6, <2>1, <2>2 DEF Release
<1>7. ASSUME NEW w \in Workers, NEW e, Deliver(w, e)
      PROVE  NoRefundFound'
  <2> DEFINE state == [Waiting EXCEPT !.event = e,
                                      !.pc = IF Processed(e) THEN "handled"
                                             ELSE IF Stored(e) THEN "stored" ELSE "new"]
  <2>1. state.refund = None /\ state.pc # "found"
    BY DEF Waiting
  <2>2. hook' = [hook EXCEPT ![w] = state]
    BY <1>7 DEF Deliver
  <2> HIDE DEF state
  <2> QED
    BY <1>4, <2>1, <2>2
<1>8. ASSUME NEW w \in Workers, LoadRefunds(w)
      PROVE  NoRefundFound'
  <2>1. PICK total \in Nat : hook' = [hook EXCEPT ![w] =
          [hook[w] EXCEPT !.pc = "loaded", !.total = total, !.refund = None]]
    BY <1>8, LoadsTotal
  <2> DEFINE state == [hook[w] EXCEPT !.pc = "loaded", !.total = total, !.refund = None]
  <2>2. state.refund = None /\ state.pc # "found"
    BY DEF Inv, TypeOK, DeliveryStates
  <2>3. hook' = [hook EXCEPT ![w] = state]
    BY <2>1
  <2> HIDE DEF state
  <2> QED
    BY <1>4, <2>2, <2>3
<1>9. ASSUME NEW w \in Workers, FindPayment(w)
      PROVE  NoRefundFound'
  <2>1. CASE Goto(w, "loaded")
    BY <1>5, <2>1
  <2>2. CASE \E k \in IdemKeys :
               hook' = [hook EXCEPT
                 ![w].pc = IF EventAt(w).type = "charge.refunded" THEN "found" ELSE "loaded",
                 ![w].pay = k, ![w].row = payments[k]]
    <3>1. PICK k \in IdemKeys :
            hook' = [hook EXCEPT
              ![w].pc = IF EventAt(w).type = "charge.refunded" THEN "found" ELSE "loaded",
              ![w].pay = k, ![w].row = payments[k]]
      BY <2>2
    <3> DEFINE state == [hook[w] EXCEPT
                           !.pc = IF EventAt(w).type = "charge.refunded" THEN "found"
                                  ELSE "loaded",
                           !.pay = k, !.row = payments[k]]
    <3>2. hook[w] \in DeliveryStates
      BY DEF Inv, TypeOK
    <3>3. /\ state.refund = hook[w].refund /\ state.event = hook[w].event
          /\ state.pc = "found" => EventAt(w).type = "charge.refunded"
      BY <3>2 DEF DeliveryStates
    <3>4. hook' = [hook EXCEPT ![w] = state]
      BY <3>1
    <3> HIDE DEF state
    <3>5. hook'[w] = state /\ \A o \in Workers \ {w} : hook'[o] = hook[o]
      BY <3>4 DEF Inv, TypeOK
    <3>6. hook[w].event \in DOMAIN events
      BY <1>9 DEF FindPayment, Inv, DeliverySound
    <3>7. /\ hook'[w].refund = None
          /\ hook'[w].pc = "found" => EventAt(w)'.type = "charge.refunded"
      BY <1>1, <3>3, <3>5, <3>6 DEF EventsName, EventAt, NoRefundFound
    <3>8. ASSUME NEW o \in Workers
          PROVE  /\ hook'[o].refund = None
                 /\ hook'[o].pc = "found" => EventAt(o)'.type = "charge.refunded"
      BY <1>2, <3>5, <3>7
    <3> QED
      BY <3>8 DEF NoRefundFound
  <2> QED
    BY <1>9, <2>1, <2>2 DEF FindPayment, PaymentsOf
<1>10. ASSUME NEW w \in Workers, HandleEvent(w)
       PROVE  NoRefundFound'
  BY <1>5, <1>6, <1>10
     DEF HandleEvent, HandleNothing, HandlePaymentSucceeded, HandlePaymentFailed,
         HandlePaymentCanceled, HandlePaymentProcessing, HandlePaymentRequiresAction,
         HandleChargeRefunded, HandleDisputeCreated, MarkProcessed
<1>11. CASE WebhookServiceNext
  BY <1>5, <1>6, <1>7, <1>8, <1>9, <1>10, <1>11
     DEF WebhookServiceNext, WebhookServiceStep, StoreEvent, AnswerFirst, AnswerOk,
         AnswerError, HandlerRaises, Drop
<1> QED
  BY <1>3, <1>11 DEF Next, vars, hookVars

LEMMA RecordsInit == Init => RecordsInv
<1> SUFFICES ASSUME Init
             PROVE  RecordsInv
  OBVIOUS
<1>1. IntentsOfKeys /\ RefundsOfKeys
  BY DEF Init, StripeInit, IntentsOfKeys, RefundsOfKeys, CreateSaved, RefundSaved
<1>2. \A r \in Requests : RequestOfKey(r)
  BY DEF Init, SessionInit, Idle, Begin, RequestOfKey, Live
<1>3. RowsOfKeys
  BY DEF Init, DbInit, RowsOfKeys
<1>4. ChargesNamed
  BY DEF Init, StripeInit, ChargesNamed
<1>5. NoRefundFound
  BY DEF Init, WebhookInit, Waiting, NoRefundFound
<1> QED
  BY <1>1, <1>2, <1>3, <1>4, <1>5 DEF RecordsInv

LEMMA RecordsNext == Inv /\ RecordsInv /\ [Next]_vars => RecordsInv'
<1> SUFFICES ASSUME Inv, RecordsInv, [Next]_vars
             PROVE  RecordsInv'
  OBVIOUS
<1>1. IntentsOfKeys' /\ RefundsOfKeys'
  BY EveryStepKeeps DEF RecordsInv, StripeKeeps
<1>2. (\A r \in Requests : RequestOfKey(r))'
  BY RequestsOfKeysNext
<1>3. RowsOfKeys' /\ ChargesNamed' /\ NoRefundFound'
  BY RowsOfKeysNext, ChargesNamedNext, NoRefundFoundNext DEF RecordsInv
<1> QED
  BY <1>1, <1>2, <1>3 DEF RecordsInv

LEMMA RecordsAlways == Spec => [](Inv /\ RecordsInv)
<1>1. Inv /\ RecordsInv /\ [Next]_vars => (Inv /\ RecordsInv)'
  BY InvNext, RecordsNext
<1> QED
  BY <1>1, InvInit, RecordsInit, PTL DEF Spec

\* A key's saved answer, Stripe's object and the row of it stay together.
THEOREM RecordsKept == Spec => []RecordsInv
BY RecordsAlways, PTL

\* A row has the amount of its intent, no two rows have one intent, and what a
\* crashed creation left at Stripe is recorded by a retry with its key.
THEOREM CreationsAreRecoverable == Spec => []CreationsRecoverable
<1>1. ASSUME Inv, RecordsInv
      PROVE  CreationsRecoverable
  <2>1. \A k \in IdemKeys : payments[k] # None =>
          /\ saved[k] # None /\ saved[k].call.op = "create"
          /\ saved[k].ans.pi = payments[k].external_id
          /\ payments[k].amount = intents[payments[k].external_id].amount
    BY <1>1 DEF RecordsInv, RowsOfKeys, PaymentOfKey, CreateSaved, IntentsOfKeys
  <2>2. ASSUME NEW pi \in Intents, intents[pi] # None
        PROVE  \E k \in IdemKeys :
                 /\ saved[k] # None /\ saved[k].call.op = "create"
                 /\ saved[k].ans.pi = pi
                 /\ PaymentsOf(pi) \in {{}, {k}}
                 /\ payments[k] # None => payments[k].external_id = pi
    <3>1. PICK k \in IdemKeys : CreateSaved(k) /\ saved[k].ans.pi = pi
      BY <1>1, <2>2 DEF RecordsInv, IntentsOfKeys
    <3>2. ASSUME NEW j \in PaymentsOf(pi)
          PROVE  j = k
      <4>1. j \in IdemKeys /\ CreateSaved(j) /\ saved[j].ans.pi = pi
        BY <2>1 DEF PaymentsOf, CreateSaved
      <4> QED
        BY <1>1, <3>1, <4>1 DEF RecordsInv, IntentsOfKeys
    <3> QED
      BY <2>1, <3>1, <3>2 DEF CreateSaved
  <2> QED
    BY <2>1, <2>2 DEF CreationsRecoverable
<1> QED
  BY <1>1, RecordsAlways, PTL

\* A refund row is one of Stripe's refunds of its payment, of that amount, and
\* succeeded only if it is; no two rows record one refund.
THEOREM RefundRowsAreBacked == Spec => []RefundRowsBacked
<1>1. ASSUME Inv, RecordsInv
      PROVE  RefundRowsBacked
  <2> SUFFICES ASSUME NEW x \in IdemKeys, NEW y \in IdemKeys, refunds[x] # None
               PROVE  LET row == refunds[x]
                          refund == stripe_refunds[row.external_id]
                      IN  /\ refund # None
                          /\ payments[row.payment].external_id = refund.pi
                          /\ row.amount = refund.amount
                          /\ row.status = "succeeded" => refund.status = "succeeded"
                          /\ refunds[y] # None /\ refunds[y].external_id = row.external_id
                               => x = y
    BY DEF RefundRowsBacked
  <2>1. RefundOfKey(x) /\ (refunds[y] # None => RefundOfKey(y)) /\ RefundsOfKeys
    BY <1>1 DEF RecordsInv, RowsOfKeys
  <2> QED
    BY <2>1 DEF RefundOfKey, RefundsOfKeys
<1> QED
  BY <1>1, RecordsAlways, PTL
-------------------------------------------------------------------------------
(***************************************************************************)
(* Who created a payment, and who may still try to.                        *)
(***************************************************************************)
LEMMA OneRequestMoves ==
  ASSUME Inv, RecordsInv, [Next]_vars
  PROVE  UNCHANGED req \/ \E r \in Requests : Begins(r) \/ GoesOn(r)
<1>1. ASSUME NEW r \in Requests, RequestKinds(r)
      PROVE  Begins(r) \/ GoesOn(r)
  BY <1>1, ChecksGoOn, RespondFirstGoesOn, CommitGoesOn
     DEF RequestKinds, CallsProvider, CreatePaymentCommit, ConfirmPaymentCommit,
         CancelPaymentCommit, CreateRefundCommit, CommitsRow, EndsUnrecorded
<1>2. CASE PaymentServiceNext \/ RefundServiceNext \/ SessionNext
  <2>1. PICK r \in Requests : RequestKinds(r)
    BY <1>2, RequestStepKinds DEF RecordsInv
  <2> QED
    BY <1>1, <2>1
<1> QED
  BY <1>2 DEF Next, vars

\* "payment.created" is logged by create_payment, of the payment it inserts.
LEMMA CreationsLog ==
  ASSUME Inv, RecordsInv, [Next]_vars, NEW k, NEW o, CreatedBy(k, o)'
  PROVE  CreatedBy(k, o) \/ (o \in Requests /\ CreatePaymentCommit(o) /\ k = req[o].pay)
<1>1. ASSUME UNCHANGED audit_log
      PROVE  CreatedBy(k, o)
  BY <1>1 DEF CreatedBy
<1>2. ASSUME NEW action, NEW j, NEW by, LogAction(action, j, by), ~CreatedBy(k, o)
      PROVE  action = "payment.created" /\ j = k /\ by = o
  BY <1>2, LogAdds DEF CreatedBy
<1>3. ASSUME NEW r \in Requests, RequestKinds(r)
      PROVE  CreatedBy(k, o) \/ (o \in Requests /\ CreatePaymentCommit(o) /\ k = req[o].pay)
  <2>1. CASE CreatePaymentCommit(r)
    <3>1. LogAction("payment.created", req[r].pay, r)
      BY <2>1 DEF CreatePaymentCommit, Commits
    <3>2. CreatedBy(k, o) \/ (req[r].pay = k /\ r = o)
      BY <1>2, <3>1
    <3> QED
      BY <2>1, <3>2
  <2>2. CASE ConfirmPaymentCommit(r) \/ CancelPaymentCommit(r) \/ CreateRefundCommit(r)
    BY <1>2, <2>2
       DEF ConfirmPaymentCommit, CancelPaymentCommit, CreateRefundCommit, Commits
  <2>3. CASE CreateRefundChecks(r) \/ RespondFirst(r)
    <3>1. UNCHANGED audit_log
      BY <2>3, ChecksGoOn, RespondFirstGoesOn DEF dbVars
    <3> QED
      BY <1>1, <3>1
  <2>4. CASE Begins(r) \/ CallsProvider(r) \/ EndsUnrecorded(r)
    <3>1. UNCHANGED audit_log
      BY <2>4 DEF Begins, CallsProvider, EndsUnrecorded, dbVars
    <3> QED
      BY <1>1, <3>1
  <2> QED
    BY <1>3, <2>1, <2>2, <2>3, <2>4 DEF RequestKinds
<1>4. ASSUME NEW w \in Workers, HandleEvent(w)
      PROVE  CreatedBy(k, o)
  BY <1>1, <1>2, <1>4
     DEF HandleEvent, HandleNothing, HandlePaymentSucceeded, HandlePaymentFailed,
         HandlePaymentCanceled, HandlePaymentProcessing, HandlePaymentRequiresAction,
         HandleChargeRefunded, HandleDisputeCreated, LogApplied
<1>5. CASE WebhookServiceNext
  BY <1>1, <1>4, <1>5
     DEF WebhookServiceNext, WebhookServiceStep, StoreEvent, FindPayment, LoadRefunds,
         AnswerFirst, AnswerOk, AnswerError, Deliver, HandlerRaises, Drop, dbVars
<1>6. CASE PaymentServiceNext \/ RefundServiceNext \/ SessionNext
  <2>1. PICK r \in Requests : RequestKinds(r)
    BY <1>6, RequestStepKinds DEF RecordsInv
  <2> QED
    BY <1>3, <2>1
<1> QED
  BY <1>1, <1>5, <1>6 DEF Next, vars, dbVars

LEMMA CreationInserts ==
  ASSUME Inv, RecordsInv, NEW r \in Requests, CreatePaymentCommit(r)
  PROVE  /\ Live(r) /\ req[r].op = "create" /\ req[r].pay \in IdemKeys
         /\ payments'[req[r].pay] # None
         /\ GoesOn(r) /\ req'[r].pc = "done"
<1>1. PICK k : k = req[r].pay
  OBVIOUS
<1>2. /\ Live(r) /\ req[r].op = "create" /\ k \in IdemKeys
      /\ \A j \in IdemKeys \ {k} : payments'[j] = payments[j]
  BY <1>1, Committing, NewPaymentOfKey DEF CreatePaymentCommit, RecordsInv
<1>3. payments'[k] # None
  BY <1>2, CommitWritesRow DEF InsertsRow
<1> QED
  BY <1>1, <1>2, <1>3, CommitGoesOn DEF CreatePaymentCommit, CommitsRow

LEMMA CreationsNext ==
  ASSUME Inv, RecordsInv, CreationsInv, [Next]_vars
  PROVE  CreationsInv'
<1>1. RowsStay
  BY PaymentRowsKept DEF RecordsInv
<1>2. SessionsApart'
  <2>1. ASSUME NEW r \in Requests, Begins(r)
        PROVE  SessionsApart'
    BY <2>1 DEF Begins, Admitted, SessionsApart, CreationsInv, Live
  <2>2. ASSUME NEW r \in Requests, GoesOn(r)
        PROVE  SessionsApart'
    BY <2>2 DEF GoesOn, SessionsApart, CreationsInv, Live
  <2>3. CASE UNCHANGED req
    BY <2>3 DEF SessionsApart, CreationsInv, Live
  <2> QED
    BY <2>1, <2>2, <2>3, OneRequestMoves
\* What is done does not move.
<1>3. ASSUME NEW o \in Requests, req[o].pc = "done"
      PROVE  req'[o] = req[o]
  BY <1>3, OneRequestMoves DEF Begins, Admitted, GoesOn, Live
<1>4. CreationsLogged'
  <2> SUFFICES ASSUME NEW k \in IdemKeys, NEW o \in Requests, CreatedBy(k, o)'
               PROVE  payments'[k] # None /\ req'[o].pc = "done"
    BY DEF CreationsLogged
  <2>1. CASE CreatedBy(k, o)
    BY <1>1, <1>3, <2>1 DEF CreationsInv, CreationsLogged, RowsStay
  <2>2. CASE CreatePaymentCommit(o) /\ k = req[o].pay
    BY <2>2, CreationInserts
  <2> QED
    BY <2>1, <2>2, CreationsLog
<1>5. CreationsApart'
  <2> SUFFICES ASSUME NEW q \in Requests, NEW r \in Requests, NEW k,
                      k = req'[r].pay, Live(r)', req'[r].op = "create", CreatedBy(k, q)'
               PROVE  req'[q].cred # req'[r].cred \/ req'[r].cred \in Jwts
    BY DEF CreationsApart, CreatedBy
  <2>1. \/ /\ Begins(r) /\ payments[k] = None /\ k \in IdemKeys
           /\ \A o \in Requests \ {r} : req'[o] = req[o]
        \/ /\ Live(r) /\ req[r].op = "create" /\ req[r].pay = k
           /\ req'[r].cred = req[r].cred
    BY OneRequestMoves, PayKeysAreKeys DEF Begins, GoesOn, Live
  <2>2. CASE CreatedBy(k, q)
    <3>1. k \in IdemKeys
      BY <2>1, Holding
    <3>2. payments[k] # None /\ req'[q] = req[q]
      BY <1>3, <2>2, <3>1 DEF CreationsInv, CreationsLogged
    <3> QED
      BY <2>1, <2>2, <3>2 DEF CreationsInv, CreationsApart
  <2>3. CASE CreatePaymentCommit(q) /\ k = req[q].pay
    <3>1. Live(q) /\ GoesOn(q) /\ req'[q].pc = "done"
      BY <2>3, CreationInserts
    <3>2. q # r /\ req'[q].cred = req[q].cred /\ req'[r] = req[r]
      BY <3>1 DEF GoesOn, Live
    <3>3. Live(r)
      BY <3>2 DEF Live
    <3> QED
      BY <3>1, <3>2, <3>3 DEF CreationsInv, SessionsApart
  <2> QED
    BY <2>2, <2>3, CreationsLog
<1> QED
  BY <1>2, <1>4, <1>5 DEF CreationsInv

LEMMA CreationsAlways == Spec => [](Inv /\ RecordsInv /\ CreationsInv)
<1>1. Init => CreationsInv
  <2>1. BagToSet(EmptyBag) = {}
    BY DEF BagToSet, EmptyBag, SetToBag
  <2> QED
    BY <2>1
       DEF Init, DbInit, SessionInit, Idle, Begin, CreationsInv, SessionsApart,
           CreationsLogged, CreationsApart, CreatedBy, Live
<1>2. Inv /\ RecordsInv /\ CreationsInv /\ [Next]_vars
        => (Inv /\ RecordsInv /\ CreationsInv)'
  BY InvNext, RecordsNext, CreationsNext
<1> QED
  BY <1>1, <1>2, InvInit, RecordsInit, PTL DEF Spec

\* Sessions under one API key exclude each other, a creation is logged with its
\* row, and no live creation under that key still has it to insert.
THEOREM CreationsKept == Spec => []CreationsInv
BY CreationsAlways, PTL

\* A creation that will collide in the INSERT was let in beside the other one
\* by a JWT, or the row is another credential's.
THEOREM CollisionsAreAcross == Spec => []CollisionsAcrossCredentials
<1>1. CreationsInv => CollisionsAcrossCredentials
  BY DEF CreationsInv, CreationsApart, CollisionsAcrossCredentials, CreatedBy, At, Live
<1> QED
  BY <1>1, CreationsAlways, PTL

\* A client that was told its payment is created finds it, if the commit
\* precedes the response.
StoredInv ==
  \A r \in Requests :
    /\ req[r].pc # "answered"
    /\ req[r].op = "create" /\ req[r].reply = "2xx" =>
         req[r].pay \in IdemKeys /\ payments[req[r].pay] # None

LEMMA StoredNext ==
  ASSUME CommitBeforeResponse, Inv, RecordsInv, StoredInv, [Next]_vars
  PROVE  StoredInv'
<1> DEFINE Told(q) == q.op = "create" /\ q.reply = "2xx"
           Kept(o) == /\ req'[o].pc # "answered"
                      /\ Told(req'[o]) => /\ req'[o].pay \in IdemKeys
                                          /\ payments'[req'[o].pay] # None
<1>1. RowsStay
  BY PaymentRowsKept DEF RecordsInv
<1>2. ASSUME NEW o \in Requests, req'[o] = req[o]
      PROVE  Kept(o)
  BY <1>1, <1>2 DEF StoredInv, RowsStay
<1>3. ASSUME NEW r \in Requests, RequestKinds(r)
      PROVE  Kept(r) /\ \A o \in Requests \ {r} : req'[o] = req[o]
  <2>1. ASSUME Begins(r)
        PROVE  Kept(r) /\ \A o \in Requests \ {r} : req'[o] = req[o]
    BY <2>1, PayKeysAreKeys DEF Begins, dbVars
  <2>2. ASSUME GoesOn(r), req'[r].pc # "answered",
               \/ req'[r].reply # "2xx" \/ req'[r].reply = req[r].reply
               \/ req[r].op # "create" \/ CreatePaymentCommit(r)
        PROVE  Kept(r) /\ \A o \in Requests \ {r} : req'[o] = req[o]
    BY <1>1, <2>2, CreationInserts DEF GoesOn, StoredInv, RowsStay
  <2>3. CASE CallsProvider(r)
    BY <2>2, <2>3 DEF CallsProvider
  <2>4. CASE CreateRefundChecks(r)
    BY <2>2, <2>4, ChecksGoOn
  <2>5. CASE CreatePaymentCommit(r)
    BY <2>2, <2>5, CreationInserts
  <2>6. CASE ConfirmPaymentCommit(r) \/ CancelPaymentCommit(r) \/ CreateRefundCommit(r)
    BY <2>2, <2>6, CommitGoesOn
       DEF ConfirmPaymentCommit, CancelPaymentCommit, CreateRefundCommit, CommitsRow
  <2>7. CASE EndsUnrecorded(r)
    BY <2>2, <2>7 DEF EndsUnrecorded, StoredInv
  <2> QED
    BY <1>3, <2>1, <2>3, <2>4, <2>5, <2>6, <2>7, RespondFirstGoesOn DEF RequestKinds
<1>4. \A o \in Requests : Kept(o)
  <2>1. CASE UNCHANGED req
    BY <1>2, <2>1
  <2>2. CASE PaymentServiceNext \/ RefundServiceNext \/ SessionNext
    <3>1. PICK r \in Requests : RequestKinds(r)
      BY <2>2, RequestStepKinds DEF RecordsInv
    <3> QED
      BY <1>2, <1>3, <3>1
  <2> QED
    BY <2>1, <2>2 DEF Next, vars
<1> QED
  BY <1>4 DEF StoredInv

THEOREM CreatedStored == ASSUME CommitBeforeResponse PROVE Spec => []CreatedIsStored
<1>1. Init => StoredInv
  BY DEF Init, SessionInit, Idle, Begin, StoredInv
<1>2. Inv /\ RecordsInv /\ StoredInv /\ [Next]_vars => StoredInv'
  BY StoredNext
<1>3. StoredInv => CreatedIsStored
  BY DEF StoredInv, CreatedIsStored
<1> QED
  BY <1>1, <1>2, <1>3, RecordsAlways, PTL DEF Spec
-------------------------------------------------------------------------------
(***************************************************************************)
(* What refunds add up to: the refunds that Stripe charges against an      *)
(* intent stay within it, the settled ones only grow, and the succeeded    *)
(* rows of a payment are some of the settled ones.                         *)
(***************************************************************************)
Unfailed(pi) == {x \in RefundsOf(pi) : stripe_refunds[x].status \notin Undone}
Succeeded(pi) == {x \in RefundsOf(pi) : stripe_refunds[x].status = "succeeded"}
Given(xs) == [x \in xs |-> stripe_refunds[x].amount]

Summands ==
  \A pi \in Intents :
    /\ IsFiniteSet(Unfailed(pi)) /\ Given(Unfailed(pi)) \in [Unfailed(pi) -> Nat]
    /\ IsFiniteSet(Succeeded(pi)) /\ Given(Succeeded(pi)) \in [Succeeded(pi) -> Nat]
    /\ Refunded(pi) = Total(Given(Unfailed(pi))) /\ Refunded(pi) \in Nat
    /\ Settled(pi) = Total(Given(Succeeded(pi))) /\ Settled(pi) \in Nat
    /\ Settled(pi) <= Refunded(pi)

LEMMA SummandsAre == Inv => Summands
<1> SUFFICES ASSUME Inv, NEW pi \in Intents
             PROVE  /\ IsFiniteSet(Unfailed(pi)) /\ Given(Unfailed(pi)) \in [Unfailed(pi) -> Nat]
                    /\ IsFiniteSet(Succeeded(pi))
                    /\ Given(Succeeded(pi)) \in [Succeeded(pi) -> Nat]
                    /\ Refunded(pi) = Total(Given(Unfailed(pi))) /\ Refunded(pi) \in Nat
                    /\ Settled(pi) = Total(Given(Succeeded(pi))) /\ Settled(pi) \in Nat
                    /\ Settled(pi) <= Refunded(pi)
  BY DEF Summands
<1>1. \A x \in RefundsOf(pi) : stripe_refunds[x].amount \in Nat
  BY DEF Inv, TypeOK, StripeTypeOK, RefundsOf, Refunds
<1>2. PICK all : all = Unfailed(pi)
  OBVIOUS
<1>3. PICK some : some = Succeeded(pi)
  OBVIOUS
<1>4. PICK f : f = Given(all)
  OBVIOUS
<1>5. PICK g : g = Given(some)
  OBVIOUS
<1>6. all \subseteq RefundsOf(pi) /\ some \subseteq all /\ all \subseteq RefundIds
  BY <1>2, <1>3 DEF Unfailed, Succeeded, RefundsOf, Undone
<1>7. IsFiniteSet(all) /\ IsFiniteSet(some)
  BY <1>6, KeysAreFinite, FS_Subset
<1>8. /\ f \in [all -> Nat] /\ g \in [some -> Nat]
      /\ \A x \in some : g[x] <= f[x]
  <2>1. \A x \in all : stripe_refunds[x].amount \in Nat
    BY <1>1, <1>6
  <2> QED
    BY <1>4, <1>5, <1>6, <2>1 DEF Given
<1>9. Total(f) \in Nat /\ Total(g) \in Nat
  BY <1>7, <1>8, TotalIsNat
<1>10. Total(g) <= Total(f)
  BY <1>6, <1>7, <1>8, TotalGrows
<1>11. Refunded(pi) = Total(f) /\ Settled(pi) = Total(g)
  BY <1>2, <1>3, <1>4, <1>5
     DEF Refunded, Settled, AmountOf, Given, Unfailed, Succeeded
<1> QED
  BY <1>2, <1>3, <1>4, <1>5, <1>7, <1>8, <1>9, <1>10, <1>11

LEMMA SummandsStay == Inv' => Summands'
BY SummandsAre, PTL

\* The succeeded rows of a payment are settled refunds of its intent, each one
\* of another.
LEMMA RowsAreSettled ==
  ASSUME Inv, RecordsInv, NEW k \in IdemKeys, payments[k] # None
  PROVE  /\ payments[k].external_id \in Intents
         /\ RefundedAmount(k, {}) \in Nat
         /\ RefundedAmount(k, {}) <= Settled(payments[k].external_id)
<1>1. PICK pi \in Intents : pi = payments[k].external_id
  BY DEF Inv, TypeOK, DatabaseTypeOK, PaymentRows
<1>2. PICK rows : rows = {x \in IdemKeys : /\ refunds[x] # None
                                           /\ refunds[x].payment = k
                                           /\ refunds[x].status = "succeeded" \/ x \in {}}
  OBVIOUS
<1>3. PICK f : f = [x \in rows |-> refunds[x].amount]
  OBVIOUS
<1>4. PICK to : to = [x \in rows |-> refunds[x].external_id]
  OBVIOUS
<1>5. PICK g : g = Given(Succeeded(pi))
  OBVIOUS
<1>6. RefundedAmount(k, {}) = Total(f) /\ RefundedAmount(k, {}) \in Nat
  BY <1>2, <1>3, RefundedIsNat DEF RefundedAmount, AmountOfRows
<1>7. /\ IsFiniteSet(Succeeded(pi)) /\ g \in [Succeeded(pi) -> Nat]
      /\ Settled(pi) = Total(g)
  BY <1>5, SummandsAre DEF Summands
<1>8. ASSUME NEW x \in rows
      PROVE  /\ x \in IdemKeys /\ RefundSaved(x)
             /\ saved[x].ans.refund = refunds[x].external_id
             /\ refunds[x].amount \in Nat
             /\ refunds[x].external_id \in Succeeded(pi)
             /\ stripe_refunds[refunds[x].external_id].amount = refunds[x].amount
  <2>1. /\ x \in IdemKeys /\ refunds[x] # None /\ refunds[x].payment = k
        /\ refunds[x].status = "succeeded"
    BY <1>2, <1>8
  <2>2. RefundOfKey(x) /\ refunds[x].amount \in Nat
    BY <2>1 DEF RecordsInv, RowsOfKeys, Inv, TypeOK, DatabaseTypeOK, RefundRows
  <2>3. LET ans == saved[x].ans
            refund == stripe_refunds[ans.refund]
        IN  /\ ans.refund \in RefundIds
            /\ refund # None
            /\ refund.pi = saved[x].call.pi
            /\ refund.amount = saved[x].call.amount
    BY <2>1, <2>2 DEF RecordsInv, RefundsOfKeys, RefundOfKey
  <2>4. saved[x].call.pi = pi
    BY <1>1, <2>1, <2>2 DEF RefundOfKey
  <2> QED
    BY <2>1, <2>2, <2>3, <2>4 DEF RefundOfKey, Succeeded, RefundsOf
<1>9. /\ f \in [rows -> Nat] /\ to \in [rows -> Succeeded(pi)]
      /\ \A x \in rows : to[x] = refunds[x].external_id /\ f[x] = refunds[x].amount
  BY <1>3, <1>4, <1>8
<1>10. \A x \in rows : f[x] <= g[to[x]]
  BY <1>5, <1>8, <1>9 DEF Given
<1>11. \A x, y \in rows : to[x] = to[y] => x = y
  BY <1>8, <1>9 DEF RecordsInv, RefundsOfKeys
<1>12. Total(f) <= Total(g)
  BY <1>7, <1>9, <1>10, <1>11, TotalFits
<1> QED
  BY <1>1, <1>6, <1>7, <1>12

\* A settled refund stays one.
LEMMA SettledGrows ==
  ASSUME Inv, Inv', RefundsStay, NEW pi \in Intents
  PROVE  /\ Settled(pi) \in Nat /\ Settled(pi)' \in Nat
         /\ Settled(pi) <= Settled(pi)'
         /\ RefundsOf(pi) # {} => RefundsOf(pi)' # {}
<1>1. PICK before : before = Succeeded(pi)
  OBVIOUS
<1>2. PICK after : after = Succeeded(pi)'
  OBVIOUS
<1>3. PICK f : f = Given(before)
  OBVIOUS
<1>4. PICK g : g = [x \in after |-> stripe_refunds'[x].amount]
  OBVIOUS
<1>5. f \in [before -> Nat] /\ Settled(pi) = Total(f) /\ Settled(pi) \in Nat
  BY <1>1, <1>3, SummandsAre DEF Summands
<1>6. IsFiniteSet(after) /\ g \in [after -> Nat] /\ Settled(pi)' = Total(g) /\ Settled(pi)' \in Nat
  BY <1>2, <1>4, SummandsStay DEF Summands, Given
<1>7. before \subseteq after
  BY <1>1, <1>2 DEF Succeeded, RefundsOf, RefundsStay
<1>8. \A x \in before : f[x] <= g[x]
  <2>1. ASSUME NEW x \in before
        PROVE  f[x] = g[x]
    BY <1>1, <1>3, <1>4, <1>7, <2>1 DEF Given, Succeeded, RefundsOf, RefundsStay
  <2> QED
    BY <1>5, <2>1
<1>9. Total(f) <= Total(g)
  BY <1>5, <1>6, <1>7, <1>8, TotalGrows
<1>10. RefundsOf(pi) # {} => RefundsOf(pi)' # {}
  BY DEF RefundsOf, RefundsStay
<1> QED
  BY <1>5, <1>6, <1>9, <1>10

\* How Stripe's refunds change.
RefundsMove ==
  \/ UNCHANGED stripe_refunds
  \/ UNCHANGED intents /\ \E x \in RefundIds : RefundSettles(x)
  \/ UNCHANGED intents /\ \E pi \in Intents, amount \in Int, x \in RefundIds,
                             status \in Unsettled \cup {"succeeded"} :
                            NewRefund(pi, amount, x, status)

LEMMA RefundsChange ==
  ASSUME Inv, [Next]_vars
  PROVE  RefundsMove
<1>1. ASSUME NEW r \in Requests, CreateRefundCall(r)
      PROVE  RefundsMove
  <2>1. req[r].row.external_id \in Intents /\ req[r].amount \in Int
    BY <1>1, Holding DEF CreateRefundCall, At, Live, RequestSound
  <2> QED
    BY <1>1, <2>1 DEF CreateRefundCall, RefundIntent, Replay, RefundsMove, stripeVars
<1>2. CASE PaymentServiceNext
  <2>1. ASSUME NEW r, NEW k, NEW key, NEW cred, NEW amount,
               \/ CreatePayment(r, k, amount, cred)
               \/ ConfirmPayment(r, k, key, cred)
               \/ CancelPayment(r, k, key, cred)
        PROVE  UNCHANGED stripe_refunds
    BY <2>1 DEF CreatePayment, ConfirmPayment, CancelPayment, LoadPayment, stripeVars
  <2>2. ASSUME NEW r, CreatePaymentCall(r)
        PROVE  UNCHANGED stripe_refunds
    BY <2>2 DEF CreatePaymentCall, CreateIntent, Replay, stripeVars
  <2>3. ASSUME NEW key, NEW pi, ConfirmIntent(key, pi) \/ CancelIntent(key, pi)
        PROVE  UNCHANGED stripe_refunds
    BY <2>3 DEF ConfirmIntent, CancelIntent, Replay, stripeVars
  <2>4. ASSUME NEW r, ConfirmPaymentCall(r) \/ CancelPaymentCall(r)
        PROVE  UNCHANGED stripe_refunds
    BY <2>3, <2>4 DEF ConfirmPaymentCall, CancelPaymentCall
  <2>5. ASSUME NEW r,
               CreatePaymentCommit(r) \/ ConfirmPaymentCommit(r) \/ CancelPaymentCommit(r)
        PROVE  UNCHANGED stripe_refunds
    BY <2>5
       DEF CreatePaymentCommit, ConfirmPaymentCommit, CancelPaymentCommit, Commits, stripeVars
  <2> QED
    BY <1>2, <2>1, <2>2, <2>4, <2>5
       DEF PaymentServiceNext, PaymentServiceStep, RefundsMove
<1>3. CASE RefundServiceNext \/ SessionNext
  BY <1>1, <1>3
     DEF RefundServiceNext, RefundServiceStep, CreateRefund, CreateRefundChecks,
         CreateRefundCommit, Commits, SessionNext, InsertConflicts, RespondFirst, Rollback,
         RefundsMove, stripeVars
<1>4. CASE WebhookServiceNext
  BY <1>4
     DEF WebhookServiceNext, WebhookServiceStep, StoreEvent, FindPayment, LoadRefunds,
         AnswerFirst, AnswerOk, AnswerError, Deliver, HandlerRaises, Drop, HandleEvent,
         HandleNothing, HandlePaymentSucceeded, HandlePaymentFailed, HandlePaymentCanceled,
         HandlePaymentProcessing, HandlePaymentRequiresAction, HandleChargeRefunded,
         HandleDisputeCreated, MarkProcessed, RefundsMove, stripeVars
<1>5. CASE CustomerNext \/ StripeNext
  BY <1>5
     DEF CustomerNext, StripeNext, CustomerPays, BankSettles, OperatorCancels, DisputeOpens,
         RefundSettles, RefundsMove
<1>6. CASE UNCHANGED vars
  BY <1>6 DEF vars, stripeVars, RefundsMove
<1> QED
  BY <1>2, <1>3, <1>4, <1>5, <1>6 DEF Next

\* A new intent has no refunds, and an old one keeps its amount.
LEMMA CoveredUnlessRefunded ==
  ASSUME Inv, Inv', IntentsStay, ChargesCovered, UNCHANGED stripe_refunds
  PROVE  ChargesCovered'
<1> SUFFICES ASSUME NEW pi \in Intents, intents'[pi] # None
             PROVE  Refunded(pi)' <= intents'[pi].amount
  BY DEF ChargesCovered
<1>1. Refunded(pi)' = Refunded(pi)
  BY DEF Refunded, RefundsOf, AmountOf
<1>2. CASE intents[pi] # None
  BY <1>1, <1>2 DEF ChargesCovered, IntentsStay
<1>3. CASE intents[pi] = None
  <2>1. RefundsOf(pi) = {}
    BY <1>3 DEF Inv, ChargesSound, RefundsOf
  <2>2. DOMAIN Given(Unfailed(pi)) = {}
    BY <2>1 DEF Given, Unfailed
  <2>3. Refunded(pi) = 0
    BY <2>2, TotalOfNone, SummandsAre DEF Summands
  <2>4. intents'[pi].amount \in Nat
    BY AmountsArePositive DEF Inv, TypeOK, StripeTypeOK, PaymentIntents
  <2> QED
    BY <1>1, <2>3, <2>4
<1> QED
  BY <1>2, <1>3

\* A refund that fails gives its amount back to the charge.
LEMMA CoveredWhenSettled ==
  ASSUME Inv, Inv', ChargesCovered, UNCHANGED intents, NEW x \in RefundIds, RefundSettles(x)
  PROVE  ChargesCovered'
<1> SUFFICES ASSUME NEW pi \in Intents, intents[pi] # None
             PROVE  Refunded(pi)' <= intents[pi].amount
  BY DEF ChargesCovered
<1>1. PICK status \in Undone \cup {"succeeded"} :
        stripe_refunds' = [stripe_refunds EXCEPT ![x].status = status]
  BY DEF RefundSettles
<1> DEFINE settled == [stripe_refunds[x] EXCEPT !.status = status]
<1>2. /\ stripe_refunds[x] # None /\ stripe_refunds[x].status \in Unsettled
      /\ stripe_refunds \in [RefundIds -> Refunds \cup {None}]
  BY DEF RefundSettles, Inv, TypeOK, StripeTypeOK
<1>3. settled.pi = stripe_refunds[x].pi /\ settled.amount = stripe_refunds[x].amount
  BY <1>2 DEF Refunds
<1>4. stripe_refunds' = [stripe_refunds EXCEPT ![x] = settled]
  BY <1>1
<1> HIDE DEF settled
<1>5. \A y \in RefundIds : stripe_refunds'[y] # None =>
        /\ stripe_refunds[y] # None
        /\ stripe_refunds'[y].pi = stripe_refunds[y].pi
        /\ stripe_refunds'[y].amount = stripe_refunds[y].amount
        /\ stripe_refunds'[y].status = stripe_refunds[y].status
             \/ stripe_refunds[y].status \in Unsettled
  BY <1>2, <1>3, <1>4
<1>6. PICK before : before = Unfailed(pi)
  OBVIOUS
<1>7. PICK after : after = Unfailed(pi)'
  OBVIOUS
<1>8. PICK f : f = Given(before)
  OBVIOUS
<1>9. PICK g : g = [y \in after |-> stripe_refunds'[y].amount]
  OBVIOUS
<1>10. /\ IsFiniteSet(before) /\ f \in [before -> Nat]
       /\ Refunded(pi) = Total(f) /\ Refunded(pi) \in Nat
  BY <1>6, <1>8, SummandsAre DEF Summands
<1>11. g \in [after -> Nat] /\ Refunded(pi)' = Total(g) /\ Refunded(pi)' \in Nat
  BY <1>7, <1>9, SummandsStay DEF Summands, Given
<1>12. after \subseteq before
  BY <1>5, <1>6, <1>7 DEF Unfailed, RefundsOf, Unsettled, Undone
<1>13. \A y \in after : g[y] <= f[y]
  <2>1. ASSUME NEW y \in after
        PROVE  g[y] = f[y]
    BY <1>5, <1>7, <1>8, <1>9, <1>12, <2>1 DEF Given, Unfailed, RefundsOf
  <2> QED
    BY <1>11, <2>1
<1>14. Total(g) <= Total(f)
  BY <1>10, <1>11, <1>12, <1>13, TotalGrows
<1>15. Refunded(pi) <= intents[pi].amount /\ intents[pi].amount \in Nat
  BY AmountsArePositive DEF ChargesCovered, Inv, TypeOK, StripeTypeOK, PaymentIntents
<1> QED
  BY <1>10, <1>11, <1>14, <1>15

\* Stripe makes a refund only of what is left of the charge.
LEMMA CoveredWhenRefunded ==
  ASSUME Inv, Inv', ChargesCovered, UNCHANGED intents, NEW pi \in Intents, NEW amount \in Int,
         NEW x \in RefundIds, NEW status \in Unsettled \cup {"succeeded"},
         NewRefund(pi, amount, x, status)
  PROVE  ChargesCovered'
<1>1. /\ amount \in Nat
      /\ stripe_refunds[x] = None /\ stripe_refunds'[x] # None
      /\ stripe_refunds'[x].pi = pi /\ stripe_refunds'[x].amount = amount
      /\ stripe_refunds'[x].status = status
      /\ \A y \in RefundIds \ {x} : stripe_refunds'[y] = stripe_refunds[y]
  BY NewRefundOf
<1>2. ASSUME NEW o \in Intents \ {pi}
      PROVE  Refunded(o)' = Refunded(o)
  <2>1. PICK some : some = Unfailed(o)
    OBVIOUS
  <2>2. x \notin some /\ some \subseteq RefundIds
    BY <1>1, <2>1 DEF Unfailed, RefundsOf
  <2>3. Unfailed(o)' = some
    BY <1>1, <2>1, <2>2 DEF Unfailed, RefundsOf
  <2>4. [y \in some |-> stripe_refunds'[y].amount] = [y \in some |-> stripe_refunds[y].amount]
    BY <1>1, <2>2
  <2> QED
    BY <2>1, <2>3, <2>4, SummandsAre, SummandsStay DEF Summands, Given
<1>3. Refunded(pi)' <= intents[pi].amount
  <2>1. PICK before : before = Unfailed(pi)
    OBVIOUS
  <2>2. PICK f : f = Given(before)
    OBVIOUS
  <2>3. PICK g : g = [y \in before \cup {x} |-> stripe_refunds'[y].amount]
    OBVIOUS
  <2>4. IsFiniteSet(before) /\ f \in [before -> Nat] /\ Refunded(pi) = Total(f)
    BY <2>1, <2>2, SummandsAre DEF Summands
  <2>5. x \notin before /\ before \subseteq RefundIds
    BY <1>1, <2>1 DEF Unfailed, RefundsOf
  <2>6. Unfailed(pi)' = before \cup {x}
    BY <1>1, <2>1, <2>5 DEF Unfailed, RefundsOf, Unsettled, Undone
  <2>7. g \in [before \cup {x} -> Nat] /\ Refunded(pi)' = Total(g)
    BY <2>3, <2>6, SummandsStay DEF Summands, Given
  <2>8. \A y \in before : g[y] = f[y]
    BY <1>1, <2>2, <2>3, <2>5 DEF Given
  <2>9. Total(g) = Total(f) + g[x]
    BY <2>4, <2>5, <2>7, <2>8, TotalAdds
  <2>10. g[x] = amount
    BY <1>1, <2>3
  <2> QED
    BY <2>4, <2>7, <2>9, <2>10 DEF NewRefund, Refundable
<1> QED
  BY <1>2, <1>3 DEF ChargesCovered

LEMMA ChargesCoveredNext ==
  ASSUME Inv, Inv', RecordsInv, ChargesCovered, [Next]_vars
  PROVE  ChargesCovered'
<1>1. IntentsStay
  BY EveryStepKeeps DEF RecordsInv, StripeKeeps, ObjectsStay
<1> QED
  BY <1>1, RefundsChange, CoveredUnlessRefunded, CoveredWhenSettled, CoveredWhenRefunded
     DEF RefundsMove

LEMMA RefundsAnnouncedNext ==
  ASSUME Inv, Inv', RecordsInv, RefundsAnnounced, [Next]_vars
  PROVE  RefundsAnnounced'
<1> SUFFICES ASSUME NEW e \in DOMAIN events', events'[e].type = "charge.refunded",
                    NEW pi, pi = events'[e].pi
             PROVE  RefundsOf(pi)' # {}
  BY DEF RefundsAnnounced, RefundsOf
<1>1. EventsName /\ RefundsStay
  BY StepNames, EveryStepKeeps DEF RecordsInv, StripeKeeps, ObjectsStay
<1>2. CASE e \in DOMAIN events
  <2>1. events'[e] = events[e]
    BY <1>1, <1>2 DEF EventsName
  <2> QED
    BY <1>1, <1>2, <2>1 DEF RefundsAnnounced, RefundsOf, RefundsStay
<1>3. CASE e \notin DOMAIN events
  BY <1>1, <1>3 DEF EventsName, RefundAfter, RefundsOf
<1> QED
  BY <1>2, <1>3
-------------------------------------------------------------------------------
(***************************************************************************)
(* What a delivery holds of the payment it found is still so: rows keep    *)
(* their amount, and a total read once is part of what is settled since.   *)
(***************************************************************************)
\* The delivery has read no more than before.
NoNewTotal(w, state) ==
  /\ state.event = hook[w].event /\ state.pay = hook[w].pay
  /\ state.row = hook[w].row /\ state.total = hook[w].total
  /\ \/ state.pc \notin {"loaded", "answered"}
     \/ hook[w].pc \in {"loaded", "answered"}
     \/ EventAt(w).type # "charge.refunded"

LEMMA OldTotal ==
  ASSUME Inv, Inv', RecordsInv, NEW w \in Workers, RowTotalled(w), [Next]_vars,
         NoNewTotal(w, hook'[w])
  PROVE  RowTotalled(w)'
<1> SUFFICES ASSUME hook[w].pay # None
             PROVE  RowTotalled(w)'
  BY DEF RowTotalled, NoNewTotal
<1>1. /\ hook[w].event \in DOMAIN events
      /\ LoadedSound(hook[w].pay, hook[w].row) /\ hook[w] \in DeliveryStates
  BY DEF Inv, TypeOK, DeliverySound
<1>2. hook[w].pay \in IdemKeys /\ payments[hook[w].pay] # None /\ hook[w].total \in Nat
  BY <1>1 DEF LoadedSound, DeliveryStates
<1>3. EventsName /\ RowsStay /\ RefundsStay
  BY StepNames, PaymentRowsKept, EveryStepKeeps DEF RecordsInv, StripeKeeps, ObjectsStay
<1>4. EventAt(w)' = EventAt(w)
  BY <1>1, <1>3 DEF EventsName, EventAt, NoNewTotal
<1>5. PICK pi \in Intents : pi = EventAt(w).pi
  <2>1. EventAt(w) \in Events
    BY <1>1 DEF EventAt, Inv, TypeOK, StripeTypeOK
  <2> QED
    BY <2>1 DEF Events
<1>6. payments'[hook[w].pay].amount = payments[hook[w].pay].amount
  BY <1>2, <1>3 DEF RowsStay
<1>7. Settled(pi) \in Nat /\ Settled(pi)' \in Nat /\ Settled(pi) <= Settled(pi)'
  BY <1>3, SettledGrows
<1>8. /\ hook[w].row.amount = payments[hook[w].pay].amount
      /\ EventAt(w).type = "charge.refunded" /\ hook[w].pc \in {"loaded", "answered"}
           => hook[w].total <= Settled(pi)
  BY <1>5 DEF RowTotalled
<1>9. /\ EventAt(w).type = "charge.refunded" /\ hook'[w].pc \in {"loaded", "answered"}
           => hook[w].total <= Settled(pi)'
  BY <1>2, <1>7, <1>8 DEF NoNewTotal
<1>10. Settled(EventAt(w).pi)' = Settled(pi)'
  BY <1>4, <1>5
<1> QED
  BY <1>4, <1>6, <1>8, <1>9, <1>10 DEF RowTotalled, NoNewTotal

LEMMA RowsTotalledNext ==
  ASSUME Inv, Inv', RecordsInv, \A w \in Workers : RowTotalled(w), [Next]_vars
  PROVE  \A w \in Workers : RowTotalled(w)'
<1>1. ASSUME NEW w \in Workers, hook'[w] = hook[w]
      PROVE  RowTotalled(w)'
  BY <1>1, OldTotal DEF NoNewTotal
<1>2. ASSUME NEW w \in Workers, NEW state, hook' = [hook EXCEPT ![w] = state],
             hook'[w] = state => RowTotalled(w)'
      PROVE  \A o \in Workers : RowTotalled(o)'
  <2>1. hook'[w] = state /\ \A o \in Workers \ {w} : hook'[o] = hook[o]
    BY <1>2 DEF Inv, TypeOK
  <2>2. ASSUME NEW o \in Workers
        PROVE  RowTotalled(o)'
    BY <1>1, <1>2, <2>1
  <2> QED
    BY <2>2
<1>3. ASSUME NEW w \in Workers, NEW pc, Goto(w, pc),
             \/ pc \notin {"loaded", "answered"}
             \/ hook[w].pc \in {"loaded", "answered"}
             \/ hook[w].pay # None => EventAt(w).type # "charge.refunded"
      PROVE  \A o \in Workers : RowTotalled(o)'
  <2> DEFINE state == [hook[w] EXCEPT !.pc = pc]
  <2>1. hook[w] \in DeliveryStates
    BY DEF Inv, TypeOK
  <2>2. /\ state.pc = pc /\ state.pay = hook[w].pay /\ state.row = hook[w].row
        /\ state.total = hook[w].total /\ state.event = hook[w].event
    BY <2>1 DEF DeliveryStates
  <2>3. hook' = [hook EXCEPT ![w] = state]
    BY <1>3 DEF Goto
  <2> HIDE DEF state
  <2>4. ASSUME hook'[w] = state
        PROVE  RowTotalled(w)'
    <3>1. CASE hook[w].pay = None
      BY <2>2, <2>4, <3>1 DEF RowTotalled
    <3>2. CASE hook[w].pay # None
      <4>1. NoNewTotal(w, hook'[w])
        BY <1>3, <2>2, <2>4, <3>2 DEF NoNewTotal
      <4> QED
        BY <4>1, OldTotal
    <3> QED
      BY <3>1, <3>2
  <2> QED
    BY <1>2, <2>3, <2>4
<1>4. ASSUME NEW w \in Workers, NEW state, state.pay = None, hook' = [hook EXCEPT ![w] = state]
      PROVE  \A o \in Workers : RowTotalled(o)'
  <2>1. hook'[w] = state => RowTotalled(w)'
    BY <1>4 DEF RowTotalled
  <2> QED
    BY <1>2, <1>4, <2>1
<1>5. ASSUME NEW w \in Workers, Release(w)
      PROVE  \A o \in Workers : RowTotalled(o)'
  <2>1. PICK state : state = Waiting
    OBVIOUS
  <2>2. state.pay = None
    BY <2>1 DEF Waiting
  <2> QED
    BY <1>4, <1>5, <2>1, <2>2 DEF Release
<1>6. ASSUME NEW w \in Workers, NEW e, Deliver(w, e)
      PROVE  \A o \in Workers : RowTotalled(o)'
  <2> DEFINE state == [Waiting EXCEPT !.event = e,
                                      !.pc = IF Processed(e) THEN "handled"
                                             ELSE IF Stored(e) THEN "stored" ELSE "new"]
  <2>1. state.pay = None
    BY DEF Waiting
  <2>2. hook' = [hook EXCEPT ![w] = state]
    BY <1>6 DEF Deliver
  <2> HIDE DEF state
  <2> QED
    BY <1>4, <2>1, <2>2
<1>7. ASSUME NEW w \in Workers, LoadRefunds(w)
      PROVE  \A o \in Workers : RowTotalled(o)'
  <2>1. hook[w].pc = "found" /\ hook[w].event \in DOMAIN events
    BY <1>7, LoadsTotal DEF RecordsInv
  <2>2. PICK total \in Nat :
          /\ total = RefundedAmount(hook[w].pay, {})
          /\ hook' = [hook EXCEPT ![w] =
               [hook[w] EXCEPT !.pc = "loaded", !.total = total, !.refund = None]]
    BY <1>7, LoadsTotal DEF RecordsInv
  <2>3. /\ hook[w] \in DeliveryStates /\ hook[w].pay # None
        /\ LoadedSound(hook[w].pay, hook[w].row)
        /\ hook[w].row.external_id = EventAt(w).pi
    BY <2>1 DEF Inv, TypeOK, DeliverySound
  <2>4. /\ hook[w].pay \in IdemKeys /\ payments[hook[w].pay] # None
        /\ payments[hook[w].pay].external_id = EventAt(w).pi
    BY <2>3 DEF DeliveryStates, LoadedSound
  <2>5. total <= Settled(EventAt(w).pi)
    BY <2>2, <2>4, RowsAreSettled
  <2> DEFINE state == [hook[w] EXCEPT !.pc = "loaded", !.total = total, !.refund = None]
  <2>6. /\ state.pay = hook[w].pay /\ state.row = hook[w].row
        /\ state.event = hook[w].event /\ state.total = total
    BY <2>3 DEF DeliveryStates
  <2>7. hook' = [hook EXCEPT ![w] = state]
    BY <2>2
  <2> HIDE DEF state
  <2>8. UNCHANGED <<payments, events, stripe_refunds>>
    BY <1>7 DEF LoadRefunds, dbVars, stripeVars
  <2>9. ASSUME hook'[w] = state
        PROVE  RowTotalled(w)'
    <3>1. EventAt(w)' = EventAt(w)
      BY <2>6, <2>8, <2>9 DEF EventAt
    <3>2. PICK pi : pi = EventAt(w).pi
      OBVIOUS
    <3>3. Settled(pi)' = Settled(pi)
      BY <2>8 DEF Settled, RefundsOf, AmountOf
    <3>4. Settled(EventAt(w).pi)' = Settled(pi)'
      BY <3>1, <3>2
    <3>5. hook[w].row.amount = payments[hook[w].pay].amount
      BY <2>3 DEF RowTotalled
    <3> QED
      BY <2>5, <2>6, <2>8, <2>9, <3>2, <3>3, <3>4, <3>5 DEF RowTotalled
  <2> QED
    BY <1>2, <2>7, <2>9
<1>8. ASSUME NEW w \in Workers, FindPayment(w)
      PROVE  \A o \in Workers : RowTotalled(o)'
  <2>1. hook[w].pc = "stored" /\ hook[w].event \in DOMAIN events /\ hook[w] \in DeliveryStates
    BY <1>8 DEF FindPayment, Inv, TypeOK, DeliverySound
  <2>2. ASSUME EventAt(w).type = "charge.refunded", PaymentsOf(EventAt(w).pi) = {}
        PROVE  hook[w].pay = None
    <3>1. hook[w].pay # None => hook[w].pay \in PaymentsOf(EventAt(w).pi)
      BY <2>1 DEF Inv, DeliverySound, LoadedSound, PaymentsOf, DeliveryStates
    <3> QED
      BY <2>2, <3>1
  <2>3. CASE Goto(w, "loaded") /\ (EventAt(w).type \in Handlers => PaymentsOf(EventAt(w).pi) = {})
    <3>1. hook[w].pay # None => EventAt(w).type # "charge.refunded"
      BY <2>2, <2>3 DEF Handlers
    <3> QED
      BY <1>3, <2>3, <3>1
  <2>4. ASSUME NEW k \in IdemKeys,
               hook' = [hook EXCEPT
                 ![w].pc = IF EventAt(w).type = "charge.refunded" THEN "found" ELSE "loaded",
                 ![w].pay = k, ![w].row = payments[k]]
        PROVE  \A o \in Workers : RowTotalled(o)'
    <3> DEFINE state == [hook[w] EXCEPT
                           !.pc = IF EventAt(w).type = "charge.refunded" THEN "found"
                                  ELSE "loaded",
                           !.pay = k, !.row = payments[k]]
    <3>1. /\ state.pay = k /\ state.row = payments[k] /\ state.event = hook[w].event
          /\ EventAt(w).type = "charge.refunded" => state.pc = "found"
      BY <2>1 DEF DeliveryStates
    <3>2. hook' = [hook EXCEPT ![w] = state]
      BY <2>4
    <3> HIDE DEF state
    <3>3. UNCHANGED <<payments, events>>
      BY <1>8 DEF FindPayment, dbVars, stripeVars
    <3>4. ASSUME hook'[w] = state
          PROVE  RowTotalled(w)'
      <4>1. EventAt(w)' = EventAt(w)
        BY <3>1, <3>3, <3>4 DEF EventAt
      <4> QED
        BY <3>1, <3>3, <3>4, <4>1 DEF RowTotalled
    <3> QED
      BY <1>2, <3>2, <3>4
  <2> QED
    BY <1>8, <2>3, <2>4 DEF FindPayment, PaymentsOf
<1>9. ASSUME NEW w \in Workers, HandleEvent(w)
      PROVE  \A o \in Workers : RowTotalled(o)'
  <2>1. Release(w) \/ Goto(w, "handled")
    BY <1>9
       DEF HandleEvent, HandleNothing, HandlePaymentSucceeded, HandlePaymentFailed,
           HandlePaymentCanceled, HandlePaymentProcessing, HandlePaymentRequiresAction,
           HandleChargeRefunded, HandleDisputeCreated, MarkProcessed
  <2> QED
    BY <1>3, <1>5, <2>1
<1>10. CASE WebhookServiceNext
  BY <1>3, <1>5, <1>6, <1>7, <1>8, <1>9, <1>10
     DEF WebhookServiceNext, WebhookServiceStep, StoreEvent, AnswerFirst, AnswerOk,
         AnswerError, HandlerRaises, Drop
<1>11. CASE UNCHANGED hook
  BY <1>1, <1>11
<1> QED
  BY <1>10, <1>11 DEF Next, vars, hookVars
-------------------------------------------------------------------------------
(***************************************************************************)
(* A status that speaks of refunds: only _handle_charge_refunded writes it.*)
(***************************************************************************)
RefundClaims == {"refunded", "partially_refunded"}

NoNewClaim ==
  \A k \in IdemKeys : payments'[k] # None /\ payments'[k].status \in RefundClaims =>
    payments[k] # None /\ payments'[k].status = payments[k].status

LEMMA FlushWritesStatus ==
  ASSUME Inv, NEW k \in IdemKeys, NEW loaded \in PaymentRows, NEW new \in PaymentRows,
         LoadedSound(k, loaded), Flush(k, loaded, new)
  PROVE  /\ payments'[k].status \in {payments[k].status, new.status}
         /\ \A o \in IdemKeys \ {k} : payments'[o] = payments[o]
<1> DEFINE old == payments[k]
           written == [c \in DOMAIN old |-> IF new[c] # loaded[c] THEN new[c] ELSE old[c]]
<1>1. old \in PaymentRows /\ payments \in [IdemKeys -> PaymentRows \cup {None}]
  BY DEF Inv, TypeOK, DatabaseTypeOK, LoadedSound
<1>2. written.status \in {old.status, new.status}
  BY <1>1 DEF PaymentRows
<1>3. payments' = [payments EXCEPT ![k] = written]
  BY DEF Flush
<1> HIDE DEF written
<1> QED
  BY <1>1, <1>2, <1>3

LEMMA FlushClaimsNothing ==
  ASSUME Inv, NEW k \in IdemKeys, NEW loaded \in PaymentRows, NEW new \in PaymentRows,
         LoadedSound(k, loaded), Flush(k, loaded, new), new.status \notin RefundClaims
  PROVE  NoNewClaim
BY FlushWritesStatus DEF NoNewClaim, LoadedSound

\* Nothing that Stripe says of an intent is read as a refund.
LEMMA MapClaimsNothing ==
  \A status \in IntentStates : /\ STRIPE_PAYMENT_STATUS_MAP[status] \in Statuses
                              /\ STRIPE_PAYMENT_STATUS_MAP[status] \notin RefundClaims
BY DEF STRIPE_PAYMENT_STATUS_MAP, IntentStates, Successors, Statuses, RefundClaims

LEMMA CommitClaimsNothing ==
  ASSUME Inv, RecordsInv, NEW r \in Requests,
         \/ CreatePaymentCommit(r) \/ ConfirmPaymentCommit(r)
         \/ CancelPaymentCommit(r) \/ CreateRefundCommit(r)
  PROVE  NoNewClaim
<1> DEFINE row == req[r].row
           status == STRIPE_PAYMENT_STATUS_MAP[req[r].ans.status]
<1>1. CASE CreatePaymentCommit(r)
  <2> DEFINE new == [external_id |-> req[r].ans.pi, status |-> status,
                     amount |-> req[r].ans.amount, confirmed_at |-> FALSE,
                     canceled_at |-> FALSE, failure_code |-> FALSE]
  <2>1. req[r].ans.status = "requires_payment_method"
    BY <1>1, Committing DEF CreatePaymentCommit, AnswerSound
  <2>2. new.status \notin RefundClaims
    BY <2>1, MapClaimsNothing DEF IntentStates, Successors
  <2>3. payments' = [payments EXCEPT ![req[r].pay] = new]
    BY <1>1 DEF CreatePaymentCommit
  <2> HIDE DEF new
  <2> QED
    BY <2>2, <2>3 DEF NoNewClaim, Inv, TypeOK, DatabaseTypeOK
<1>2. ASSUME ConfirmPaymentCommit(r) \/ CancelPaymentCommit(r)
      PROVE  /\ req[r].pay \in IdemKeys /\ row \in PaymentRows
             /\ LoadedSound(req[r].pay, row)
             /\ status \in Statuses /\ status \notin RefundClaims
  <2>1. /\ req[r].pay \in IdemKeys /\ row \in PaymentRows /\ LoadedSound(req[r].pay, row)
        /\ req[r].ans.status \in IntentStates
    BY <1>2, Committing, Holding
       DEF ConfirmPaymentCommit, CancelPaymentCommit, AnswerSound, IntentStates, Successors
  <2> QED
    BY <2>1, MapClaimsNothing
<1>3. CASE ConfirmPaymentCommit(r)
  <2> DEFINE new == [row EXCEPT !.status = status,
                                !.confirmed_at = @ \/ status = "succeeded",
                                !.failure_code = FALSE]
  <2>1. /\ req[r].pay \in IdemKeys /\ row \in PaymentRows /\ LoadedSound(req[r].pay, row)
        /\ status \in Statuses /\ status \notin RefundClaims
    BY <1>2, <1>3
  <2>2. Flush(req[r].pay, row, new)
    BY <1>3 DEF ConfirmPaymentCommit
  <2> HIDE DEF row, status
  <2>3. new \in PaymentRows /\ new.status = status
    BY <2>1 DEF PaymentRows
  <2> HIDE DEF new
  <2> QED
    BY <2>1, <2>2, <2>3, FlushClaimsNothing
<1>4. CASE CancelPaymentCommit(r)
  <2> DEFINE new == [row EXCEPT !.status = status, !.canceled_at = TRUE]
  <2>1. /\ req[r].pay \in IdemKeys /\ row \in PaymentRows /\ LoadedSound(req[r].pay, row)
        /\ status \in Statuses /\ status \notin RefundClaims
    BY <1>2, <1>4
  <2>2. Flush(req[r].pay, row, new)
    BY <1>4 DEF CancelPaymentCommit
  <2> HIDE DEF row, status
  <2>3. new \in PaymentRows /\ new.status = status
    BY <2>1 DEF PaymentRows
  <2> HIDE DEF new
  <2> QED
    BY <2>1, <2>2, <2>3, FlushClaimsNothing
<1>5. CASE CreateRefundCommit(r)
  BY <1>5 DEF CreateRefundCommit, NoNewClaim
<1> QED
  BY <1>1, <1>3, <1>4, <1>5

LEMMA HandleEventClaims ==
  ASSUME Inv, NEW w \in Workers, HandleEvent(w)
  PROVE  NoNewClaim \/ HandleChargeRefunded(w)
<1> DEFINE row == hook[w].row
<1>1. ASSUME NEW type, Handling(w, type), NEW target, NEW new \in PaymentRows,
             new.status \notin RefundClaims, Apply(w, target, new)
      PROVE  NoNewClaim
  <2>1. UNCHANGED payments \/ Flush(hook[w].pay, row, new)
    BY <1>1 DEF Apply
  <2>2. UNCHANGED payments => NoNewClaim
    BY DEF NoNewClaim
  <2> QED
    BY <1>1, <2>1, <2>2, HandlingSound, FlushClaimsNothing
<1>2. ASSUME NEW type, Handling(w, type)
      PROVE  /\ \A status \in Statuses : /\ [row EXCEPT !.status = status] \in PaymentRows
                                        /\ [row EXCEPT !.status = status].status = status
             /\ LET new == [row EXCEPT !.status = "succeeded", !.confirmed_at = TRUE]
                IN  new \in PaymentRows /\ new.status = "succeeded"
             /\ LET new == [row EXCEPT !.status = "failed", !.failure_code = TRUE]
                IN  new \in PaymentRows /\ new.status = "failed"
             /\ LET new == [row EXCEPT !.status = "canceled", !.canceled_at = TRUE]
                IN  new \in PaymentRows /\ new.status = "canceled"
  <2>1. row \in PaymentRows
    BY <1>2, HandlingSound
  <2> QED
    BY <2>1 DEF PaymentRows, Statuses
<1>3. CASE HandlePaymentSucceeded(w)
  <2> DEFINE new == [row EXCEPT !.status = "succeeded", !.confirmed_at = TRUE]
  <2>1. Handling(w, "payment_intent.succeeded") /\ Apply(w, "succeeded", new)
    BY <1>3 DEF HandlePaymentSucceeded
  <2>2. new \in PaymentRows /\ new.status \notin RefundClaims
    BY <1>2, <2>1 DEF RefundClaims
  <2> HIDE DEF new
  <2> QED
    BY <1>1, <2>1, <2>2
<1>4. CASE HandlePaymentFailed(w)
  <2> DEFINE new == [row EXCEPT !.status = "failed", !.failure_code = TRUE]
  <2>1. Handling(w, "payment_intent.payment_failed") /\ Apply(w, "failed", new)
    BY <1>4 DEF HandlePaymentFailed
  <2>2. new \in PaymentRows /\ new.status \notin RefundClaims
    BY <1>2, <2>1 DEF RefundClaims
  <2> HIDE DEF new
  <2> QED
    BY <1>1, <2>1, <2>2
<1>5. CASE HandlePaymentCanceled(w)
  <2> DEFINE new == [row EXCEPT !.status = "canceled", !.canceled_at = TRUE]
  <2>1. Handling(w, "payment_intent.canceled") /\ Apply(w, "canceled", new)
    BY <1>5 DEF HandlePaymentCanceled
  <2>2. new \in PaymentRows /\ new.status \notin RefundClaims
    BY <1>2, <2>1 DEF RefundClaims
  <2> HIDE DEF new
  <2> QED
    BY <1>1, <2>1, <2>2
<1>6. ASSUME NEW type, Handling(w, type), NEW status \in Statuses \ RefundClaims,
             Apply(w, status, [row EXCEPT !.status = status])
      PROVE  NoNewClaim
  BY <1>1, <1>2, <1>6
<1>7. CASE HandlePaymentProcessing(w) \/ HandlePaymentRequiresAction(w)
           \/ HandleDisputeCreated(w)
  BY <1>6, <1>7
     DEF HandlePaymentProcessing, HandlePaymentRequiresAction, HandleDisputeCreated, Statuses,
         RefundClaims
<1>8. CASE HandleNothing(w)
  BY <1>8 DEF HandleNothing, NoNewClaim
<1> QED
  BY <1>3, <1>4, <1>5, <1>7, <1>8 DEF HandleEvent

LEMMA StepClaims ==
  ASSUME Inv, RecordsInv, [Next]_vars
  PROVE  NoNewClaim \/ \E w \in Workers : HandleChargeRefunded(w)
<1>1. UNCHANGED payments => NoNewClaim
  BY DEF NoNewClaim
<1>2. ASSUME NEW r \in Requests, RequestKinds(r)
      PROVE  NoNewClaim
  BY <1>1, <1>2, CommitClaimsNothing
     DEF RequestKinds, Begins, CallsProvider, CreateRefundChecks, RespondFirst, EndsUnrecorded,
         dbVars
<1>3. CASE PaymentServiceNext \/ RefundServiceNext \/ SessionNext
  BY <1>2, <1>3, RequestStepKinds DEF RecordsInv
<1>4. CASE WebhookServiceNext
  BY <1>1, <1>4, HandleEventClaims
     DEF WebhookServiceNext, WebhookServiceStep, StoreEvent, FindPayment, LoadRefunds,
         AnswerFirst, AnswerOk, AnswerError, Deliver, HandlerRaises, Drop, dbVars
<1> QED
  BY <1>1, <1>3, <1>4 DEF Next, vars, dbVars

\* A refunded status is written from a total that was part of what is settled.
LEMMA RefundStatusNext ==
  ASSUME Inv, Inv', RecordsInv, TotalsInv, [Next]_vars
  PROVE  RefundStatusSound'
<1>1. RowsStay /\ RefundsStay
  BY PaymentRowsKept, EveryStepKeeps DEF RecordsInv, StripeKeeps, ObjectsStay
<1> SUFFICES ASSUME NEW k \in IdemKeys, payments'[k] # None
             PROVE  /\ payments'[k].status = "refunded" =>
                         Settled(payments[k].external_id)' >= payments'[k].amount
                    /\ payments'[k].status = "partially_refunded" =>
                         RefundsOf(payments[k].external_id)' # {}
  BY DEF RefundStatusSound
<1>2. PICK pi \in Intents : pi = payments'[k].external_id
  BY DEF Inv, TypeOK, DatabaseTypeOK, PaymentRows
<1>3. /\ Settled(pi) \in Nat /\ Settled(pi)' \in Nat /\ Settled(pi) <= Settled(pi)'
      /\ RefundsOf(pi) # {} => RefundsOf(pi)' # {}
  BY <1>1, SettledGrows
<1>4. /\ Settled(payments[k].external_id)' = Settled(pi)'
      /\ RefundsOf(payments[k].external_id)' = RefundsOf(pi)'
  BY <1>2
<1>5. payments'[k].amount \in Nat
  BY AmountsArePositive DEF Inv, TypeOK, DatabaseTypeOK, PaymentRows
<1> SUFFICES /\ payments'[k].status = "refunded" => Settled(pi) >= payments'[k].amount
             /\ payments'[k].status = "partially_refunded" => RefundsOf(pi) # {}
  BY <1>3, <1>4, <1>5
<1>6. CASE payments[k] # None /\ payments'[k].status = payments[k].status
  BY <1>1, <1>2, <1>6 DEF RowsStay, TotalsInv, RefundStatusSound
<1>7. CASE payments'[k].status \notin RefundClaims
  BY <1>7 DEF RefundClaims
<1>8. ASSUME NEW w \in Workers, HandleChargeRefunded(w),
             ~(payments[k] # None /\ payments'[k].status = payments[k].status)
      PROVE  /\ payments'[k].status = "refunded" => Settled(pi) >= payments'[k].amount
             /\ payments'[k].status = "partially_refunded" => RefundsOf(pi) # {}
  <2> DEFINE row == hook[w].row
             status == IF hook[w].total >= row.amount THEN "refunded" ELSE "partially_refunded"
             new == [row EXCEPT !.status = status]
  <2>1. /\ Handling(w, "charge.refunded") /\ Apply(w, status, new)
        /\ EventAt(w).type = "charge.refunded" /\ hook[w].pay # None
    BY <1>8 DEF HandleChargeRefunded, Handling
  <2>2. /\ hook[w].pc \in {"loaded", "answered"} /\ hook[w].pay \in IdemKeys
        /\ row \in PaymentRows /\ LoadedSound(hook[w].pay, row)
    BY <2>1, HandlingSound
  <2>3. hook[w].event \in DOMAIN events /\ row.external_id = EventAt(w).pi
    BY <2>1 DEF Inv, DeliverySound
  <2>4. status \in Statuses /\ new \in PaymentRows /\ new.status = status
    BY <2>2 DEF PaymentRows, Statuses
  <2>5. Flush(hook[w].pay, row, new)
    BY <1>8, <2>1 DEF Apply
  <2> HIDE DEF new
  <2>6. k = hook[w].pay /\ payments'[k].status = status
    BY <1>8, <2>2, <2>4, <2>5, FlushWritesStatus DEF LoadedSound
  <2>7. payments'[k].amount = row.amount /\ EventAt(w).pi = pi
    BY <1>1, <1>2, <2>1, <2>2, <2>3, <2>6 DEF RowsStay, LoadedSound, TotalsInv, RowTotalled
  <2>8. hook[w].total <= Settled(pi) /\ hook[w].total \in Nat
    BY <2>1, <2>2, <2>7 DEF TotalsInv, RowTotalled, Inv, TypeOK, DeliveryStates
  <2>9. RefundsOf(pi) # {}
    BY <2>1, <2>3, <2>7 DEF TotalsInv, RefundsAnnounced, EventAt
  <2> QED
    BY <1>3, <1>5, <2>6, <2>7, <2>8, <2>9
<1> QED
  BY <1>6, <1>7, <1>8, StepClaims DEF NoNewClaim

LEMMA TotalsNext == Inv /\ Inv' /\ RecordsInv /\ TotalsInv /\ [Next]_vars => TotalsInv'
<1> SUFFICES ASSUME Inv, Inv', RecordsInv, TotalsInv, [Next]_vars
             PROVE  TotalsInv'
  OBVIOUS
<1>1. ChargesCovered' /\ RefundsAnnounced'
  BY ChargesCoveredNext, RefundsAnnouncedNext DEF TotalsInv
<1>2. \A w \in Workers : RowTotalled(w)'
  BY RowsTotalledNext DEF TotalsInv
<1> QED
  BY <1>1, <1>2, RefundStatusNext DEF TotalsInv

LEMMA TotalsInit == Init => TotalsInv
BY DEF Init, DbInit, StripeInit, WebhookInit, Waiting, TotalsInv, ChargesCovered,
       RefundsAnnounced, RowTotalled, RefundStatusSound

\* What rows, deliveries and Stripe say of refunds fits together, in whatever
\* order refunds settle, fail and are reported.
THEOREM TotalsFit == Spec => []TotalsInv
<1>1. Inv /\ RecordsInv /\ TotalsInv /\ [Next]_vars => (Inv /\ RecordsInv /\ TotalsInv)'
  BY InvNext, RecordsNext, TotalsNext
<1>2. Spec => [](Inv /\ RecordsInv /\ TotalsInv)
  BY <1>1, InvInit, RecordsInit, TotalsInit, PTL DEF Spec
<1> QED
  BY <1>2, PTL

\* "refunded" only with the whole amount settled, "partially_refunded" only
\* with a refund at all.
THEOREM RefundStatusesSound == Spec => []RefundStatusSound
<1>1. TotalsInv => RefundStatusSound
  BY DEF TotalsInv
<1> QED
  BY <1>1, TotalsFit, PTL

\* Refunds of a payment, however many were checked against one stale total,
\* never add up to more than the payment.
THEOREM RefundsFit == Spec => []RefundsWithinAmount
<1>1. ASSUME Inv, RecordsInv, ChargesCovered
      PROVE  RefundsWithinAmount
  <2> SUFFICES ASSUME NEW k \in IdemKeys, payments[k] # None
               PROVE  RefundedAmount(k, {}) <= payments[k].amount
    BY DEF RefundsWithinAmount
  <2>1. PICK pi \in Intents : pi = payments[k].external_id
    BY <1>1, RowsAreSettled
  <2>2. RefundedAmount(k, {}) \in Nat /\ RefundedAmount(k, {}) <= Settled(pi)
    BY <1>1, <2>1, RowsAreSettled
  <2>3. intents[pi] # None /\ intents[pi].amount = payments[k].amount
    BY <1>1, <2>1 DEF RecordsInv, RowsOfKeys, PaymentOfKey, IntentsOfKeys
  <2>4. /\ Settled(pi) \in Nat /\ Refunded(pi) \in Nat
        /\ Settled(pi) <= Refunded(pi) /\ Refunded(pi) <= intents[pi].amount
    BY <1>1, <2>3, SummandsAre DEF Summands, ChargesCovered
  <2>5. payments[k].amount \in Nat
    BY <1>1, AmountsArePositive DEF Inv, TypeOK, DatabaseTypeOK, PaymentRows
  <2> QED
    BY <2>2, <2>3, <2>4, <2>5
<1>2. TotalsInv => ChargesCovered
  BY DEF TotalsInv
<1> QED
  BY <1>1, <1>2, RecordsAlways, TotalsFit, PTL
===============================================================================
