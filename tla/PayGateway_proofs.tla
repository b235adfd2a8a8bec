-------------------------- MODULE PayGateway_proofs --------------------------
(***************************************************************************)
(* Inv, and so TypeOK and StatusSound, are invariants of the gateway;      *)
(* timestamps are logged and stay; and what its rows say of intents is a   *)
(* record that a merchant may rely on, as PaymentLedger has it: for any    *)
(* numbers of requests, deliveries, keys, intents and events, any faults,  *)
(* and both orders of commit and response.                                 *)
(***************************************************************************)
EXTENDS Steps_proofs, Refinements

(***************************************************************************)
(* Inv is inductive.                                                       *)
(***************************************************************************)
LEMMA StripeStepSound ==
  ASSUME Inv, CustomerNext \/ StripeNext, UNCHANGED <<dbVars, req, hookVars>>
  PROVE  Inv'
<1>1. ASSUME NEW pi \in Intents,
             CustomerPays(pi) \/ BankSettles(pi) \/ OperatorCancels(pi)
      PROVE  OwnStepSound
  BY <1>1, OwnMoveSound DEF CustomerPays, BankSettles, OperatorCancels
<1>2. OwnStepSound
  BY <1>1, DisputeOpensSound, RefundSettlesSound DEF CustomerNext, StripeNext
<1> QED
  BY <1>2, DatabaseKept, RequestsKept, DeliveriesKept, InvParts
     DEF OwnStepSound, StripeSound

LEMMA InvInit == Init => Inv
<1> SUFFICES ASSUME Init
             PROVE  Inv
  OBVIOUS
<1>1. DatabaseTypeOK /\ StatusSound
  BY DEF Init, DbInit, DatabaseTypeOK, StatusSound, EmptyBag, SetToBag
<1>2. StripeTypeOK /\ SavedSound /\ EventsSound /\ ChargesSound
  BY MaxEventsIsNat DEF Init, StripeInit, StripeTypeOK, SavedSound, EventsSound, ChargesSound
<1>3. Idle \in RequestStates /\ Idle.pc = "idle" /\ Idle.op # "create"
  BY OpsAreOps DEF Idle, Begin, RequestStates, Operations
<1>4. Waiting \in DeliveryStates /\ Waiting.pc = "idle" /\ Waiting.pay = None
      /\ Waiting.refund = None
  BY MaxEventsIsNat DEF Waiting, DeliveryStates
<1>5. req \in [Requests -> RequestStates] /\ \A r \in Requests : RequestSound(r)
  BY <1>3 DEF Init, SessionInit, RequestSound, Live
<1>6. /\ hook \in [Workers -> DeliveryStates] /\ faults \in 0 .. MaxFaults
      /\ \A w \in Workers : DeliverySound(w)
  BY <1>4, MaxFaultsIsNat DEF Init, WebhookInit, DeliverySound
<1> QED
  BY <1>1, <1>2, <1>5, <1>6 DEF Inv, TypeOK

LEMMA InvNext == Inv /\ [Next]_vars => Inv'
<1> SUFFICES ASSUME Inv, [Next]_vars
             PROVE  Inv'
  OBVIOUS
<1>1. CASE (PaymentServiceNext \/ RefundServiceNext \/ SessionNext) /\ UNCHANGED hookVars
  BY <1>1, RequestStepSound
<1>2. CASE WebhookServiceNext /\ UNCHANGED req
  BY <1>2, DeliveryStepSound
<1>3. CASE (CustomerNext \/ StripeNext) /\ UNCHANGED <<dbVars, req, hookVars>>
  BY <1>3, StripeStepSound
<1>4. CASE UNCHANGED vars
  BY <1>4, QuietEvolves, DatabaseKept, StripeKept, RequestsKept, DeliveriesKept, InvParts
     DEF vars
<1> QED
  BY <1>1, <1>2, <1>3, <1>4 DEF Next

\* Everything the requests, the deliveries and Stripe may still write is sound,
\* at every point of every interleaving of theirs.
THEOREM Inductive == Spec => []Inv
BY InvInit, InvNext, PTL DEF Spec

\* The tables, the objects at Stripe and what the handlers hold keep their
\* shape, timestamps and amounts included.
THEOREM TypeCorrect == Spec => []TypeOK
<1>1. Inv => TypeOK
  BY DEF Inv
<1> QED
  BY <1>1, Inductive, PTL

\* No payment row ever says that money was taken, or that the payment was given
\* up, when Stripe would say otherwise.
THEOREM StatusCorrect == Spec => []StatusSound
<1>1. Inv => StatusSound
  BY DEF Inv
<1> QED
  BY <1>1, Inductive, PTL
-------------------------------------------------------------------------------
(***************************************************************************)
(* Timestamps.  The handlers set them or leave them as they loaded them,   *)
(* and a flush writes a column only in the first case.                     *)
(***************************************************************************)
LEMMA FlushKeepsTimestamps ==
  ASSUME Inv, NEW k \in IdemKeys, NEW loaded \in PaymentRows, NEW new \in PaymentRows,
         LoadedSound(k, loaded), Flush(k, loaded, new),
         loaded.confirmed_at => new.confirmed_at,
         loaded.canceled_at => new.canceled_at
  PROVE  TimestampsKept
<1> DEFINE old == payments[k]
           written == [c \in DOMAIN old |-> IF new[c] # loaded[c] THEN new[c] ELSE old[c]]
<1>1. old \in PaymentRows
  BY DEF Inv, TypeOK, DatabaseTypeOK, LoadedSound
<1>2. /\ old.confirmed_at => written.confirmed_at
      /\ old.canceled_at => written.canceled_at
  <2>1. /\ written.confirmed_at = IF new.confirmed_at # loaded.confirmed_at
                                  THEN new.confirmed_at ELSE old.confirmed_at
        /\ written.canceled_at = IF new.canceled_at # loaded.canceled_at
                                 THEN new.canceled_at ELSE old.canceled_at
    BY <1>1 DEF PaymentRows
  <2>2. /\ {new.confirmed_at, loaded.confirmed_at, old.confirmed_at} \subseteq BOOLEAN
        /\ {new.canceled_at, loaded.canceled_at, old.canceled_at} \subseteq BOOLEAN
    BY <1>1 DEF PaymentRows
  <2> QED
    BY <2>1, <2>2
<1>3. payments' = [payments EXCEPT ![k] = written]
  BY DEF Flush
<1> HIDE DEF written
<1> QED
  BY <1>2, <1>3 DEF Inv, TypeOK, DatabaseTypeOK, TimestampsKept

\* The three commits of payment requests.
LEMMA CommitKeepsTimestamps ==
  ASSUME Inv, NEW r \in Requests,
         CreatePaymentCommit(r) \/ ConfirmPaymentCommit(r) \/ CancelPaymentCommit(r)
  PROVE  TimestampsKept
<1> DEFINE row == req[r].row
<1>1. CASE CreatePaymentCommit(r)
  <2>1. payments[req[r].pay] = None
    BY <1>1, Committing DEF CreatePaymentCommit, Fits
  <2> QED
    BY <1>1, <2>1 DEF CreatePaymentCommit, Inv, TypeOK, DatabaseTypeOK, TimestampsKept
<1>2. CASE ConfirmPaymentCommit(r)
  <2> DEFINE status == STRIPE_PAYMENT_STATUS_MAP[req[r].ans.status]
             new == [row EXCEPT !.status = status,
                                !.confirmed_at = @ \/ status = "succeeded",
                                !.failure_code = FALSE]
  <2>1. /\ req[r].pay \in IdemKeys /\ row \in PaymentRows
        /\ LoadedSound(req[r].pay, row)
        /\ req[r].ans.status \in IntentStates
        /\ Agrees(req[r].ans.status, row.external_id)
    BY <1>2, Committing, Holding DEF ConfirmPaymentCommit, AnswerSound
  <2>2. status \in Statuses
    BY <2>1, MapAgrees
  <2>3. /\ new \in PaymentRows /\ new.canceled_at = row.canceled_at
        /\ row.confirmed_at => new.confirmed_at
    BY <2>1, <2>2 DEF PaymentRows
  <2>4. Flush(req[r].pay, row, new)
    BY <1>2 DEF ConfirmPaymentCommit
  <2> HIDE DEF new, row
  <2> QED
    BY <2>1, <2>3, <2>4, FlushKeepsTimestamps
<1>3. CASE CancelPaymentCommit(r)
  <2> DEFINE status == STRIPE_PAYMENT_STATUS_MAP[req[r].ans.status]
             new == [row EXCEPT !.status = status, !.canceled_at = TRUE]
  <2>1. /\ req[r].pay \in IdemKeys /\ row \in PaymentRows
        /\ LoadedSound(req[r].pay, row)
        /\ req[r].ans.status = "canceled"
    BY <1>3, Committing, Holding DEF CancelPaymentCommit, AnswerSound
  <2>2. status \in Statuses
    BY <2>1 DEF STRIPE_PAYMENT_STATUS_MAP, Statuses
  <2>3. /\ new \in PaymentRows /\ new.canceled_at
        /\ new.confirmed_at = row.confirmed_at
    BY <2>1, <2>2 DEF PaymentRows
  <2>4. Flush(req[r].pay, row, new)
    BY <1>3 DEF CancelPaymentCommit
  <2> HIDE DEF new, row
  <2> QED
    BY <2>1, <2>3, <2>4, FlushKeepsTimestamps
<1> QED
  BY <1>1, <1>2, <1>3

\* The handlers of webhook events.
LEMMA HandleEventKeepsTimestamps ==
  ASSUME Inv, NEW w \in Workers, HandleEvent(w)
  PROVE  TimestampsKept
<1> DEFINE row == hook[w].row
<1>1. CASE UNCHANGED payments
  BY <1>1 DEF TimestampsKept
<1>2. ASSUME NEW type, Handling(w, type), NEW new \in PaymentRows,
             Flush(hook[w].pay, row, new),
             row.confirmed_at => new.confirmed_at, row.canceled_at => new.canceled_at
      PROVE  TimestampsKept
  BY <1>2, HandlingSound, FlushKeepsTimestamps
<1>3. ASSUME NEW type, Handling(w, type), NEW status \in Statuses,
             Apply(w, status, [row EXCEPT !.status = status])
      PROVE  TimestampsKept
  <2> DEFINE new == [row EXCEPT !.status = status]
  <2>1. row \in PaymentRows
    BY <1>3, HandlingSound
  <2>2. /\ new \in PaymentRows /\ new.confirmed_at = row.confirmed_at
        /\ new.canceled_at = row.canceled_at
    BY <2>1 DEF PaymentRows
  <2>3. UNCHANGED payments \/ Flush(hook[w].pay, row, new)
    BY <1>3 DEF Apply
  <2> HIDE DEF new
  <2> QED
    BY <1>1, <1>2, <1>3, <2>2, <2>3
<1>4. CASE HandlePaymentSucceeded(w)
  <2> DEFINE new == [row EXCEPT !.status = "succeeded", !.confirmed_at = TRUE]
  <2>1. row \in PaymentRows /\ Handling(w, "payment_intent.succeeded")
    BY <1>4, HandlingSound DEF HandlePaymentSucceeded
  <2>2. new \in PaymentRows /\ new.confirmed_at /\ new.canceled_at = row.canceled_at
    BY <2>1 DEF PaymentRows, Statuses
  <2>3. UNCHANGED payments \/ Flush(hook[w].pay, row, new)
    BY <1>4 DEF HandlePaymentSucceeded, Apply
  <2> HIDE DEF new
  <2> QED
    BY <1>1, <1>2, <2>1, <2>2, <2>3
<1>5. CASE HandlePaymentFailed(w)
  <2> DEFINE new == [row EXCEPT !.status = "failed", !.failure_code = TRUE]
  <2>1. row \in PaymentRows /\ Handling(w, "payment_intent.payment_failed")
    BY <1>5, HandlingSound DEF HandlePaymentFailed
  <2>2. /\ new \in PaymentRows /\ new.confirmed_at = row.confirmed_at
        /\ new.canceled_at = row.canceled_at
    BY <2>1 DEF PaymentRows, Statuses
  <2>3. UNCHANGED payments \/ Flush(hook[w].pay, row, new)
    BY <1>5 DEF HandlePaymentFailed, Apply
  <2> HIDE DEF new
  <2> QED
    BY <1>1, <1>2, <2>1, <2>2, <2>3
<1>6. CASE HandlePaymentCanceled(w)
  <2> DEFINE new == [row EXCEPT !.status = "canceled", !.canceled_at = TRUE]
  <2>1. row \in PaymentRows /\ Handling(w, "payment_intent.canceled")
    BY <1>6, HandlingSound DEF HandlePaymentCanceled
  <2>2. new \in PaymentRows /\ new.canceled_at /\ new.confirmed_at = row.confirmed_at
    BY <2>1 DEF PaymentRows, Statuses
  <2>3. UNCHANGED payments \/ Flush(hook[w].pay, row, new)
    BY <1>6 DEF HandlePaymentCanceled, Apply
  <2> HIDE DEF new
  <2> QED
    BY <1>1, <1>2, <2>1, <2>2, <2>3
<1>7. CASE HandlePaymentProcessing(w) \/ HandlePaymentRequiresAction(w)
           \/ HandleDisputeCreated(w)
  BY <1>3, <1>7
     DEF HandlePaymentProcessing, HandlePaymentRequiresAction, HandleDisputeCreated, Statuses
<1>8. CASE HandleChargeRefunded(w)
  <2> DEFINE status == IF hook[w].total >= row.amount
                       THEN "refunded" ELSE "partially_refunded"
  <2>1. status \in Statuses
    BY DEF Statuses
  <2>2. /\ Handling(w, "charge.refunded")
        /\ Apply(w, status, [row EXCEPT !.status = status])
    BY <1>8 DEF HandleChargeRefunded
  <2> HIDE DEF status, row
  <2> QED
    BY <1>3, <2>1, <2>2 DEF row
<1>9. CASE HandleNothing(w)
  BY <1>1, <1>9 DEF HandleNothing
<1> QED
  BY <1>4, <1>5, <1>6, <1>7, <1>8, <1>9 DEF HandleEvent

\* Whatever row it loaded and however long ago, no session takes back a
\* confirmed_at or canceled_at that another one committed since.
THEOREM TimestampsNeverLost == Spec => TimestampsStay
<1>1. Inv /\ [Next]_vars => TimestampsKept
  <2> SUFFICES ASSUME Inv, [Next]_vars
               PROVE  TimestampsKept
    OBVIOUS
  <2>1. CASE UNCHANGED payments
    BY <2>1 DEF TimestampsKept
  <2>2. CASE PaymentServiceNext
    <3>1. ASSUME NEW r \in Requests, PaymentServiceStep(r)
          PROVE  TimestampsKept
      BY <2>1, <3>1, CommitKeepsTimestamps
         DEF PaymentServiceStep, CreatePaymentCall, ConfirmPaymentCall,
             CancelPaymentCall, dbVars
    <3>2. ASSUME NEW r \in Requests, NEW k, NEW key, NEW cred, NEW amount,
                 \/ CreatePayment(r, k, amount, cred)
                 \/ ConfirmPayment(r, k, key, cred)
                 \/ CancelPayment(r, k, key, cred)
          PROVE  TimestampsKept
      BY <2>1, <3>2
         DEF CreatePayment, ConfirmPayment, CancelPayment, LoadPayment, dbVars
    <3> QED
      BY <2>2, <3>1, <3>2 DEF PaymentServiceNext
  <2>3. CASE RefundServiceNext \/ SessionNext
    BY <2>1, <2>3
       DEF RefundServiceNext, RefundServiceStep, CreateRefund, CreateRefundChecks,
           CreateRefundCall, CreateRefundCommit, SessionNext, InsertConflicts,
           RespondFirst, Rollback, dbVars
  <2>4. CASE WebhookServiceNext
    <3>1. ASSUME NEW w \in Workers, WebhookServiceStep(w)
          PROVE  TimestampsKept
      BY <2>1, <3>1, HandleEventKeepsTimestamps
         DEF WebhookServiceStep, StoreEvent, FindPayment, LoadRefunds, AnswerFirst,
             AnswerOk, AnswerError, dbVars
    <3>2. ASSUME NEW w \in Workers, NEW e, Deliver(w, e) \/ HandlerRaises(w) \/ Drop(w)
          PROVE  TimestampsKept
      BY <2>1, <3>2 DEF Deliver, HandlerRaises, Drop, dbVars
    <3> QED
      BY <2>4, <3>1, <3>2 DEF WebhookServiceNext
  <2>5. CASE UNCHANGED dbVars \/ UNCHANGED vars
    BY <2>1, <2>5 DEF vars, dbVars
  <2> QED
    BY <2>2, <2>3, <2>4, <2>5 DEF Next
<1> QED
  BY <1>1, Inductive, PTL DEF Spec, TimestampsStay

(***************************************************************************)
(* What is logged with a timestamp.  A flush that sets one logs it in the  *)
(* same step, and the log only grows.                                      *)
(***************************************************************************)
LogGrows == BagToSet(audit_log) \subseteq BagToSet(audit_log')

LEMMA LogAdds ==
  ASSUME Inv, NEW action, NEW k, NEW by, LogAction(action, k, by)
  PROVE  /\ BagToSet(audit_log') =
              BagToSet(audit_log) \cup {[action |-> action, pay |-> k, by |-> by]}
         /\ LogGrows
<1> DEFINE entry == [action |-> action, pay |-> k, by |-> by]
<1>1. DOMAIN audit_log' = DOMAIN audit_log \cup {entry}
  BY DEF LogAction, SetToBag, (+)
<1>2. BagToSet(audit_log') = BagToSet(audit_log) \cup {entry}
  BY <1>1 DEF BagToSet
<1> QED
  BY <1>2 DEF LogGrows

LEMMA LogAudits ==
  ASSUME Inv, NEW action, NEW k, NEW by, LogAction(action, k, by),
         NEW x, NEW y, action = x \/ action = y
  PROVE  AuditedAs(k, {x, y})'
<1>1. [action |-> action, pay |-> k, by |-> by] \in BagToSet(audit_log')
  BY LogAdds
<1> QED
  BY <1>1 DEF AuditedAs

LEMMA AuditsKept ==
  ASSUME LogGrows, NEW k, NEW actions, AuditedAs(k, actions)
  PROVE  AuditedAs(k, actions)'
BY DEF LogGrows, AuditedAs

LEMMA RowsAudited ==
  ASSUME TimestampsAudited, LogGrows, UNCHANGED payments
  PROVE  TimestampsAudited'
BY AuditsKept DEF TimestampsAudited

LEMMA FlushAudited ==
  ASSUME Inv, TimestampsAudited, LogGrows, NEW k \in IdemKeys,
         NEW loaded \in PaymentRows, NEW new \in PaymentRows,
         LoadedSound(k, loaded), Flush(k, loaded, new),
         new.confirmed_at =>
           \/ loaded.confirmed_at
           \/ AuditedAs(k, {"payment.confirmed", "payment.confirmed_via_webhook"})',
         new.canceled_at =>
           \/ loaded.canceled_at
           \/ AuditedAs(k, {"payment.canceled", "payment.canceled_via_webhook"})'
  PROVE  TimestampsAudited'
<1> DEFINE old == payments[k]
           written == [c \in DOMAIN old |-> IF new[c] # loaded[c] THEN new[c] ELSE old[c]]
<1>1. old \in PaymentRows /\ old # None
  BY DEF Inv, TypeOK, DatabaseTypeOK, LoadedSound
<1>2. /\ written.confirmed_at =>
           \/ old.confirmed_at
           \/ AuditedAs(k, {"payment.confirmed", "payment.confirmed_via_webhook"})'
      /\ written.canceled_at =>
           \/ old.canceled_at
           \/ AuditedAs(k, {"payment.canceled", "payment.canceled_via_webhook"})'
  <2>1. /\ written.confirmed_at = IF new.confirmed_at # loaded.confirmed_at
                                  THEN new.confirmed_at ELSE old.confirmed_at
        /\ written.canceled_at = IF new.canceled_at # loaded.canceled_at
                                 THEN new.canceled_at ELSE old.canceled_at
    BY <1>1 DEF PaymentRows
  <2>2. /\ {new.confirmed_at, loaded.confirmed_at, old.confirmed_at} \subseteq BOOLEAN
        /\ {new.canceled_at, loaded.canceled_at, old.canceled_at} \subseteq BOOLEAN
    BY <1>1 DEF PaymentRows
  <2> QED
    BY <2>1, <2>2
<1>3. payments' = [payments EXCEPT ![k] = written] /\ payments'[k] = written
  BY DEF Flush, Inv, TypeOK, DatabaseTypeOK
<1> HIDE DEF written
<1>4. /\ old.confirmed_at =>
           AuditedAs(k, {"payment.confirmed", "payment.confirmed_via_webhook"})'
      /\ old.canceled_at =>
           AuditedAs(k, {"payment.canceled", "payment.canceled_via_webhook"})'
  BY <1>1, AuditsKept DEF TimestampsAudited
<1>5. ASSUME NEW o \in IdemKeys, payments'[o] # None
      PROVE  /\ payments'[o].confirmed_at =>
                  AuditedAs(o, {"payment.confirmed", "payment.confirmed_via_webhook"})'
             /\ payments'[o].canceled_at =>
                  AuditedAs(o, {"payment.canceled", "payment.canceled_via_webhook"})'
  <2>1. CASE o = k
    BY <1>2, <1>3, <1>4, <2>1
  <2>2. CASE o # k
    <3>1. payments'[o] = payments[o]
      BY <1>3, <2>2 DEF Inv, TypeOK, DatabaseTypeOK
    <3> QED
      BY <1>5, <3>1, AuditsKept DEF TimestampsAudited
  <2> QED
    BY <2>1, <2>2
<1> QED
  BY <1>5 DEF TimestampsAudited

LEMMA CommitAudited ==
  ASSUME Inv, TimestampsAudited, NEW r \in Requests,
         CreatePaymentCommit(r) \/ ConfirmPaymentCommit(r) \/ CancelPaymentCommit(r)
  PROVE  TimestampsAudited'
<1> DEFINE row == req[r].row
<1>1. CASE CreatePaymentCommit(r)
  <2>1. /\ payments[req[r].pay] = None /\ LogGrows
        /\ \E pi, status, amount :
             payments' = [payments EXCEPT ![req[r].pay] =
               [external_id |-> pi, status |-> status, amount |-> amount,
                confirmed_at |-> FALSE, canceled_at |-> FALSE, failure_code |-> FALSE]]
    BY <1>1, Committing, LogAdds DEF CreatePaymentCommit, Commits, Fits
  <2>2. \A o \in IdemKeys :
          \/ payments'[o] = payments[o]
          \/ ~payments'[o].confirmed_at /\ ~payments'[o].canceled_at
    BY <2>1 DEF Inv, TypeOK, DatabaseTypeOK
  <2> QED
    BY <2>1, <2>2, AuditsKept DEF TimestampsAudited
<1>2. CASE ConfirmPaymentCommit(r)
  <2> DEFINE status == STRIPE_PAYMENT_STATUS_MAP[req[r].ans.status]
             new == [row EXCEPT !.status = status,
                                !.confirmed_at = @ \/ status = "succeeded",
                                !.failure_code = FALSE]
  <2>1. /\ req[r].pay \in IdemKeys /\ row \in PaymentRows
        /\ LoadedSound(req[r].pay, row)
        /\ req[r].ans.status \in IntentStates
        /\ Agrees(req[r].ans.status, row.external_id)
    BY <1>2, Committing, Holding DEF ConfirmPaymentCommit, AnswerSound
  <2>2. status \in Statuses
    BY <2>1, MapAgrees
  <2>3. new \in PaymentRows /\ new.canceled_at = row.canceled_at
    BY <2>1, <2>2 DEF PaymentRows
  <2>4. Flush(req[r].pay, row, new)
    BY <1>2 DEF ConfirmPaymentCommit
  <2>5. PICK k \in IdemKeys : k = req[r].pay
    BY <2>1
  <2>6. LogGrows /\ AuditedAs(k, {"payment.confirmed", "payment.confirmed_via_webhook"})'
    <3>1. LogAction("payment.confirmed", k, r)
      BY <1>2, <2>5 DEF ConfirmPaymentCommit, Commits
    <3> QED
      BY <3>1, LogAdds, LogAudits
  <2> HIDE DEF new, row
  <2> QED
    BY <2>1, <2>3, <2>4, <2>5, <2>6, FlushAudited
<1>3. CASE CancelPaymentCommit(r)
  <2> DEFINE status == STRIPE_PAYMENT_STATUS_MAP[req[r].ans.status]
             new == [row EXCEPT !.status = status, !.canceled_at = TRUE]
  <2>1. /\ req[r].pay \in IdemKeys /\ row \in PaymentRows
        /\ LoadedSound(req[r].pay, row)
        /\ req[r].ans.status = "canceled"
    BY <1>3, Committing, Holding DEF CancelPaymentCommit, AnswerSound
  <2>2. status \in Statuses
    BY <2>1 DEF STRIPE_PAYMENT_STATUS_MAP, Statuses
  <2>3. new \in PaymentRows /\ new.confirmed_at = row.confirmed_at
    BY <2>1, <2>2 DEF PaymentRows
  <2>4. Flush(req[r].pay, row, new)
    BY <1>3 DEF CancelPaymentCommit
  <2>5. PICK k \in IdemKeys : k = req[r].pay
    BY <2>1
  <2>6. LogGrows /\ AuditedAs(k, {"payment.canceled", "payment.canceled_via_webhook"})'
    <3>1. LogAction("payment.canceled", k, r)
      BY <1>3, <2>5 DEF CancelPaymentCommit, Commits
    <3> QED
      BY <3>1, LogAdds, LogAudits
  <2> HIDE DEF new, row
  <2> QED
    BY <2>1, <2>3, <2>4, <2>5, <2>6, FlushAudited
<1> QED
  BY <1>1, <1>2, <1>3

LEMMA HandleEventAudited ==
  ASSUME Inv, TimestampsAudited, NEW w \in Workers, HandleEvent(w)
  PROVE  TimestampsAudited'
<1> DEFINE row == hook[w].row
<1>1. PICK k, e : k = hook[w].pay /\ e = hook[w].event
  OBVIOUS
<1>2. LogGrows
  BY LogAdds
     DEF HandleEvent, HandleNothing, HandlePaymentSucceeded, HandlePaymentFailed,
         HandlePaymentCanceled, HandlePaymentProcessing, HandlePaymentRequiresAction,
         HandleChargeRefunded, HandleDisputeCreated, LogApplied, LogGrows
<1>3. CASE UNCHANGED payments
  BY <1>2, <1>3, RowsAudited
<1>4. ASSUME NEW type, Handling(w, type), NEW new \in PaymentRows,
             Flush(hook[w].pay, row, new),
             new.confirmed_at =>
               \/ row.confirmed_at
               \/ AuditedAs(k, {"payment.confirmed", "payment.confirmed_via_webhook"})',
             new.canceled_at =>
               \/ row.canceled_at
               \/ AuditedAs(k, {"payment.canceled", "payment.canceled_via_webhook"})'
      PROVE  TimestampsAudited'
  <2>1. k \in IdemKeys /\ row \in PaymentRows /\ LoadedSound(k, row)
    BY <1>1, <1>4, HandlingSound
  <2> HIDE DEF row
  <2> QED
    BY <1>1, <1>2, <1>4, <2>1, FlushAudited
<1>5. ASSUME NEW type, Handling(w, type), NEW status \in Statuses,
             Apply(w, status, [row EXCEPT !.status = status])
      PROVE  TimestampsAudited'
  <2> DEFINE new == [row EXCEPT !.status = status]
  <2>1. row \in PaymentRows
    BY <1>5, HandlingSound
  <2>2. /\ new \in PaymentRows /\ new.confirmed_at = row.confirmed_at
        /\ new.canceled_at = row.canceled_at
    BY <2>1 DEF PaymentRows
  <2>3. UNCHANGED payments \/ Flush(hook[w].pay, row, new)
    BY <1>5 DEF Apply
  <2> HIDE DEF new
  <2> QED
    BY <1>3, <1>4, <1>5, <2>2, <2>3
<1>6. CASE HandlePaymentSucceeded(w)
  <2> DEFINE new == [row EXCEPT !.status = "succeeded", !.confirmed_at = TRUE]
  <2>1. row \in PaymentRows /\ Handling(w, "payment_intent.succeeded")
    BY <1>6, HandlingSound DEF HandlePaymentSucceeded
  <2>2. new \in PaymentRows /\ new.canceled_at = row.canceled_at
    BY <2>1 DEF PaymentRows, Statuses
  <2>3. \/ UNCHANGED payments
        \/ /\ Flush(hook[w].pay, row, new)
           /\ LogAction("payment.confirmed_via_webhook", k, e)
    BY <1>1, <1>6 DEF HandlePaymentSucceeded, Apply, LogApplied
  <2> HIDE DEF new
  <2>4. CASE LogAction("payment.confirmed_via_webhook", k, e)
    <3>1. AuditedAs(k, {"payment.confirmed", "payment.confirmed_via_webhook"})'
      BY <2>4, LogAudits
    <3> QED
      BY <1>3, <1>4, <2>1, <2>2, <2>3, <3>1
  <2> QED
    BY <1>1, <1>3, <2>3, <2>4
<1>7. CASE HandlePaymentFailed(w)
  <2> DEFINE new == [row EXCEPT !.status = "failed", !.failure_code = TRUE]
  <2>1. row \in PaymentRows /\ Handling(w, "payment_intent.payment_failed")
    BY <1>7, HandlingSound DEF HandlePaymentFailed
  <2>2. /\ new \in PaymentRows /\ new.confirmed_at = row.confirmed_at
        /\ new.canceled_at = row.canceled_at
    BY <2>1 DEF PaymentRows, Statuses
  <2>3. UNCHANGED payments \/ Flush(hook[w].pay, row, new)
    BY <1>7 DEF HandlePaymentFailed, Apply
  <2> HIDE DEF new
  <2> QED
    BY <1>3, <1>4, <2>1, <2>2, <2>3
<1>8. CASE HandlePaymentCanceled(w)
  <2> DEFINE new == [row EXCEPT !.status = "canceled", !.canceled_at = TRUE]
  <2>1. row \in PaymentRows /\ Handling(w, "payment_intent.canceled")
    BY <1>8, HandlingSound DEF HandlePaymentCanceled
  <2>2. new \in PaymentRows /\ new.confirmed_at = row.confirmed_at
    BY <2>1 DEF PaymentRows, Statuses
  <2>3. \/ UNCHANGED payments
        \/ /\ Flush(hook[w].pay, row, new)
           /\ LogAction("payment.canceled_via_webhook", k, e)
    BY <1>1, <1>8 DEF HandlePaymentCanceled, Apply, LogApplied
  <2> HIDE DEF new
  <2>4. CASE LogAction("payment.canceled_via_webhook", k, e)
    <3>1. AuditedAs(k, {"payment.canceled", "payment.canceled_via_webhook"})'
      BY <2>4, LogAudits
    <3> QED
      BY <1>3, <1>4, <2>1, <2>2, <2>3, <3>1
  <2> QED
    BY <1>1, <1>3, <2>3, <2>4
<1>9. CASE HandlePaymentProcessing(w) \/ HandlePaymentRequiresAction(w)
           \/ HandleDisputeCreated(w)
  BY <1>5, <1>9
     DEF HandlePaymentProcessing, HandlePaymentRequiresAction, HandleDisputeCreated, Statuses
<1>10. CASE HandleChargeRefunded(w)
  <2> DEFINE status == IF hook[w].total >= row.amount
                       THEN "refunded" ELSE "partially_refunded"
  <2>1. status \in Statuses
    BY DEF Statuses
  <2>2. /\ Handling(w, "charge.refunded")
        /\ Apply(w, status, [row EXCEPT !.status = status])
    BY <1>10 DEF HandleChargeRefunded
  <2> HIDE DEF status, row
  <2> QED
    BY <1>5, <2>1, <2>2 DEF row
<1>11. CASE HandleNothing(w)
  BY <1>3, <1>11 DEF HandleNothing
<1> QED
  BY <1>6, <1>7, <1>8, <1>9, <1>10, <1>11 DEF HandleEvent

LEMMA AuditedNext == Inv /\ TimestampsAudited /\ [Next]_vars => TimestampsAudited'
<1> SUFFICES ASSUME Inv, TimestampsAudited, [Next]_vars
             PROVE  TimestampsAudited'
  OBVIOUS
<1>1. CASE UNCHANGED <<payments, audit_log>>
  BY <1>1, RowsAudited DEF LogGrows
<1>2. CASE PaymentServiceNext
  <2>1. ASSUME NEW r \in Requests, PaymentServiceStep(r)
        PROVE  TimestampsAudited'
    BY <1>1, <2>1, CommitAudited
       DEF PaymentServiceStep, CreatePaymentCall, ConfirmPaymentCall, CancelPaymentCall, dbVars
  <2>2. ASSUME NEW r \in Requests, NEW k, NEW key, NEW cred, NEW amount,
               \/ CreatePayment(r, k, amount, cred)
               \/ ConfirmPayment(r, k, key, cred)
               \/ CancelPayment(r, k, key, cred)
        PROVE  TimestampsAudited'
    BY <1>1, <2>2 DEF CreatePayment, ConfirmPayment, CancelPayment, LoadPayment, dbVars
  <2> QED
    BY <1>2, <2>1, <2>2 DEF PaymentServiceNext
<1>3. CASE RefundServiceNext
  <2>1. ASSUME NEW r \in Requests, CreateRefundCommit(r)
        PROVE  TimestampsAudited'
    BY <2>1, LogAdds, RowsAudited DEF CreateRefundCommit, Commits
  <2> QED
    BY <1>1, <1>3, <2>1
       DEF RefundServiceNext, RefundServiceStep, CreateRefund, CreateRefundChecks,
           CreateRefundCall, dbVars
<1>4. CASE SessionNext
  BY <1>1, <1>4 DEF SessionNext, InsertConflicts, RespondFirst, Rollback, dbVars
<1>5. CASE WebhookServiceNext
  <2>1. ASSUME NEW w \in Workers, WebhookServiceStep(w)
        PROVE  TimestampsAudited'
    BY <1>1, <2>1, HandleEventAudited
       DEF WebhookServiceStep, StoreEvent, FindPayment, LoadRefunds, AnswerFirst,
           AnswerOk, AnswerError, dbVars
  <2>2. ASSUME NEW w \in Workers, NEW e, Deliver(w, e) \/ HandlerRaises(w) \/ Drop(w)
        PROVE  TimestampsAudited'
    BY <1>1, <2>2 DEF Deliver, HandlerRaises, Drop, dbVars
  <2> QED
    BY <1>5, <2>1, <2>2 DEF WebhookServiceNext
<1>6. CASE UNCHANGED dbVars \/ UNCHANGED vars
  BY <1>1, <1>6 DEF vars, dbVars
<1> QED
  BY <1>2, <1>3, <1>4, <1>5, <1>6 DEF Next

\* A payment that says when it was confirmed or canceled has an audit row of
\* the request or the event that did it.
THEOREM TimestampsLogged == Spec => []TimestampsAudited
<1>1. Init => TimestampsAudited
  BY DEF Init, DbInit, TimestampsAudited
<1> QED
  BY <1>1, AuditedNext, Inductive, PTL DEF Spec
-------------------------------------------------------------------------------
(***************************************************************************)
(* A step inserts one row of payments, writes over one, or moves one       *)
(* intent, and never two of these.                                         *)
(***************************************************************************)
InsertsRow ==
  \E k \in IdemKeys : /\ \A o \in IdemKeys \ {k} : payments'[o] = payments[o]
                      /\ payments[k] = None
                      /\ payments'[k] # None

OverwritesRow ==
  \E k \in IdemKeys :
    /\ \A o \in IdemKeys \ {k} : payments'[o] = payments[o]
    /\ payments[k] # None
    /\ payments'[k] # None
    /\ payments'[k].external_id = payments[k].external_id
    /\ payments'[k].amount = payments[k].amount

MovesIntent ==
  \E pi \in Intents :
    /\ \A o \in Intents \ {pi} : intents'[o] = intents[o]
    /\ intents'[pi] # None
    /\ \/ intents[pi] = None /\ intents'[pi].status = "requires_payment_method"
       \/ intents[pi] # None /\ intents[pi].status \notin {"succeeded", "canceled"}

LEMMA FlushWritesRow ==
  ASSUME Inv, NEW k \in IdemKeys, NEW loaded \in PaymentRows, NEW new \in PaymentRows,
         LoadedSound(k, loaded), new.external_id = loaded.external_id,
         new.amount = loaded.amount, Flush(k, loaded, new)
  PROVE  OverwritesRow
<1> DEFINE old == payments[k]
           written == [c \in DOMAIN old |-> IF new[c] # loaded[c] THEN new[c] ELSE old[c]]
<1>1. old \in PaymentRows /\ payments \in [IdemKeys -> PaymentRows \cup {None}]
  BY DEF Inv, TypeOK, DatabaseTypeOK, LoadedSound
<1>2. /\ written.external_id = old.external_id
      /\ written.status \in {new.status, old.status}
      /\ written.amount = old.amount
      /\ written.confirmed_at \in {new.confirmed_at, old.confirmed_at}
      /\ written.canceled_at \in {new.canceled_at, old.canceled_at}
      /\ written.failure_code \in {new.failure_code, old.failure_code}
  BY <1>1 DEF PaymentRows
<1>3. written \in PaymentRows
  BY <1>1, <1>2 DEF PaymentRows
<1>4. payments' = [payments EXCEPT ![k] = written]
  BY DEF Flush
<1> HIDE DEF written
<1> QED
  BY <1>1, <1>2, <1>3, <1>4, NoneIsNoRow DEF OverwritesRow, LoadedSound

\* The three commits of payment requests.
LEMMA CommitWritesRow ==
  ASSUME Inv, NEW r \in Requests
  PROVE  /\ CreatePaymentCommit(r) => InsertsRow /\ UNCHANGED intents
         /\ ConfirmPaymentCommit(r) \/ CancelPaymentCommit(r) =>
              OverwritesRow /\ UNCHANGED intents
<1> DEFINE row == req[r].row
<1>1. ASSUME CreatePaymentCommit(r)
      PROVE  InsertsRow /\ UNCHANGED intents
  <2> DEFINE new == [external_id |-> req[r].ans.pi,
                     status |-> STRIPE_PAYMENT_STATUS_MAP[req[r].ans.status],
                     amount |-> req[r].ans.amount, confirmed_at |-> FALSE,
                     canceled_at |-> FALSE, failure_code |-> FALSE]
  <2>1. /\ req[r].pay \in IdemKeys /\ payments[req[r].pay] = None
        /\ req[r].ans.pi \in Intents /\ req[r].ans.amount \in Amounts
        /\ req[r].ans.status = "requires_payment_method"
        /\ UNCHANGED intents
    BY <1>1, Committing, Holding DEF CreatePaymentCommit, Fits, AnswerSound, stripeVars
  <2>2. new \in PaymentRows
    BY <2>1 DEF PaymentRows, STRIPE_PAYMENT_STATUS_MAP, Statuses
  <2>3. payments' = [payments EXCEPT ![req[r].pay] = new]
    BY <1>1 DEF CreatePaymentCommit
  <2> HIDE DEF new
  <2> QED
    BY <2>1, <2>2, <2>3, NoneIsNoRow DEF InsertsRow, Inv, TypeOK, DatabaseTypeOK
<1>2. ASSUME ConfirmPaymentCommit(r)
      PROVE  OverwritesRow /\ UNCHANGED intents
  <2> DEFINE status == STRIPE_PAYMENT_STATUS_MAP[req[r].ans.status]
             new == [row EXCEPT !.status = status,
                                !.confirmed_at = @ \/ status = "succeeded",
                                !.failure_code = FALSE]
  <2>1. /\ req[r].pay \in IdemKeys /\ row \in PaymentRows
        /\ LoadedSound(req[r].pay, row) /\ UNCHANGED intents
        /\ req[r].ans.status \in IntentStates
        /\ Agrees(req[r].ans.status, row.external_id)
    BY <1>2, Committing, Holding DEF ConfirmPaymentCommit, AnswerSound, stripeVars
  <2>2. status \in Statuses
    BY <2>1, MapAgrees
  <2>3. /\ new \in PaymentRows /\ new.external_id = row.external_id
        /\ new.amount = row.amount
    BY <2>1, <2>2 DEF PaymentRows
  <2>4. Flush(req[r].pay, row, new)
    BY <1>2 DEF ConfirmPaymentCommit
  <2> HIDE DEF new, row
  <2> QED
    BY <2>1, <2>3, <2>4, FlushWritesRow
<1>3. ASSUME CancelPaymentCommit(r)
      PROVE  OverwritesRow /\ UNCHANGED intents
  <2> DEFINE status == STRIPE_PAYMENT_STATUS_MAP[req[r].ans.status]
             new == [row EXCEPT !.status = status, !.canceled_at = TRUE]
  <2>1. /\ req[r].pay \in IdemKeys /\ row \in PaymentRows
        /\ LoadedSound(req[r].pay, row) /\ UNCHANGED intents
        /\ req[r].ans.status = "canceled"
    BY <1>3, Committing, Holding DEF CancelPaymentCommit, AnswerSound, stripeVars
  <2>2. status \in Statuses
    BY <2>1 DEF STRIPE_PAYMENT_STATUS_MAP, Statuses
  <2>3. /\ new \in PaymentRows /\ new.external_id = row.external_id
        /\ new.amount = row.amount
    BY <2>1, <2>2 DEF PaymentRows
  <2>4. Flush(req[r].pay, row, new)
    BY <1>3 DEF CancelPaymentCommit
  <2> HIDE DEF new, row
  <2> QED
    BY <2>1, <2>3, <2>4, FlushWritesRow
<1> QED
  BY <1>1, <1>2, <1>3

\* The handlers of webhook events, which write nothing but the columns of a
\* status change.
LEMMA HandleEventWritesRow ==
  ASSUME Inv, NEW w \in Workers, HandleEvent(w)
  PROVE  (UNCHANGED payments \/ OverwritesRow) /\ UNCHANGED intents
<1> DEFINE row == hook[w].row
<1>1. UNCHANGED intents
  BY DEF HandleEvent, HandleNothing, HandlePaymentSucceeded, HandlePaymentFailed,
         HandlePaymentCanceled, HandlePaymentProcessing, HandlePaymentRequiresAction,
         HandleChargeRefunded, HandleDisputeCreated, MarkProcessed, stripeVars
<1>2. ASSUME NEW type, Handling(w, type), NEW target,
             NEW new \in PaymentRows, new.external_id = row.external_id, new.amount = row.amount,
             Apply(w, target, new)
      PROVE  UNCHANGED payments \/ OverwritesRow
  <2>1. UNCHANGED payments \/ Flush(hook[w].pay, row, new)
    BY <1>2 DEF Apply
  <2> QED
    BY <1>2, <2>1, HandlingSound, FlushWritesRow
<1>3. ASSUME NEW type, Handling(w, type)
      PROVE  /\ \A status \in Statuses : /\ [row EXCEPT !.status = status] \in PaymentRows
                                        /\ [row EXCEPT !.status = status].external_id =
                                             row.external_id
                                        /\ [row EXCEPT !.status = status].amount =
                                             row.amount
             /\ [row EXCEPT !.status = "succeeded", !.confirmed_at = TRUE] \in PaymentRows
             /\ [row EXCEPT !.status = "failed", !.failure_code = TRUE] \in PaymentRows
             /\ [row EXCEPT !.status = "canceled", !.canceled_at = TRUE] \in PaymentRows
  <2>1. row \in PaymentRows
    BY <1>3, HandlingSound
  <2> QED
    BY <2>1 DEF PaymentRows, Statuses
<1>4. CASE HandlePaymentSucceeded(w)
  <2> DEFINE new == [row EXCEPT !.status = "succeeded", !.confirmed_at = TRUE]
  <2>1. /\ Handling(w, "payment_intent.succeeded") /\ Apply(w, "succeeded", new)
        /\ new.external_id = row.external_id /\ new.amount = row.amount
    BY <1>4, HandlingSound DEF HandlePaymentSucceeded, PaymentRows
  <2>2. new \in PaymentRows
    BY <1>3, <2>1
  <2> HIDE DEF new
  <2> QED
    BY <1>1, <1>2, <2>1, <2>2
<1>5. CASE HandlePaymentFailed(w)
  <2> DEFINE new == [row EXCEPT !.status = "failed", !.failure_code = TRUE]
  <2>1. /\ Handling(w, "payment_intent.payment_failed") /\ Apply(w, "failed", new)
        /\ new.external_id = row.external_id /\ new.amount = row.amount
    BY <1>5, HandlingSound DEF HandlePaymentFailed, PaymentRows
  <2>2. new \in PaymentRows
    BY <1>3, <2>1
  <2> HIDE DEF new
  <2> QED
    BY <1>1, <1>2, <2>1, <2>2
<1>6. CASE HandlePaymentCanceled(w)
  <2> DEFINE new == [row EXCEPT !.status = "canceled", !.canceled_at = TRUE]
  <2>1. /\ Handling(w, "payment_intent.canceled") /\ Apply(w, "canceled", new)
        /\ new.external_id = row.external_id /\ new.amount = row.amount
    BY <1>6, HandlingSound DEF HandlePaymentCanceled, PaymentRows
  <2>2. new \in PaymentRows
    BY <1>3, <2>1
  <2> HIDE DEF new
  <2> QED
    BY <1>1, <1>2, <2>1, <2>2
<1>7. ASSUME NEW type, Handling(w, type), NEW status \in Statuses,
             Apply(w, status, [row EXCEPT !.status = status])
      PROVE  UNCHANGED payments \/ OverwritesRow
  BY <1>2, <1>3, <1>7
<1>8. CASE HandlePaymentProcessing(w) \/ HandlePaymentRequiresAction(w)
           \/ HandleDisputeCreated(w)
  BY <1>1, <1>7, <1>8
     DEF HandlePaymentProcessing, HandlePaymentRequiresAction, HandleDisputeCreated, Statuses
<1>9. CASE HandleChargeRefunded(w)
  <2> DEFINE status == IF hook[w].total >= row.amount
                       THEN "refunded" ELSE "partially_refunded"
  <2>1. status \in Statuses
    BY DEF Statuses
  <2>2. /\ Handling(w, "charge.refunded")
        /\ Apply(w, status, [row EXCEPT !.status = status])
    BY <1>9 DEF HandleChargeRefunded
  <2> HIDE DEF status, row
  <2> QED
    BY <1>1, <1>7, <2>1, <2>2 DEF row
<1>10. CASE HandleNothing(w)
  BY <1>1, <1>10 DEF HandleNothing
<1> QED
  BY <1>4, <1>5, <1>6, <1>8, <1>9, <1>10 DEF HandleEvent

(***************************************************************************)
(* The intents, which only calls and Stripe's own steps move.              *)
(***************************************************************************)
LEMMA MoveMovesIntent ==
  ASSUME Inv, NEW pi \in Intents, NEW to, MoveIntent(pi, to)
  PROVE  MovesIntent
<1>1. intents[pi] \in PaymentIntents /\ intents \in [Intents -> PaymentIntents \cup {None}]
  BY DEF Inv, TypeOK, StripeTypeOK, MoveIntent
<1>2. intents' = [intents EXCEPT ![pi] = [intents[pi] EXCEPT !.status = to]]
  BY <1>1 DEF MoveIntent
<1>3. to \in IntentStates /\ intents[pi].status \notin {"succeeded", "canceled"}
  <2>1. intents[pi].status \in IntentStates /\ to \in Successors[intents[pi].status]
    BY <1>1 DEF MoveIntent, PaymentIntents
  <2> QED
    BY <2>1 DEF Successors, IntentStates
<1>4. [intents[pi] EXCEPT !.status = to] \in PaymentIntents
  BY <1>1, <1>3 DEF PaymentIntents
<1> QED
  BY <1>1, <1>2, <1>3, <1>4, NoneIsNoObject DEF MovesIntent, MoveIntent

LEMMA CallMovesIntent ==
  ASSUME Inv, NEW r \in Requests,
         \/ CreatePaymentCall(r) \/ ConfirmPaymentCall(r)
         \/ CancelPaymentCall(r) \/ CreateRefundCall(r)
  PROVE  UNCHANGED intents \/ MovesIntent
<1>1. CASE CreatePaymentCall(r)
  <2>1. req[r].key \in IdemKeys /\ req[r].amount \in Amounts
    BY <1>1, Holding DEF CreatePaymentCall, At, Live, RequestSound
  <2>2. CASE Replay(req[r].key)
    BY <2>2 DEF Replay, stripeVars
  <2>3. ASSUME NEW pi \in Intents, intents[pi] = None,
               intents' = [intents EXCEPT ![pi] =
                             [status |-> "requires_payment_method", amount |-> req[r].amount]]
        PROVE  MovesIntent
    <3> DEFINE new == [status |-> "requires_payment_method", amount |-> req[r].amount]
    <3>1. new \in PaymentIntents /\ new.status = "requires_payment_method"
      BY <2>1 DEF PaymentIntents, IntentStates, Successors
    <3>2. intents' = [intents EXCEPT ![pi] = new]
      BY <2>3
    <3> HIDE DEF new
    <3>3. intents'[pi] = new /\ \A o \in Intents \ {pi} : intents'[o] = intents[o]
      BY <3>2 DEF Inv, TypeOK, StripeTypeOK
    <3> QED
      BY <2>3, <3>1, <3>3, NoneIsNoObject DEF MovesIntent
  <2> QED
    BY <1>1, <2>2, <2>3 DEF CreatePaymentCall, CreateIntent
<1>2. ASSUME NEW key, NEW pi \in Intents, ConfirmIntent(key, pi) \/ CancelIntent(key, pi)
      PROVE  UNCHANGED intents \/ MovesIntent
  BY <1>2, MoveMovesIntent DEF ConfirmIntent, CancelIntent, Replay, stripeVars
<1>3. CASE ConfirmPaymentCall(r) \/ CancelPaymentCall(r)
  <2>1. req[r].row.external_id \in Intents
    BY <1>3, Holding DEF ConfirmPaymentCall, CancelPaymentCall, At, Live
  <2> QED
    BY <1>2, <1>3, <2>1 DEF ConfirmPaymentCall, CancelPaymentCall
<1>4. CASE CreateRefundCall(r)
  BY <1>4 DEF CreateRefundCall, RefundIntent, Replay, stripeVars
<1> QED
  BY <1>1, <1>3, <1>4

LEMMA OneThingChanges ==
  ASSUME Inv, [Next]_vars
  PROVE  \/ UNCHANGED <<payments, intents>>
         \/ (InsertsRow \/ OverwritesRow) /\ UNCHANGED intents
         \/ MovesIntent /\ UNCHANGED payments
<1>1. ASSUME NEW r \in Requests, PaymentServiceStep(r)
      PROVE  \/ UNCHANGED <<payments, intents>>
             \/ (InsertsRow \/ OverwritesRow) /\ UNCHANGED intents
             \/ MovesIntent /\ UNCHANGED payments
  <2>1. CASE CreatePaymentCommit(r) \/ ConfirmPaymentCommit(r) \/ CancelPaymentCommit(r)
    BY <2>1, CommitWritesRow
  <2>2. CASE CreatePaymentCall(r) \/ ConfirmPaymentCall(r) \/ CancelPaymentCall(r)
    <3>1. UNCHANGED payments
      BY <2>2 DEF CreatePaymentCall, ConfirmPaymentCall, CancelPaymentCall, dbVars
    <3> QED
      BY <2>2, <3>1, CallMovesIntent
  <2> QED
    BY <1>1, <2>1, <2>2 DEF PaymentServiceStep
<1>2. CASE PaymentServiceNext
  <2>1. ASSUME NEW r, NEW k, NEW key, NEW cred, NEW amount,
               \/ CreatePayment(r, k, amount, cred)
               \/ ConfirmPayment(r, k, key, cred)
               \/ CancelPayment(r, k, key, cred)
        PROVE  UNCHANGED <<payments, intents>>
    BY <2>1 DEF CreatePayment, ConfirmPayment, CancelPayment, LoadPayment, dbVars, stripeVars
  <2> QED
    BY <1>1, <1>2, <2>1 DEF PaymentServiceNext
<1>3. CASE RefundServiceNext \/ SessionNext
  BY <1>3, CallMovesIntent
     DEF RefundServiceNext, RefundServiceStep, CreateRefund, CreateRefundChecks,
         CreateRefundCall, CreateRefundCommit, Commits, SessionNext, InsertConflicts,
         RespondFirst, Rollback, dbVars, stripeVars
<1>4. CASE WebhookServiceNext
  BY <1>4, HandleEventWritesRow
     DEF WebhookServiceNext, WebhookServiceStep, StoreEvent, FindPayment, LoadRefunds,
         AnswerFirst, AnswerOk, AnswerError, Deliver, HandlerRaises, Drop, dbVars, stripeVars
<1>5. CASE (CustomerNext \/ StripeNext) /\ UNCHANGED dbVars
  BY <1>5, MoveMovesIntent
     DEF CustomerNext, StripeNext, CustomerPays, BankSettles, OperatorCancels, RefundSettles,
         DisputeOpens, dbVars
<1>6. CASE UNCHANGED vars
  BY <1>6 DEF vars, dbVars, stripeVars
<1> QED
  BY <1>2, <1>3, <1>4, <1>5, <1>6 DEF Next
-------------------------------------------------------------------------------
(***************************************************************************)
(* The steps of the ledger.                                                *)
(***************************************************************************)
RecordsSound ==
  \A k \in IdemKeys : payments[k] # None =>
    /\ RecordOf(k) \in Merchants!Records
    /\ RecordOf(k).intent = payments[k].external_id
    /\ RecordOf(k).confirmed = payments[k].confirmed_at
    /\ RecordOf(k).canceled = payments[k].canceled_at
    /\ Merchants!Truthful(RecordOf(k))

LEMMA RecordsAreSound == Inv => RecordsSound
<1> SUFFICES ASSUME Inv, NEW k \in IdemKeys, payments[k] # None
             PROVE  /\ RecordOf(k) \in Merchants!Records
                    /\ RecordOf(k).intent = payments[k].external_id
                    /\ RecordOf(k).confirmed = payments[k].confirmed_at
                    /\ RecordOf(k).canceled = payments[k].canceled_at
                    /\ Merchants!Truthful(RecordOf(k))
  BY DEF RecordsSound
<1>1. payments[k] \in PaymentRows /\ RowSound(payments[k])
  BY DEF Inv, TypeOK, DatabaseTypeOK, StatusSound
<1>2. RecordOf(k) = [intent |-> payments[k].external_id,
                     captured |-> payments[k].status \in CapturedStatuses,
                     abandoned |-> payments[k].status = "canceled",
                     confirmed |-> payments[k].confirmed_at,
                     canceled |-> payments[k].canceled_at]
  BY DEF RecordOf
<1>3. RecordOf(k) \in Merchants!Records
  BY <1>1, <1>2 DEF Merchants!Records, PaymentRows
<1>4. FateOf(payments[k].external_id) =
        IF Captured(payments[k].external_id) THEN "captured"
        ELSE IF Abandoned(payments[k].external_id) THEN "abandoned" ELSE "open"
  BY <1>1 DEF RowSound, FateOf
<1>5. ~(Captured(payments[k].external_id) /\ Abandoned(payments[k].external_id))
  BY DEF Captured, Abandoned
<1>6. Merchants!Truthful(RecordOf(k))
  BY <1>1, <1>2, <1>4, <1>5
     DEF Merchants!Truthful, RowSound, Agrees, PaymentRows
<1> QED
  BY <1>1, <1>2, <1>3, <1>6 DEF PaymentRows

LEMMA RecordsStaySound == Inv' => RecordsSound'
BY RecordsAreSound, PTL

LEMMA WriteIsWrite ==
  ASSUME Inv, Inv', InsertsRow \/ OverwritesRow, TimestampsKept, UNCHANGED intents
  PROVE  Merchants!Next
<1>1. PICK k \in IdemKeys :
        /\ \A o \in IdemKeys \ {k} : payments'[o] = payments[o]
        /\ payments'[k] # None
        /\ payments[k] # None => payments'[k].external_id = payments[k].external_id
  BY DEF InsertsRow, OverwritesRow
<1>2. \A pi \in Intents : FateOf(pi)' = FateOf(pi)
  BY DEF FateOf, Captured, Abandoned
<1>3. \A o \in IdemKeys \ {k} : RecordOf(o)' = RecordOf(o)
  BY <1>1 DEF RecordOf
<1>4. /\ RecordOf(k)' \in Merchants!Records
      /\ RecordOf(k)'.intent = payments'[k].external_id
      /\ RecordOf(k)'.confirmed = payments'[k].confirmed_at
      /\ RecordOf(k)'.canceled = payments'[k].canceled_at
      /\ Merchants!Truthful(RecordOf(k))'
  BY <1>1, RecordsStaySound DEF RecordsSound, Merchants!Records
<1>5. Merchants!Truthful(RecordOf(k)')
  BY <1>2, <1>4 DEF Merchants!Truthful, Merchants!Records
<1>6. RecordOf(k) # None => Merchants!Follows(RecordOf(k), RecordOf(k)')
  <2>1. RecordOf(k) # None => payments[k] # None
    BY DEF RecordOf
  <2> QED
    BY <1>1, <1>4, <2>1, RecordsAreSound DEF RecordsSound, TimestampsKept, Merchants!Follows
<1>7. [o \in IdemKeys |-> RecordOf(o)]' =
        [[o \in IdemKeys |-> RecordOf(o)] EXCEPT ![k] = RecordOf(k)']
  BY <1>3
<1>8. [pi \in Intents |-> FateOf(pi)]' = [pi \in Intents |-> FateOf(pi)]
  BY <1>2
<1> QED
  BY <1>4, <1>5, <1>6, <1>7, <1>8 DEF Merchants!Next, Merchants!Write

LEMMA MoveIsProceed ==
  ASSUME Inv, Inv', MovesIntent, UNCHANGED payments
  PROVE  Merchants!Next \/ UNCHANGED Merchants!vars
<1>1. PICK pi \in Intents :
        /\ \A o \in Intents \ {pi} : intents'[o] = intents[o]
        /\ intents'[pi] # None
        /\ \/ intents[pi] = None /\ intents'[pi].status = "requires_payment_method"
           \/ intents[pi] # None /\ intents[pi].status \notin {"succeeded", "canceled"}
  BY DEF MovesIntent
<1>2. \A o \in Intents \ {pi} : FateOf(o)' = FateOf(o)
  BY <1>1 DEF FateOf, Captured, Abandoned
<1>3. \/ FateOf(pi) = "absent" /\ FateOf(pi)' = "open"
      \/ FateOf(pi) = "open" /\ FateOf(pi)' \in {"open", "captured", "abandoned"}
  BY <1>1 DEF FateOf, Captured, Abandoned
<1>4. [o \in Intents |-> FateOf(o)]' =
        [[o \in Intents |-> FateOf(o)] EXCEPT ![pi] = FateOf(pi)']
  BY <1>2
<1>5. [k \in IdemKeys |-> RecordOf(k)]' = [k \in IdemKeys |-> RecordOf(k)]
  BY DEF RecordOf
<1>6. CASE FateOf(pi)' = FateOf(pi)
  BY <1>2, <1>5, <1>6 DEF Merchants!vars
<1>7. CASE FateOf(pi)' # FateOf(pi)
  <2>1. /\ FateOf(pi)' \in Merchants!Fates
        /\ <<FateOf(pi), FateOf(pi)'>> \in {<<"absent", "open">>, <<"open", "captured">>,
                                          <<"open", "abandoned">>}
    BY <1>3, <1>7 DEF Merchants!Fates
  <2> QED
    BY <2>1, <1>4, <1>5 DEF Merchants!Next, Merchants!Proceed
<1> QED
  BY <1>6, <1>7

\* Requests and deliveries that overwrite each other's rows come, for a merchant,
\* to records that keep their intent and dates and claim only what is so.
THEOREM GatewayKeepsLedger == Spec => ImplementsPaymentLedger
<1>1. Init => Merchants!Init
  BY DEF Init, DbInit, StripeInit, Merchants!Init, FateOf, RecordOf
<1>2. Inv /\ Inv' /\ [TimestampsKept]_vars /\ [Next]_vars => [Merchants!Next]_(Merchants!vars)
  <2> SUFFICES ASSUME Inv, Inv', [TimestampsKept]_vars, [Next]_vars
               PROVE  Merchants!Next \/ UNCHANGED Merchants!vars
    OBVIOUS
  <2>1. CASE UNCHANGED <<payments, intents>>
    BY <2>1 DEF Merchants!vars, FateOf, RecordOf, Captured, Abandoned
  <2>2. TimestampsKept
    BY DEF vars, dbVars, TimestampsKept
  <2> QED
    BY <2>1, <2>2, OneThingChanges, WriteIsWrite, MoveIsProceed
<1> QED
  BY <1>1, <1>2, Inductive, TimestampsNeverLost, PTL
     DEF Spec, TimestampsStay, ImplementsPaymentLedger, Merchants!Spec
===============================================================================
