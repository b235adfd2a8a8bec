---------------------------- MODULE PaymentService ----------------------------
(***************************************************************************)
(* create_payment, confirm_payment and cancel_payment: each is a SELECT, a *)
(* call to the provider, and a flush with its audit row that the session   *)
(* commits.  Nothing is locked between the three.                          *)
(***************************************************************************)
EXTENDS RequestSession

\* The SELECT by idempotency_key; a payment that exists is returned, whatever
\* the body asks for.
CreatePayment(r, k, amount, cred) ==
  /\ "create" \in Ops
  /\ Admitted(r, cred)
  /\ LET begun == Begin("create", k, k, amount, cred)
     IN  req' = [req EXCEPT ![r] = IF payments[k] # None THEN Ended(begun, "2xx")
                                   ELSE [begun EXCEPT !.pc = "loaded"]]
  /\ UNCHANGED <<dbVars, stripeVars>>

CreatePaymentCall(r) ==
  /\ At(r, "create", "loaded")
  /\ CreateIntent(req[r].key, req[r].amount)
  /\ TakeAnswer(r, CreateCall(req[r].amount))
  /\ UNCHANGED dbVars

\* INSERT: the unique index on idempotency_key lets one of two creations in.
CreatePaymentCommit(r) ==
  /\ Commits(r, "create", "payment.created")
  /\ LET pi == req[r].ans
     IN  payments' = [payments EXCEPT ![req[r].pay] =
           [external_id |-> pi.pi,
            status |-> STRIPE_PAYMENT_STATUS_MAP[pi.status],
            amount |-> pi.amount,
            confirmed_at |-> FALSE, canceled_at |-> FALSE, failure_code |-> FALSE]]
  /\ UNCHANGED refunds
-------------------------------------------------------------------------------
\* get_payment, then a guard the operation has on the row it loaded.
LoadPayment(r, op, k, key, cred, accepted) ==
  /\ op \in Ops
  /\ Admitted(r, cred)
  /\ LET begun == Begin(op, k, key, None, cred)
     IN  req' = [req EXCEPT ![r] =
           IF payments[k] = None \/ ~accepted THEN Ended(begun, "4xx")
           ELSE [begun EXCEPT !.pc = "loaded", !.row = payments[k]]]
  /\ UNCHANGED <<dbVars, stripeVars>>

\* confirm_payment looks at no status.
ConfirmPayment(r, k, key, cred) ==
  LoadPayment(r, "confirm", k, key, cred, TRUE)

ConfirmPaymentCall(r) ==
  /\ At(r, "confirm", "loaded")
  /\ ConfirmIntent(req[r].key, req[r].row.external_id)
  /\ TakeAnswer(r, ConfirmCall(req[r].row.external_id))
  /\ UNCHANGED dbVars

\* An answer that is no error carries no last_payment_error.
ConfirmPaymentCommit(r) ==
  /\ Commits(r, "confirm", "payment.confirmed")
  /\ LET pi == req[r].ans
         row == req[r].row
         status == STRIPE_PAYMENT_STATUS_MAP[pi.status]
     IN  Flush(req[r].pay, row,
               [row EXCEPT !.status = status,
                           !.confirmed_at = @ \/ status = "succeeded",
                           !.failure_code = FALSE])
  /\ UNCHANGED refunds
-------------------------------------------------------------------------------
CancelPayment(r, k, key, cred) ==
  LoadPayment(r, "cancel", k, key, cred, payments[k].status \in CANCELABLE_STATUSES)

CancelPaymentCall(r) ==
  /\ At(r, "cancel", "loaded")
  /\ CancelIntent(req[r].key, req[r].row.external_id)
  /\ TakeAnswer(r, CancelCall(req[r].row.external_id))
  /\ UNCHANGED dbVars

CancelPaymentCommit(r) ==
  /\ Commits(r, "cancel", "payment.canceled")
  /\ Flush(req[r].pay, req[r].row,
           [req[r].row EXCEPT
              !.status = STRIPE_PAYMENT_STATUS_MAP[req[r].ans.status],
              !.canceled_at = TRUE])
  /\ UNCHANGED refunds
-------------------------------------------------------------------------------
PaymentServiceStep(r) ==
  \/ CreatePaymentCall(r) \/ CreatePaymentCommit(r)
  \/ ConfirmPaymentCall(r) \/ ConfirmPaymentCommit(r)
  \/ CancelPaymentCall(r) \/ CancelPaymentCommit(r)

PaymentServiceNext ==
  \E r \in Requests :
    \/ \E k \in PayKeys, cred \in Credentials :
         \/ \E amount \in Amounts : CreatePayment(r, k, amount, cred)
         \/ \E key \in IdemKeys : \/ ConfirmPayment(r, k, key, cred)
                                  \/ CancelPayment(r, k, key, cred)
    \/ PaymentServiceStep(r)
===============================================================================
