---------------------------- MODULE RefundService ----------------------------
(***************************************************************************)
(* create_refund: the payment and its refunds are read by two statements,  *)
(* the amount is checked against what they say, the provider is called,    *)
(* and the refund is inserted.  payments.status is not written here.       *)
(***************************************************************************)
EXTENDS RequestSession

\* get_payment: SELECT of the payment.
CreateRefund(r, k, key, amount, cred) ==
  /\ "refund" \in Ops
  /\ Admitted(r, cred)
  /\ LET begun == Begin("refund", k, key, amount, cred)
     IN  req' = [req EXCEPT ![r] =
           IF payments[k] = None THEN Ended(begun, "4xx")
           ELSE [begun EXCEPT !.pc = "found", !.row = payments[k]]]
  /\ UNCHANGED <<dbVars, stripeVars>>

\* The SELECT that loads payment.refunds, then the checks.  A refund that is
\* still pending does not count against what is left to refund.
CreateRefundChecks(r) ==
  /\ At(r, "refund", "found")
  /\ LET row == req[r].row
         max_refundable == row.amount - RefundedAmount(req[r].pay, {})
         amount == IF req[r].amount = None THEN max_refundable ELSE req[r].amount
     IN  IF row.status \notin REFUNDABLE_STATUSES \/ amount > max_refundable
         THEN Finish(r, "4xx")
         ELSE req' = [req EXCEPT ![r].pc = "loaded", ![r].amount = amount]
  /\ UNCHANGED <<dbVars, stripeVars>>

CreateRefundCall(r) ==
  /\ At(r, "refund", "loaded")
  /\ RefundIntent(req[r].key, req[r].row.external_id, req[r].amount)
  /\ TakeAnswer(r, RefundCall(req[r].row.external_id, req[r].amount))
  /\ UNCHANGED dbVars

\* Wrong: the payment's amount recorded for the refund's.
CreateRefundCommitWhole(r) ==
  /\ Commits(r, "refund", "refund.created")
  /\ refunds' = [refunds EXCEPT ![req[r].key] =
       [payment |-> req[r].pay, external_id |-> req[r].ans.refund,
        amount |-> req[r].row.amount,
        status |-> RefundStatusOf(req[r].ans.status)]]
  /\ UNCHANGED payments

\* INSERT: no lookup by key came before it, so a repeat meets the unique index.
CreateRefundCommit(r) ==
  /\ Commits(r, "refund", "refund.created")
  /\ refunds' = [refunds EXCEPT ![req[r].key] =
       [payment |-> req[r].pay,
        external_id |-> req[r].ans.refund,
        amount |-> req[r].amount,
        status |-> RefundStatusOf(req[r].ans.status)]]
  /\ UNCHANGED payments
-------------------------------------------------------------------------------
RefundServiceStep(r) ==
  CreateRefundChecks(r) \/ CreateRefundCall(r) \/ CreateRefundCommit(r)

RefundServiceNext ==
  \E r \in Requests :
    \/ \E k \in PayKeys, key \in IdemKeys, cred \in Credentials,
          amount \in Amounts \cup {None} : CreateRefund(r, k, key, amount, cred)
    \/ RefundServiceStep(r)
===============================================================================
