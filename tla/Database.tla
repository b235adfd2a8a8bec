------------------------------- MODULE Database -------------------------------
(***************************************************************************)
(* The PostgreSQL tables the services share, as the committed rows every   *)
(* READ COMMITTED statement sees.  A table with a unique column is a       *)
(* function of that column, so a second INSERT of the same value has no    *)
(* room: the action that would do it is the one that meets IntegrityError. *)
(***************************************************************************)
EXTENDS Identifiers, Totals, Bags, PaymentStatus

CONSTANT
  CommitBeforeResponse   \* whether get_db's commit precedes the response, as it
                         \* does with FastAPI before 0.118 and not since

ASSUME CommitOrderIsFlag == CommitBeforeResponse \in BOOLEAN

VARIABLES
  payments,        \* payments.idempotency_key -> row, or None
  refunds,         \* refunds.idempotency_key -> row, or None
  webhook_events,  \* committed webhook_events rows, a set of [event, processed]
  audit_log,       \* append-only: a bag of [action, pay, by]
  locks            \* rows written by a session that answered before its commit

dbVars == <<payments, refunds, webhook_events, audit_log, locks>>

\* Timestamps and failure details are kept as "set or NULL".
PaymentRows == [external_id : Intents, status : Statuses, amount : Amounts,
                confirmed_at : BOOLEAN, canceled_at : BOOLEAN,
                failure_code : BOOLEAN]

RefundRows == [payment : IdemKeys, external_id : RefundIds, amount : Nat \ {0},
               status : RefundStatuses]

ASSUME NoneIsNoRow == None \notin PaymentRows \cup RefundRows

AuditActions ==
  {"payment.created", "payment.confirmed", "payment.canceled", "refund.created",
   "payment.confirmed_via_webhook", "payment.failed_via_webhook",
   "payment.canceled_via_webhook", "refund.completed_via_webhook",
   "payment.disputed"}

DbInit == /\ payments = [k \in IdemKeys |-> None]
          /\ refunds = [k \in IdemKeys |-> None]
          /\ webhook_events = {}
          /\ audit_log = EmptyBag
          /\ locks = {}

\* The payments whose external_id is pi: the SELECT of the webhook handlers.
PaymentsOf(pi) == {k \in IdemKeys : /\ payments[k] # None
                                    /\ payments[k].external_id = pi}

AmountOfRows(rows) == Total([x \in rows |-> refunds[x].amount])

\* Wrong: refunds counted whatever their status.
RefundedAmountOfAll(k, settled) ==
  AmountOfRows({x \in IdemKeys : refunds[x] # None /\ refunds[x].payment = k})

\* compute_refunded_amount over the rows that relationship "refunds" loads with
\* payment k, when the session has set the refunds in settled to "succeeded".
RefundedAmount(k, settled) ==
  AmountOfRows({x \in IdemKeys : /\ refunds[x] # None
                                 /\ refunds[x].payment = k
                                 /\ \/ refunds[x].status = "succeeded"
                                    \/ x \in settled})

\* A flushed row stays locked until its session ends.  Where flush and commit
\* are one step nobody meets the lock.  A flush that changes nothing takes none:
\* here it does, which delays only writes that commute with it.
Rows == {"payments", "refunds"} \X IdemKeys
Lock(x) == x \notin locks /\ locks' = locks \cup {x}
Unlock(x) == locks' = locks \ {x}

\* Wrong: an UPDATE of every column.
FlushWholeRow(k, loaded, new) == payments' = [payments EXCEPT ![k] = new]

(***************************************************************************)
(* The UPDATE a session flushes: a column is written only if its value     *)
(* differs from the one the session loaded, whatever the row holds by now. *)
(* No version column and no FOR UPDATE: the last writer of a column wins.  *)
(***************************************************************************)
Flush(k, loaded, new) ==
  payments' = [payments EXCEPT ![k] =
                 [c \in DOMAIN @ |-> IF new[c] # loaded[c] THEN new[c] ELSE @[c]]]

\* audit_service.log_action, in the transaction of what it reports
LogAction(action, k, by) ==
  audit_log' = audit_log (+) SetToBag({[action |-> action, pay |-> k, by |-> by]})

\* Payment k has an audit row with one of the given actions.
AuditedAs(k, actions) ==
  \E e \in BagToSet(audit_log) : e.pay = k /\ e.action \in actions
===============================================================================
