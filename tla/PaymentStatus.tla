---------------------------- MODULE PaymentStatus ----------------------------
(***************************************************************************)
(* The status vocabulary of the gateway and the tables its services        *)
(* consult before they write payments.status: no state, only data.         *)
(***************************************************************************)

\* payments.status as the services write it
Statuses == {"pending", "requires_action", "processing", "succeeded", "failed",
             "canceled", "partially_refunded", "refunded", "disputed"}

\* Two ways to get the next table wrong: the provider's words passed on as they
\* are, and an unsettled payment taken for a settled one.
RAW_STATUS_MAP ==
  [s \in {"requires_payment_method", "requires_confirmation", "requires_action",
          "processing", "requires_capture", "succeeded", "canceled"} |-> s]

OPTIMISTIC_STATUS_MAP ==
  [RAW_STATUS_MAP EXCEPT !.requires_payment_method = "pending",
                         !.requires_confirmation = "pending",
                         !.processing = "succeeded",
                         !.requires_capture = "succeeded"]

\* What a PaymentIntent may report, to the gateway's own vocabulary.
STRIPE_PAYMENT_STATUS_MAP ==
  [requires_payment_method |-> "pending",
   requires_confirmation   |-> "pending",
   requires_action         |-> "requires_action",
   processing              |-> "processing",
   requires_capture        |-> "processing",
   succeeded               |-> "succeeded",
   canceled                |-> "canceled"]

StripeStatuses == DOMAIN STRIPE_PAYMENT_STATUS_MAP

\* Wrong: a refund taken for settled as soon as it exists.
OPTIMISTIC_REFUND_MAP ==
  [pending |-> "succeeded", succeeded |-> "succeeded", failed |-> "failed",
   canceled |-> "failed"]

STRIPE_REFUND_STATUS_MAP ==
  [pending |-> "pending", succeeded |-> "succeeded", failed |-> "failed",
   canceled |-> "failed"]

\* What a Refund may report: one status more than the map has.
StripeRefundStatuses == {"requires_action"} \cup DOMAIN STRIPE_REFUND_STATUS_MAP

\* _map_refund: a status that is not in the map is passed on as it is.
RefundStatusOf(s) ==
  IF s \in DOMAIN STRIPE_REFUND_STATUS_MAP THEN STRIPE_REFUND_STATUS_MAP[s] ELSE s

RefundStatuses == {RefundStatusOf(s) : s \in StripeRefundStatuses}

\* The transitions a webhook handler may apply.
VALID_TRANSITIONS ==
  [pending            |-> {"processing", "requires_action", "succeeded", "failed",
                           "canceled"},
   processing         |-> {"succeeded", "failed"},
   requires_action    |-> {"succeeded", "failed", "canceled"},
   succeeded          |-> {"refunded", "partially_refunded", "disputed"},
   partially_refunded |-> {"refunded", "disputed"}]

CanTransition(current, target) ==
  /\ current \in DOMAIN VALID_TRANSITIONS
  /\ target \in VALID_TRANSITIONS[current]

\* Statuses cancel_payment and create_refund accept.
CANCELABLE_STATUSES == {"pending", "requires_action", "processing"}
REFUNDABLE_STATUSES == {"succeeded", "partially_refunded"}

\* Statuses that tell a reader of the row that the customer's money was taken.
CapturedStatuses == {"succeeded", "partially_refunded", "refunded", "disputed"}
===============================================================================
