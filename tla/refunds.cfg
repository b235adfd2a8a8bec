SPECIFICATION Spec
CONSTANTS
  None = None
  IdemKeys = {k1, k2, k3}
  PayKeys = {k1}
  Intents = {pi1}
  RefundIds = {re1, re2}
  Amounts = {1, 2}
  Requests = {r1, r2, r3}
  ApiKeys = {}
  Jwts = {jwt}
  Ops = {"create", "refund"}
  Workers = {w1}
  Outcomes = {"succeeded"}
  Subscribed = {"payment_intent.succeeded", "charge.refunded", "charge.dispute.created"}
  MaxEvents = 3
  MaxFaults = 0
  CommitBeforeResponse = TRUE
SYMMETRY Symmetry
INVARIANTS RefundRowsBacked RefundsWithinAmount RefundStatusSound RecordsInv TotalsInv
CHECK_DEADLOCK FALSE
