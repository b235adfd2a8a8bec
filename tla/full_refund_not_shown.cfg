SPECIFICATION Spec
CONSTANTS
  None = None
  IdemKeys = {k1, k2}
  PayKeys = {k1}
  Intents = {pi1}
  RefundIds = {re1}
  Amounts = {1}
  Requests = {r1, r2}
  ApiKeys = {}
  Jwts = {jwt}
  Ops = {"create", "refund"}
  Workers = {w1}
  Outcomes = {"succeeded"}
  Subscribed = {"payment_intent.succeeded", "charge.refunded"}
  MaxEvents = 2
  MaxFaults = 0
  CommitBeforeResponse = TRUE
INVARIANT FullRefundsShown
CHECK_DEADLOCK FALSE
