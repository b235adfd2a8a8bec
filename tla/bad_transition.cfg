SPECIFICATION Spec
CONSTANTS
  None = None
  IdemKeys = {k1, k2}
  PayKeys = {k1}
  Intents = {pi1}
  RefundIds = {}
  Amounts = {1}
  Requests = {r1}
  ApiKeys = {}
  Jwts = {jwt}
  Ops = {"create"}
  Workers = {w1, w2}
  Outcomes = {"succeeded", "canceled", "requires_payment_method", "processing", "requires_action"}
  Subscribed = {"payment_intent.succeeded", "payment_intent.payment_failed", "payment_intent.canceled",
                "payment_intent.processing", "payment_intent.requires_action"}
  MaxEvents = 2
  MaxFaults = 0
  CommitBeforeResponse = TRUE
PROPERTY WebhookTransitionsValid
CHECK_DEADLOCK FALSE
