SPECIFICATION FairSpec
CONSTANTS
  None = None
  IdemKeys = {k1, k2}
  PayKeys = {k1}
  Intents = {pi1}
  RefundIds = {}
  Amounts = {1}
  Requests = {r1}
  ApiKeys = {}
  Jwts = {jwt}
  Ops = {"create"}
  Workers = {w1, w2}
  Outcomes = {"succeeded", "canceled", "requires_payment_method"}
  Subscribed = {"payment_intent.succeeded", "payment_intent.payment_failed", "payment_intent.canceled"}
  MaxEvents = 3
  MaxFaults = 2
  CommitBeforeResponse = TRUE
INVARIANTS EventAppliedOnce AckedIsProcessed
PROPERTIES EventsSettle ImplementsEventLedger
CHECK_DEADLOCK FALSE
