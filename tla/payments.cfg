SPECIFICATION Spec
CONSTANTS
  None = None
  IdemKeys = {k1, k2}
  PayKeys = {k1}
  Intents = {pi1}
  RefundIds = {}
  Amounts = {1}
  Requests = {r1, r2, r3}
  ApiKeys = {}
  Jwts = {jwt}
  Ops = {"create", "confirm", "cancel"}
  Workers = {w1}
  Outcomes = {"succeeded", "canceled", "requires_payment_method", "processing"}
  Subscribed = {"payment_intent.succeeded", "payment_intent.payment_failed", "payment_intent.canceled",
                "payment_intent.processing"}
  MaxEvents = 3
  MaxFaults = 0
  CommitBeforeResponse = TRUE
SYMMETRY Symmetry
INVARIANTS TypeOK StatusSound TimestampsAudited Inv
PROPERTIES TimestampsStay ImplementsPaymentLedger
CHECK_DEADLOCK FALSE
