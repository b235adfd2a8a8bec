SPECIFICATION Spec
CONSTANTS
  None = None
  IdemKeys = {k1, k2}
  PayKeys = {k1, k2}
  Intents = {pi1, pi2}
  RefundIds = {}
  Amounts = {1, 2}
  Requests = {r1, r2, r3}
  ApiKeys = {key}
  Jwts = {jwt}
  Ops = {"create", "confirm"}
  Workers = {w1}
  Outcomes = {"succeeded"}
  Subscribed = {"payment_intent.created"}
  MaxEvents = 1
  MaxFaults = 0
  CommitBeforeResponse = TRUE
SYMMETRY Symmetry
INVARIANTS CreatedIsStored CreationsRecoverable CollisionsAcrossCredentials CreationsInv
CHECK_DEADLOCK FALSE
