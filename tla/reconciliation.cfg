SPECIFICATION FairReconSpec
CONSTANTS
  None = None
  IdemKeys = {k1, k2}
  PayKeys = {k1, k2}
  Intents = {pi1, pi2}
  RefundIds = {}
  Amounts = {1}
  Requests = {r1, r2}
  ApiKeys = {}
  Jwts = {jwt}
  Ops = {"create"}
  Workers = {}
  Outcomes = {}
  Subscribed = {}
  MaxEvents = 0
  MaxFaults = 0
  CommitBeforeResponse = TRUE
  MaxClock = 3
  TicksPerSecond = 2
  PageSize = 1
  Ranges <- RangesOf3Ticks
INVARIANTS MissingProviderIsBoundary LostCreationsReported MatchedNeverOverstated
PROPERTY ReconciliationEnds
CHECK_DEADLOCK FALSE
