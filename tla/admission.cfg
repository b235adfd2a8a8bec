SPECIFICATION AdmissionSpec
CONSTANTS
  None = None
  MaxRequests = 3
  RateKeys = {"apikey", "ip"}
  Limits = {1, 2}
  Window = 2
  MaxClock = 2
  ApiKeys = {a1, a2}
  Bearer = bearer
  RateKeyOf <- KeysOfOnePrefix
  Asks <- AsksOfAll
  PoolSize = 2
INVARIANTS AdmittedWithinLimit RefusedByTraffic NoGridlock
PROPERTIES EndedKeysStayOut ValidKeysAccepted
CHECK_DEADLOCK FALSE
