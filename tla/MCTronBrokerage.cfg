SPECIFICATION Spec
CONSTANTS
  Call = {c1, c2}
  s1 = s1
  s2 = s2
  s3 = s3
  SR <- MCSR
  Pages <- MCPages
  None = None
  BROKERAGE_CONCURRENCY = 2
  BROKERAGE_TTL = 1
  MaxTime = 1
INVARIANTS
  TypeOK
  OneFetchPerSR
PROPERTIES
  DefaultOnlyFromOwnWait
  EveryCallIsAMap
  EveryPageIsDelivered
CHECK_DEADLOCK FALSE
