SPECIFICATION CacheSpec
CONSTANTS
  Key = {k1, k2}
  Value = {v1, v2}
  Undefined = Undefined
  TTL = {0, 1, 3}
  DefaultTTL = 2
  MaxClock = 5
INVARIANT
  CacheTypeOK
PROPERTY
  ImplementsContract
