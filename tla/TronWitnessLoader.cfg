SPECIFICATION LoaderSpec
CONSTANTS
  Task = {t1, t2}
  LoadId = {l1, l2}
  FetchId = {f1, f2}
  None = None
  CACHE_TTL = 2
  PARAMS_TTL = 1
  Latency = 1
  MaxTime = 6
INVARIANTS
  LoaderTypeOK
  SingleFlight
  NoWaitOverLiveEntry
PROPERTIES
  StalenessBound
  ServedNeverGoesBack
  EveryCallSettles
  InflightIsReleased
