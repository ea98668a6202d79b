SPECIFICATION MCSpec
CONSTANTS
  Caller = {c1, c2}
  o1 = o1
  Other <- MCOther
  SeedScanMax = 3
  SeedScanGapLimit = 2
  SEED_SCAN_BATCH = 2
  StakeCacheTtl = 2
  MaxChanges = 1
  MaxTime = 3
PROPERTY
  CurrentAfterTtl
