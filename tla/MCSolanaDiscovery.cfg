SPECIFICATION MCSpec
CONSTANTS
  Caller = {c1, c2}
  o1 = o1
  Other <- MCOther
  SeedScanMax = 3
  SeedScanGapLimit = 2
  SEED_SCAN_BATCH = 2
  StakeCacheTtl = 1
  MaxChanges = 2
  MaxTime = 2
SYMMETRY Symmetry
INVARIANT
  TypeOK
PROPERTIES
  NoGhosts
  NothingMissed
  FallbackSeesAll
