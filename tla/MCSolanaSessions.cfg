SPECIFICATION MCSpec
CONSTANTS
  Session = {s1, s2}
  Amount = {1, 2}
  SeedScanMax = 1
  MinDelegation = 2
  Rent = 1
  BaseFee = 1
  PriorityFee = 1
  WalletMin = 2
  Cushion = 2
  Validity = 1
  EpochBlocks = 2
  MaxAttempts = 2
  MaxHeight = 2
  MaxDeposits = 1
SYMMETRY Symmetry
INVARIANT
  TypeOK
  StakedOnceUnlessWarned
PROPERTY
  RefusedOnlyIfChanged
CHECK_DEADLOCK FALSE
