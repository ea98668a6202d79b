SPECIFICATION MCSpec
CONSTANTS
  Session = {s1, s2}
  SR = {sr1, sr2, sr3}
  Witness = {sr1, sr2}
  Amount = {2, 3}
  SUN_PER_TRX = 2
  ESTIMATED_TX_BANDWIDTH = 1
  MaxUnfreezing = 2
  Life = 0
  MaxHeight = 1
  MaxChanges = 1
SYMMETRY Symmetry
INVARIANT
  TypeOK
PROPERTY
  RefusedOnlyIfChanged
CHECK_DEADLOCK FALSE
