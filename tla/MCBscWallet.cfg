SPECIFICATION MCSpec
CONSTANTS
  v1 = v1
  v2 = v2
  Session = {s1, s2}
  Viewer = {w}
  Validator = {v1, v2}
  Amount = {2}
  MaxUnbond = 3
  UnbondClamp = 64
  BatchSize = 15
  MIN_DELEGATION_AMOUNT = 2
  Penalty = {2}
  MaxRewards = 1
  MaxSlashes = 1
SYMMETRY Symmetry
INVARIANT
  TypeOK
  NoRequestTwice
PROPERTY
  MaxLeavesNothing
  RefusedOnlyIfChanged
CHECK_DEADLOCK FALSE
