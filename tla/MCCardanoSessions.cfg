SPECIFICATION MCSpec
CONSTANTS
  Session = {s1, s2}
  Claim = {3, 6}
  CallerFee = {50, 200}
  Deposit = {1250, 1300}
  Coin = {700}
  MinFeeA = 1
  MinFeeB = 97
  MinUtxo = 600
  BaseSize = 7
  InputSize = 1
  CertSize = 1
  WithdrawalSize = 1
  PageSize = 2
  MaxPages = 2
  Validity = 2
  Reward = 2
  MaxSlot = 3
  MaxChanges = 1
SYMMETRY Symmetry
INVARIANT
  TypeOK
  EstimateSuffices
PROPERTY
  RefusedOnlyIfChanged
CHECK_DEADLOCK FALSE
