SPECIFICATION MCSpec
CONSTANTS
  s1 = s1
  s2 = s2
  StakeAccount <- MCStakeAccount
  Stake <- MCStake
  RentExempt = 1
  RateNum = 1
  RateDen = 4
  Rest <- MCRest
  HistoryDepth = 3
  MaxEpoch = 4
INVARIANT
  AgreesWithChain
