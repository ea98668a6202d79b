SPECIFICATION PositionsSpec
CONSTANTS
  Unit = 2
  MaxVotes = 3
  MaxCount = 4
  MaxFrozen = 5
INVARIANTS
  PositionsTypeOK
  ExactSum
  FairShare
CHECK_DEADLOCK FALSE
