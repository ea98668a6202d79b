SPECIFICATION Spec
CONSTANTS
  MaxItems = 5
  MaxLimit = 4
INVARIANTS
  TypeOK
  NoItemTwice
  ResolvedInOrder
  WithinLimit
PROPERTY
  Quiesces
CHECK_DEADLOCK FALSE
