CONSTANTS
  MaxTotalBytes = 4
  Sizes = {1, 3, 5}
  Ttls = {0, 1}
  Sweepers = {s1}
  Idle = Idle
  MaxMinted = 4
  MaxTime = 1
SPECIFICATION Spec
INVARIANTS
  BytesBounded
PROPERTIES
  NoEarlyExpiry
  EvictsInTurn
  ParentsOutlast
  Implements
CHECK_DEADLOCK FALSE
