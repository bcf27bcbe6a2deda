CONSTANTS
  Servers = {s1}
  NumLevels = 1
  Cardinalities = {1, 3}
  DomainCap = 2
  MaxLevels = 1
  Ttl = 1
  MaxTime = 0
  MaxStarts = 2
  MaxStops = 1
  MaxChanges = 1
SPECIFICATION Spec
INVARIANTS
  CardinalityDiffed
CHECK_DEADLOCK FALSE
