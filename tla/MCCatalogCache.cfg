CONSTANTS
  Servers = {s1, s2}
  NumLevels = 1
  Cardinalities = {1, 3}
  DomainCap = 2
  MaxLevels = 1
  Ttl = 1
  MaxTime = 2
  MaxStarts = 3
  MaxStops = 1
  MaxChanges = 1
SPECIFICATION Spec
SYMMETRY Symmetry
INVARIANTS
  StaleWithinTtl
  RepublishNoticed
PROPERTIES
  ReplacedAtOnce
CHECK_DEADLOCK FALSE
