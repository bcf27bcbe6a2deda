SPECIFICATION TokenSpec
CONSTANTS
  Callers = {c1, c2}
  Lifetimes = {1, 3}
  Skew = 1
  MaxTime = 6
SYMMETRY Symmetry
INVARIANTS
  AliveWithinSkew
PROPERTIES
  NoNeedlessFetch
