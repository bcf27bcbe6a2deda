CONSTANTS
  Procs = {p1}
  RotateAt = 3
  MayTear = TRUE
  MaxSlots = 8
  MaxRecords = 12
  MaxCrashes = 4
SPECIFICATION Spec
INVARIANTS
  NothingLost
  FilesKept
  OneLostPerTear
PROPERTIES
  RotationClosesGap
CHECK_DEADLOCK FALSE
