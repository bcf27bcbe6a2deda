CONSTANTS
  MaxTotalBytes = 4
  Sizes = {1, 3}
  Ttls = {1}
  Sweepers = {}
  Idle = Idle
  MaxMinted = 4
  MaxTime = 0
  StoreTtl = 1
  Shapes <- MCShapes
  InlineThreshold = 1
  PageSize = 2
SPECIFICATION SessionSpec
PROPERTIES
  DrillNearest
  ReplyUsable
CHECK_DEADLOCK FALSE
