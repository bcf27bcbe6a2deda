CONSTANTS
  Clients = {c1, c2}
  PageSize = 2
  Ttl = 1
  RowCounts = {3, 4}
  MaxMinted = 2
  MaxTime = 2
  MaxRestarts = 1
SPECIFICATION FairSpec
INVARIANTS
  PagesExact
PROPERTIES
  TtlKept
  ReadEnds
  ReadsPaged
CHECK_DEADLOCK FALSE
