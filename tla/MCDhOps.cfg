CONSTANTS
  Width = 20
  SumStart <- MinusZero
  TakesMinus <- LastIsMinus
  Tables <- MCTables
  AggFns = {"sum", "min", "max", "count", "count_distinct"}
  FilterOps = {"eq", "ne", "lt", "le", "gt", "ge", "is_null", "is_not_null"}
  Periods = {"month", "quarter", "year"}
  TopSizes = {2}
  MaxQueries = 2
  MaxSets = 3
SPECIFICATION Spec
INVARIANTS
  TypeOK
  RanksAgree
  KernelsAgree
  DrillFindsGroup
CHECK_DEADLOCK FALSE
