CONSTANTS
  Procs = {p1, p2}
  First = p1
  MaxAlone = 3
  Queries = {q1, q2}
  RunStatuses = {"Open", "Confirmed", "Refuted"}
  SetStatuses = {"Confirmed", "Suppressed"}
  MaxTime = 1
  MaxOps = 4
  MaxCrashes = 1
  Budgets = {0, 2}
  HypothesisSets = {0, 3}
SPECIFICATION MCSpec
INVARIANTS
  NeverOvercounted
  ReadBackFinds
  OneActiveAlone
  BudgetHonoured
  RecordsWhatWasFound
PROPERTIES
  ImplementsAlone
CHECK_DEADLOCK FALSE
