CONSTANTS
  Deadline = 6
  DeadlineMax = 8
  Overrides = {3, 9}
  MaxRetries = 2
  BaseMs = 1
  MaxBackoffMs = 3
  MaxResultRows = 3
  Limits = {0, 2, 5}
  NoLimit = NoLimit
  FullSizes = {0, 3, 4, 6}
  MaxTokenWait = 7
SPECIFICATION FairSpec
INVARIANTS
  OverrunBounded
  OutcomeIsTrue
PROPERTIES
  CallReturns
CHECK_DEADLOCK FALSE
