SPECIFICATION Spec
CONSTANTS
  Servers <- MCServers
  SetUp <- MCSetUp
  Queries <- MCQueries
  ClusterArgs = {"auto", "west", "north"}
  MaxFlips = 1
  MaxTries = 2
  EstimateWidth = 1000
INVARIANTS
  DowngradeAnswers
CHECK_DEADLOCK FALSE
