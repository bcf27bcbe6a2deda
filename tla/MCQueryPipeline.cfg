SPECIFICATION Spec
CONSTANTS
  Servers <- MCServers
  SetUp <- MCSetUp
  Queries <- MCQueries
  ClusterArgs = {"auto", "west", "north"}
  MaxFlips = 1
  MaxTries = 2
  EstimateWidth = 1000
INVARIANTS
  BackendJustified
  AnswersWhatWasAsked
  DaxKeepsContext
  ProjectionBounded
  BoundJoins
  AdviceNeverCircles
PROPERTIES
  Implements
CHECK_DEADLOCK FALSE
