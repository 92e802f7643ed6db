\* CheckDeadlock is off: the executions are bounded.
SPECIFICATION Spec
CHECK_DEADLOCK FALSE
CONSTANTS
  Suites <- MCSuites
  Vars <- MCVars
  Ports <- MCPorts
  MaxThings = 4
  MaxMaps = 5
  Kept <- Kept1
  MaxJobs = 4
  Nil = Nil
  Empty = Empty
INVARIANTS
  DryRunTouchesNothing
  ListsFollowTheScript
  PassedStagesDidTheirWork
  CleanedUpIsGone
  UpdatesRaceOnlyOnStartMaps
PROPERTIES
  MocksGetTheirPort
