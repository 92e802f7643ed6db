\* Two runs, four commands, timeouts and stages that never return: safety and liveness.
SPECIFICATION FairSessionSpec
CONSTANTS
  MaxRuns = 2
  MaxCommands = 4
  MaxBeats = 1
  HasTimeout = TRUE
INVARIANTS
  OneStageExecutes
  LinesOfARunAreOrdered
  ReportsAreTrue
  EndWaitsForStages
PROPERTIES
  RunIsAnswered
CHECK_DEADLOCK FALSE
