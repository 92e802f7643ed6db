\* Two requests on up to three stages (two names) and an unknown name: safety and liveness.
SPECIFICATION FairSpec
CONSTANTS
  Requests = {r1, r2}
  Registrable = {a, b}
  Unregistered = {u}
  NoRequest = NoRequest
  MaxStages = 3
  MaxActions = 1
INVARIANTS
  StatusTellsOutcome
  PrerequisitesPassed
  RunAllRunsEverything
  ManualActionsRunAlone
PROPERTIES
  EveryRequestEnds
CHECK_DEADLOCK FALSE
