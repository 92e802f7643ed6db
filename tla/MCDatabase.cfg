\* CheckDeadlock is off: a stage calls as many helpers as it likes, here at most MaxCalls.
SPECIFICATION Spec
CHECK_DEADLOCK FALSE
CONSTANTS
  Drivers = {"oracle", "postgres", "sqlite3", "mysql"}
  Upper <- MCUpper
  Helpers <- MCHelpers
  AppStatements <- MCAppStatements
  Expectations <- MCExpectations
  MaxCalls = 5
  MaxApp = 1
  MaxRows = 2
  Million = 128
  Precision = 7
INVARIANTS
  ResultsAreTrue
PROPERTIES
  SetupGivesTheTable
  OnlyNamedRowsChange
