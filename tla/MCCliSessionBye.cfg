\* cli.go:77 against exit.
SPECIFICATION SessionSpec
CONSTANTS
  MaxRuns = 1
  MaxCommands = 2
  MaxBeats = 0
  HasTimeout = FALSE
INVARIANTS
  ResultBeforeBye
CHECK_DEADLOCK FALSE
