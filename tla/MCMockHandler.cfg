\* CheckDeadlock is off: a call ends.
SPECIFICATION Spec
CHECK_DEADLOCK FALSE
CONSTANTS
  Calls <- MCCalls
  Patterns <- MCPatterns
  Steps <- MCSteps
  MaxSteps = 3
  MaxInt = 2047
  MaxLength = 2
  Precision = 7
  Million = 100
  Millisecond = 3
INVARIANTS
  RouteIsFirstThatFits
  ReplyIsOfTheActiveCase
  PanicsOnlyOnBadNumbers
