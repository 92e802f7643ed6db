\* CheckDeadlock is off: a stage calls as many helpers as it likes, here at most MaxCalls.
SPECIFICATION Spec
CHECK_DEADLOCK FALSE
CONSTANTS
  Keys <- MCKeys
  Fields <- MCFields
  Helpers <- MCHelpers
  AppCommands <- MCAppCommands
  MaxCalls = 6
  MaxApp = 2
  MaxTimeouts = 1
  Million = 100
  Precision = 7
INVARIANTS
  WrittenFieldsAreExpected
PROPERTIES
  OnlyTheFieldChanges
  LifetimeIsKept
