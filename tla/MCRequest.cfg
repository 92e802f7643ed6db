\* CheckDeadlock is off: a stage that failed, or expects no more, ends.
SPECIFICATION Spec
CHECK_DEADLOCK FALSE
CONSTANTS
  Options <- MCOptions
  MaxOptions = 3
  Replies <- MCReplies
  Servers <- MCServers
  Expectations <- MCExpectations
  Precision = 7
  Million = 100
INVARIANTS
  ContentTypeIsTheCallers
  ExpectationsAreTrue
