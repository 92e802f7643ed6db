\* One connection, whose page fetches or only streams: safety and liveness.
SPECIFICATION FairStreamSpec
CONSTANTS
  Clients = {c1}
  Capacity = 2
  MaxStatus = 2
  MaxLogs = 2
  MaxRefresh = 1
  MaxFetches = 1
INVARIANTS
  ChannelsAreSafe
  NothingMissed
PROPERTIES
  PageCatchesUp
  ClosedStreamsEnd
CHECK_DEADLOCK FALSE
