\* Concurrent and patient clients, a call, two ports: safety and liveness.
SPECIFICATION FairControllerSpec
CONSTANTS
  Ports = {p1, p2}
  Requests = {r1, r2, r3, r4}
  Arrivals = {k1}
  None = None
  Manners = {"concurrent", "patient"}
INVARIANTS
  NoServerIsForgotten
  ResetWaitsForItsServers
PROPERTIES
  ResetsEnd
  PatientClientIsServed
CHECK_DEADLOCK FALSE
