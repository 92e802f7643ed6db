\* Two Testers in one process: what still holds; liveness.
SPECIFICATION FairSpec
CONSTANTS
  Testers = {t1, t2}
  Callers = {c1, c2}
  Stages = {s1}
  NoStage = NoStage
  NoTester = NoTester
  NoCaller = NoCaller
  MaxActions = 1
  MaxStages = 1
INVARIANTS
  RunsExcludePerTester
  AdmittedCallsWaitForNoRun
PROPERTIES
  EveryCallReturns
