\* One Tester, three goroutines: safety and the refinement.
SPECIFICATION Spec
CONSTANTS
  Testers = {t1}
  Callers = {c1, c2, c3}
  Stages = {s1, s2}
  NoStage = NoStage
  NoTester = NoTester
  NoCaller = NoCaller
  MaxActions = 2
  MaxStages = 2
SYMMETRY Symmetry
PROPERTIES
  IsDryRunAnswersForTheCaller
  SerialSpec
