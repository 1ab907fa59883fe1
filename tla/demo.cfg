CONSTANTS
  None = None
  Pid = {p1}
  Answers <- SomeAnswers
  Lefts <- FewLefts
  MaxUnits = None
  MaxOthers = 2
  Scenarios <- ByHand
SPECIFICATION DemoSpec
CHECK_DEADLOCK FALSE
INVARIANT DemoTypeOK
PROPERTY TickIsEarned
INVARIANT StopsAtSecondStep
PROPERTY DrillNeedsOthers
INVARIANT CopiedEmergencyIsRefused
INVARIANT CapHoldsAtMarket
INVARIANT DashboardAgrees
PROPERTY TimeoutIsEarned
