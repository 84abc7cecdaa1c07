\* Violated: an abort before the approval is registered is not heard.
SPECIFICATION FairSpec
CONSTANTS
  Messages = {m1}
  m1 = m1
  Goal = Goal
  CallKinds = {"command"}
  MaxCalls = 1
  MaxSteps = 1
  MaxRequests = 2
  MaxCrashes = 0
  AppendsFail = FALSE
  None = None
PROPERTY InterruptedTurnEnds
CHECK_DEADLOCK FALSE
