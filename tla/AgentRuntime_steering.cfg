\* Violated: a message that steers an idle Session is claimed and never given.
SPECIFICATION Spec
CONSTANTS
  Messages = {m1}
  m1 = m1
  Goal = Goal
  CallKinds = {"command"}
  MaxCalls = 1
  MaxSteps = 1
  MaxRequests = 2
  MaxCrashes = 0
  AppendsFail = FALSE
  None = None
INVARIANT ClaimedIsGiven
CHECK_DEADLOCK FALSE
