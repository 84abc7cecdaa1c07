\* Every kind of tool call: Turns do not overlap, and they settle.
SPECIFICATION FairSpec
CONSTANTS
  Messages = {m1}
  m1 = m1
  Goal = Goal
  CallKinds = {"command", "question", "list", "denied", "malformed"}
  MaxCalls = 1
  MaxSteps = 1
  MaxRequests = 3
  MaxCrashes = 0
  AppendsFail = FALSE
  None = None
INVARIANT TurnsDoNotOverlap
PROPERTY TurnSettles
CHECK_DEADLOCK FALSE
