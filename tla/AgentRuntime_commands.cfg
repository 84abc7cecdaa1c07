\* The user's commands against a Turn, with a crash and refused appends: safety.
SPECIFICATION Spec
CONSTANTS
  Messages = {m1}
  m1 = m1
  Goal = Goal
  CallKinds = {"command", "question"}
  MaxCalls = 1
  MaxSteps = 2
  MaxRequests = 3
  MaxCrashes = 1
  AppendsFail = TRUE
  None = None
INVARIANTS
  TypeOK
  EffectsAuthorized
  DispatchedOnce
  DecidedOnce
  EffectsBeforeEnd
  DeliveredOnce
CHECK_DEADLOCK FALSE
