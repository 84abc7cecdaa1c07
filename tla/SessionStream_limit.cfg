\* The limits of the code: a page of 1,024 events is refused.
SPECIFICATION Spec
CONSTANTS
  Calls = {c1}
  c1 = c1
  Work = Work
  None = None
  PageSize = 1024
  MaxLimit = 1000
  MaxEvents = 2
  MaxLost = 1
  MaxFaults = 1
INVARIANT FailsOnlyOnFault
CHECK_DEADLOCK FALSE
