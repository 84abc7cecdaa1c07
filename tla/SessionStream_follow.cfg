\* Two calls of connect or reconnect, pages of one event, one live event lost
\* and one call to the core that fails.
SPECIFICATION FairSpec
CONSTANTS
  Calls = {c1, c2}
  c1 = c1
  c2 = c2
  Work = Work
  None = None
  PageSize = 1
  MaxLimit = 1
  MaxEvents = 2
  MaxLost = 1
  MaxFaults = 1
INVARIANTS TypeOK PrefixOfLog
PROPERTIES ConnectReadsAll ShownGrows Follows
CHECK_DEADLOCK FALSE
