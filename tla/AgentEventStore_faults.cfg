\* Every fault of the environment: what still holds, and that the queue drains.
SPECIFICATION FairSpec
CONSTANTS
  c1 = c1
  c2 = c2
  Creators = {create}
  Calls = {c1, c2}
  Archivals = {arch}
  MaxBatch = 2
  MaxLog = 5
  MaxTime = 2
  MaxStarts = 3
  Faults = {"unterminated", "writeError", "repairCrash", "powerLoss"}
  Torn = Torn
  None = None
INVARIANTS
  TypeOK
  LogReloadable
  AppendsPublishedInOrder
  OneHome
PROPERTY QueueDrains
CHECK_DEADLOCK FALSE
