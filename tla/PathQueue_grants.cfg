\* An upload, a copy and a deletion of overlapping paths, with a retry or not.
SPECIFICATION FairSpec
CONSTANTS
  upload = upload
  delete = delete
  copy = copy
  tab1 = tab1
  tab2 = tab2
  Op <- MCOp
  Owner <- MCOwner
  KindOf <- MCKind
  OwnerOf <- MCOwnerOf
  Dropped <- MCDropped
  Scope <- MCScope
  RetryCount = 1
  MaxRequests = 3
  MaxCancels = 1
INVARIANTS TypeOK Exclusive NoOvertaking NothingOverlooked OccupancyOwned StillWanted
PROPERTIES QueueServed
CHECK_DEADLOCK FALSE
