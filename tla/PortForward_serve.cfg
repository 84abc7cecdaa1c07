\* One rule, two owners that open and leave, the user who starts, stops and
\* clears: two starts in all; the core waits while a message is on its way.
SPECIFICATION FairSpec
CONSTANTS
  Rules <- OneRule
  Owners = 2
  User = User
  MaxOps = 2
  MaxInbox = 1
INVARIANTS TypeOK RowsAgree NothingLeftBehind
PROPERTIES OwnerlessStops StartReturns
CHECK_DEADLOCK FALSE
