\* Gate, credits and pauses, with failing calls and reloads.
SPECIFICATION FairSpec
CONSTANTS
  MaxChunks = 2
  MaxGated = 1
  WireCap = 2
  MaxBurst = 2
  FlowHigh = 2
  FlowLow = 1
  ScreenHigh = 1
  ScreenLow = 0
  MaxFaults = 2
INVARIANTS TypeOK OrderKept CreditsExact PauseAgrees
PROPERTIES OutputShown EndShown
CHECK_DEADLOCK FALSE
