\* The gate never overflows and nothing fails: is the output in order?
SPECIFICATION Spec
CONSTANTS
  MaxChunks = 3
  MaxGated = 3
  WireCap = 1
  MaxBurst = 2
  FlowHigh = 2
  FlowLow = 1
  ScreenHigh = 1
  ScreenLow = 0
  MaxFaults = 0
INVARIANT InOrder
CHECK_DEADLOCK FALSE
