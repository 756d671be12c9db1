CONSTANTS
  MsgCount = 2
  WarmupCount = 1
  MaxArrivals = 4
  Capacity = 2
  FlushEvery = 2
  WakesOnStop = TRUE
  Sentinel = Sentinel
  Null = Null
SPECIFICATION FairSpec
INVARIANT NoUseAfterDestruction
CHECK_DEADLOCK FALSE
