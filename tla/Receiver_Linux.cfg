CONSTANTS
  MsgCount = 2
  WarmupCount = 1
  MaxArrivals = 4
  Capacity = 2
  FlushEvery = 2
  WakesOnStop = FALSE
  Sentinel = Sentinel
  Null = Null
SPECIFICATION FairSpec
PROPERTY ReceiverTerminates
CHECK_DEADLOCK FALSE
