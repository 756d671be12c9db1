CONSTANTS
  MsgCount = 2
  WarmupCount = 1
  MaxArrivals = 4
  Capacity = 2
  FlushEvery = 2
  WakesOnStop = TRUE
  Sentinel = Sentinel
  Null = Null
SPECIFICATION FairSpec
INVARIANTS
  EveryPacketAccounted
  SummaryNeverOvercounts
  AcceptedBeforeStopIsSaved
PROPERTIES
  HandledSentinelIsReported
  ReceiverTerminates
CHECK_DEADLOCK FALSE
