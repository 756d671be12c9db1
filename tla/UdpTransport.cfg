\* Two messages of one to five chunks, numbers of fragments that wrap at four.
CONSTANTS
  MsgCount = 2
  ChunkCounts = {1, 3, 4, 5}
  FragModulus = 4
  Expiry = 0
  MaxCopies = 2
  MaxArrivals = 5
  Sentinel = Sentinel
  Empty = Empty
SPECIFICATION Spec
INVARIANTS
  DeliveredIntact
  CompleteArrivalsAreDelivered
  TimedOutIsNotReceived
PROPERTY
  ImplementsChannel
CHECK_DEADLOCK FALSE
