\* Three packets in sequence order, none of them warmup, all kept.
CONSTANTS
  MaxId = 2
  WarmupCount = 0
  Delays = {2, 5}
  ReservoirCap = 3
  MaxPackets = 3
  Scale = 6
  Unknown = Unknown
SPECIFICATION Spec
INVARIANT JitterIsOfConsecutive
CHECK_DEADLOCK FALSE
