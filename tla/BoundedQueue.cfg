\* Two producers and two consumers, so that a consumer can overtake a woken one
\* and two wakeups can be in flight; one controller that calls stop, reset, size.
CONSTANTS
  Producers = {p1, p2}
  Consumers = {c1, c2}
  Controllers = {m1}
  Nobody = Nobody
  Capacity = 2
  MaxCalls = 2
SPECIFICATION FairSpec
INVARIANTS
  NoLostWakeup
PROPERTIES
  ImplementsFifo
  StopEndsConsumers
\* a consumer may wait for ever on a queue that nobody stops
CHECK_DEADLOCK FALSE
