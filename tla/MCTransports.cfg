SPECIFICATION Spec
CONSTANTS
  Senders = {s1, s2}
  Sizes <- MCSizes
  Topics <- MCTopics
  Qos = {0, 1}
  Hwm = 1
  MaxFailures = 1
  MaxLength = 3
  Topic = Topic
  Nothing = Nothing
CHECK_DEADLOCK FALSE
INVARIANTS
  FaultlessStreamIsIntact
  AtMostOneAfterStop
PROPERTIES
  ImplementsChannel
  CompletedArrive
