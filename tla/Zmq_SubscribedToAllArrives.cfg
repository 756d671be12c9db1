\* One sender and nothing that fails.
SPECIFICATION Spec
CONSTANTS
  Senders = {s1}
  Sizes <- MCSizes
  Topics <- MCTopics
  Qos = {0}
  Hwm = 1
  MaxFailures = 0
  MaxLength = 3
  Topic = Topic
  Nothing = Nothing
CHECK_DEADLOCK FALSE
PROPERTY SubscribedToAllArrives
