\* A second is three ticks: at two or three messages a second the interval is one
\* tick, and a send of two ticks makes the next ones late; at one message a
\* second sends are in time.  IdRange stands for 2^64.
CONSTANTS
  Plans <- MCPlans
  Second = 3
  RecordCount = 2
  SendTimes = {0, 2}
  MaxFailures = 1
  IdRange = 16
  Latency = 1
  Copies = 2
  MaxStart = 1
  MaxOverflow = 1
  CountRange = 64
  Null = Null
SPECIFICATION EndToEndSpec
INVARIANTS
  RecordsFollowIds
  LogIsWhatLeft
  SentinelCountsAttempts
  KeepsSchedule
  LossIsWhatIsMissing
  SentinelInTime
CHECK_DEADLOCK FALSE
