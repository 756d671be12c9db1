\* Ids 0 to 3, so that a gap of two can be filled in part and out of order; the
\* first is warmup.  Four packets fill the reservoir of two twice over.
\* Up to five samples; JSON values two containers deep; options of three
\* members.  IntRange stands for 2^64, PortRange and CountRange for the widths.
\* Three blocks of packets.csv: the header and two rows, so that a part of the
\* file is out when a receiver is killed and a second one writes over the middle.
CONSTANTS
  MaxId = 3
  WarmupCount = 1
  Delays = {2, 5}
  ReservoirCap = 2
  MaxPackets = 4
  Unknown = Unknown
  Scale = 60
  Samples = {0, 1, 4, 10}
  MaxSamples = 5
  Settings <- MCSettings
  PortRange = 65536
  CountRange = 100000
  MinMtu = 97
  Empty = Empty
  Invalid = Invalid
  IntRange = 8
  MaxDepth = 2
  Numbers <- MCNumbers
  Words = {"t"}
  Keys <- MCKeys
  MaxItems = 3
  Receivers = {r1, r2}
  Senders = {s1}
  Second = r2
  Blocks <- MCBlocks
  SummaryBlocks <- MCSummaryBlocks
  MaxRows = 3
  NoFile = NoFile
  Hole = Hole
SPECIFICATION ResultsSpec
INVARIANTS
  RepeatsAreFlagged
  GapsBalance
  GapsCoverMissing
  ReservoirIsASample
  AccumulatorsMatchRows
  JitterAgainstPrevious
  SummaryIsOfMeasuredRows
  WelfordIsTwoPass
  PercentilesInOrder
  PayloadComesBack
  RecordedConfigReproduces
  FinishedRunIsWhole
  ScanSucceeds
CHECK_DEADLOCK FALSE
