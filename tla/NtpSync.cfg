\* Two attempts of two ticks each.  The NTP era ends at time 1, while queries
\* are under way; skews of 0 and 5 are beyond the error of any offset.
\* The server always takes a tick over a request, so that its two timestamps differ.
CONSTANTS
  Skews = {0, 5}
  Retries = 2
  Timeout = 2
  Epoch = 15
  Modulus = 16
  Pauses = {1}
  MaxStart = 0
  MaxTime = 5
SPECIFICATION FairSpec
INVARIANTS
  OffsetWithinHalfRoundTrip
  DelayErrorIsTwiceTheSkew
PROPERTY QueryEnds
CHECK_DEADLOCK FALSE
