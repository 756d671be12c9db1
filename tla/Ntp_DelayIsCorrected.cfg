\* Two clocks that differ, each brought to the server's by its own offset.
CONSTANTS
  Skews = {0, 5}
  Retries = 2
  Timeout = 2
  Epoch = 15
  Modulus = 16
  Pauses = {1}
  MaxStart = 0
  MaxTime = 5
SPECIFICATION Spec
INVARIANT DelayIsCorrected
CHECK_DEADLOCK FALSE
