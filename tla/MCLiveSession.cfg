SPECIFICATION Spec
CONSTANTS
  k1 = k1
  k2 = k2
  Sockets <- Reconnects
  MaxChunk = 3
  Failures = TRUE
INVARIANT ProcessedOnce
PROPERTY RunningIsNotForgotten
CHECK_DEADLOCK FALSE
