SPECIFICATION Spec
CONSTANTS
  k1 = k1
  k2 = k2
  Sockets <- OneSocket
  MaxChunk = 3
  Failures = TRUE
PROPERTY QueueDrains
PROPERTY InHandEnds
CHECK_DEADLOCK FALSE
