SPECIFICATION Spec
CONSTANTS
  k1 = k1
  k2 = k2
  k3 = k3
  w1 = w1
  w2 = w2
  Chunks <- ThreeChunks
  Warmups <- TwoWarmups
  MaxStarts = 3
INVARIANT AnswersMatch
INVARIANT NoneLeftBehind
PROPERTY RequestsEnd
CHECK_DEADLOCK FALSE
