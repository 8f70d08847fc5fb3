SPECIFICATION SyncSpec
CONSTANTS
  c1 = c1
  c2 = c2
  Clients <- TwoClients
  Talkers <- OneTalker
  Cap = 1
  MaxVersion = 3
INVARIANT NewsIsOnItsWay
PROPERTY CatchesUp
CHECK_DEADLOCK FALSE
