SPECIFICATION LiveSpec
CONSTANTS
  Conns = {c1}
  Callers = {k1, k2}
  NoConn = NoConn
  Drains = {d1, d2}
  NoDrain = NoDrain
  MaxLoops = 2
  MaxTurns = 1
  ClientStatuses = {}
PROPERTIES
  QueuedIsClaimed
CHECK_DEADLOCK FALSE
