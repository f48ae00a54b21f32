SPECIFICATION LiveSpec
CONSTANTS
  Conns = {c1, c2}
  Callers = {k1}
  NoConn = NoConn
  Drains = {d1, d2}
  NoDrain = NoDrain
  MaxLoops = 2
  MaxTurns = 1
  ClientStatuses = {499}
PROPERTIES
  ClaimedIsClosed
  WaitingIsClaimed
CHECK_DEADLOCK FALSE
