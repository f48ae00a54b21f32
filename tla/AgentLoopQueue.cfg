SPECIFICATION Spec
CONSTANTS
  Conns = {c1, c2}
  Callers = {k1, k2}
  NoConn = NoConn
  Drains = {d1, d2}
  NoDrain = NoDrain
  MaxLoops = 3
  MaxTurns = 1
  ClientStatuses = {}
SYMMETRY Symmetry
INVARIANTS
  StatusFollowsLoop
  ClosedInOrder
  SequencesUnique
PROPERTIES
  ImplementsQueue
