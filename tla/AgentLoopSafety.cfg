SPECIFICATION Spec
CONSTANTS
  Conns = {c1, c2}
  Callers = {k1, k2}
  NoConn = NoConn
  Drains = {d1, d2}
  NoDrain = NoDrain
  MaxLoops = 2
  MaxTurns = 1
  ClientStatuses = {200, 499}
SYMMETRY Symmetry
INVARIANTS
  TypeOK
  ExclusiveExecution
PROPERTIES
  TerminalIsFinal
