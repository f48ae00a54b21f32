SPECIFICATION Spec
CONSTANTS
  Runs = {r1, r2}
  Names = {n1}
  MaxLogs = 1
  MaxEntries = 2
  Callers = {k1, k2}
  None = None
INVARIANTS
  TypeOK
  FamiliesApart
  SetsFlowDown
  RootsUnambiguous
PROPERTIES
  NothingIntrudes
SYMMETRY Symmetry
CHECK_DEADLOCK FALSE
