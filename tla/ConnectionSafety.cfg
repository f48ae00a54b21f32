SPECIFICATION Spec
CONSTANTS
  Conns = {c1, c2}
  Calls = {k1, k2}
  Runs = {r1, r2}
  Keys = {q1}
  Ids = {Null}
  Null = Null
  None = None
SYMMETRY Symmetry
INVARIANTS
  TypeOK
  AnsweredOnce
  CloseDrains
PROPERTY
  RowsOfOneId
CHECK_DEADLOCK FALSE
