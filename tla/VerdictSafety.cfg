SPECIFICATION Spec
CONSTANTS
  Terminals = {t}
  Progress = {a, b}
  Blanks = {n}
  Silent = s
  MaxTurns = 7
  MaxStrikes = 3
  MinCycles = 2
  MaxPeriod = 2
INVARIANTS
  TypeOK
  RepetitionEnds
  StrikesEnd
  StruckForCause
  TerminalCounts
