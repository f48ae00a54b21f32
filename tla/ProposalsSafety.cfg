SPECIFICATION LiveSpec
CONSTANTS
  Calls = {k1}
  Conns = {home, other}
  Home = home
  MaxPaths = 2
  YoloModes = {TRUE, FALSE}
INVARIANTS
  TypeOK
  NoLostWakeup
  SettledBeforeNext
PROPERTIES
  YoloTurnEnds
