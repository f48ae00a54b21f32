SPECIFICATION LiveSpec
CONSTANTS
  Calls = {k1}
  Conns = {home}
  Home = home
  MaxPaths = 1
  YoloModes = {FALSE}
PROPERTIES
  AbortedTurnEnds
CHECK_DEADLOCK FALSE
