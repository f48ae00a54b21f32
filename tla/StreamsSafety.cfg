SPECIFICATION LiveSpec
CONSTANTS
  Channels = {1, 2}
  MaxChunks = 2
  MaxRefused = 1
  Close = close
  Launch = launch
  Cancels = {k1}
  Locals = {TRUE}
INVARIANTS
  TypeOK
  InOrder
  NothingLost
  OutcomeLast
PROPERTIES
  ExitIsRecorded
