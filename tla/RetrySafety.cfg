SPECIFICATION Spec
CONSTANTS
  Categories <- MCCategories
  Deadline <- MCDeadline
  Base <- MCBase
  MaxDelay <- MCMaxDelay
  Hints = {0, 3, 9}
  CallTime = 2
  MaxTime = 24
  None = None
INVARIANTS
  TypeOK
  AbortedEndsSoon
  OneCategoryEnds
  HintHonored
CHECK_DEADLOCK FALSE
