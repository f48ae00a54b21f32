SPECIFICATION Spec
CONSTANTS
  Ceiling = 6
  Persona = 1
  Catalogs = {2, 4}
  Sizes = {1, 4}
  ErrorSize = 1
  Slack = 1
  MaxLoops = 2
  MaxTurns = 3
  MaxTokens = 40
INVARIANTS
  TypeOK
  NearMiss
  BodiesClearedOnce
  ToldBeforeSent
CHECK_DEADLOCK FALSE
