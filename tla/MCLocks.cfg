SPECIFICATION Spec
CONSTANTS
  Pids <- TwoPids
  Gids <- OneGid
  Others <- OnePid
  Objs <- TwoObjs
  Kind <- KindOf
  Targets <- AllTargets
  Warn = 1
  MaxClock = 1
  MaxMoves = 3
CHECK_DEADLOCK FALSE
INVARIANTS
  TypeOK
  ShowsHolder
PROPERTIES
  Answers
