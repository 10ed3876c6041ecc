SPECIFICATION Spec
CONSTANTS
  Oids <- TwoOids
  MaxMoves = 2
CHECK_DEADLOCK FALSE
INVARIANTS
  AlarmIsWhole
