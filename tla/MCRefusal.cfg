SPECIFICATION Spec
CONSTANTS
  Nodes <- ThreeNodes
  Local = 2
  MaxMoves = 0
  MaxRefusal = 0
CHECK_DEADLOCK FALSE
INVARIANTS
  RefusalIsNot69
