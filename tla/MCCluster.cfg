SPECIFICATION Spec
CONSTANTS
  Nodes <- ThreeNodes
  Local = 2
  MaxMoves = 3
  MaxRefusal = 1
CHECK_DEADLOCK FALSE
INVARIANTS
  TypeOK
  
  MissesNothing
  MetadataRead
PROPERTIES
  Answers
