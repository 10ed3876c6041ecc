SPECIFICATION Spec
CONSTANTS
  Count = 2
  Clients = {c1, c2}
  Types <- TwoTypes
  Definitions <- FewDefinitions
  Reshaped <- FewDefinitions
  WalAhead = 1
  MaxMoves = 2
CHECK_DEADLOCK FALSE
INVARIANTS
  TypeOK
  LeftHolds
  LeftIsExact
  FixHelps
PROPERTIES
  Answers
