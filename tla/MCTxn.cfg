SPECIFICATION Spec
CONSTANTS
  Pids <- TwoPids
  Others <- OnePid
  Modulus = 16
  StartXid = 15
  XactWarn = 1
  PreparedWarn = 1
  MaxClock = 1
  MaxXids = 2
CHECK_DEADLOCK FALSE
INVARIANTS
  TypeOK
  OldestNamed
  ScanFindsOldest
PROPERTIES
  Answers
