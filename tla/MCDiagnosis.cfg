SPECIFICATION FairSpec
CONSTANTS
  Commands <- AllCommands
  Probes <- AllProbes
  Disks <- StatProbes
  OneRow <- SingleRowProbes
  Gate <- AllGates
  Table <- CommandTable
  MaxFlips = 2
  Largest = 127
  Millisecond = 10
  ServerLargest = 9
CHECK_DEADLOCK FALSE
INVARIANTS
  TypeOK
  EarnedOK
  RealAlarm
  
PROPERTIES
  Answers
  Nearer
  Ends
