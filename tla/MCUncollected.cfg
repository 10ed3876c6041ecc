SPECIFICATION Spec
CONSTANTS
  Commands <- AllCommands
  Probes <- AllProbes
  Disks <- StatProbes
  OneRow <- SingleRowProbes
  Gate <- AllGates
  Table <- CommandTable
  MaxFlips = 0
  Largest = 127
  Millisecond = 10
  ServerLargest = 9
CHECK_DEADLOCK FALSE
INVARIANT
  NothingUncollected
