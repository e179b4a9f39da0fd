SPECIFICATION FairSpec
CONSTANTS
  Threads = {1, 2}
  Mask = 16
  ParkModes = {FALSE}
  MaxDepth = 2
  MaxOps = 2
  MaxSignals = 2
INVARIANTS
  TypeOK
  MutualExclusion
  LockWord
  NoFalseDeadlock
  QuiescentClean
PROPERTIES
  EveryoneEnters
  Implements
