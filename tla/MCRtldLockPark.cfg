SPECIFICATION FairSpec
CONSTANTS
  Threads = {1, 2, 3}
  Mask = 16
  ParkModes = {TRUE}
  MaxDepth = 1
  MaxOps = 1
  MaxSignals = 0
INVARIANTS
  MutualExclusion
  QuiescentClean
PROPERTIES
  EveryoneEnters
