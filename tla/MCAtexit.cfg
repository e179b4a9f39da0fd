SPECIFICATION Spec
CONSTANTS
  t1 = t1
  t2 = t2
  d1 = d1
  d2 = d2
  NoThread = NoThread
  NoDso = NoDso
  Threads = {t1, t2}
  MaxHandlers = 4
  Dsos = {d1, d2}
  NStatic = 2
  NHeap = 2
  MaxFinalize = 2
INVARIANTS
  TypeOK
  NoUseAfterFree
  CyclicOnlyAtExit
PROPERTIES
  CallsInOrder
  FinalizeReturns
