SPECIFICATION Spec
CONSTANTS
  a = a
  b = b
  c = c
  d = d
  e = e
  f = f
  g = g
  t1 = t1
  t2 = t2
  t3 = t3
  None = None
  Threads = {t1}
  Libs = {a, b, c, d}
  Needs <- Shared
  FnCount <- OneEach
  Unloadable = {}
  BadVersion = {}
  BadReloc = {}
  InitFirst = {}
  NoDelete = {}
  Modes <- Plain
  Callers = {}
  SizeMax = 3
  MaxCxa <- NoDtors
  MaxOps <- FiveCalls
INVARIANT DagsLive
