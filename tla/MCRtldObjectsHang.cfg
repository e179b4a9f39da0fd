SPECIFICATION FairSpec
CONSTANTS
  a = a
  b = b
  c = c
  d = d
  e = e
  f = f
  g = g
  t1 = t1
  t2 = t2
  t3 = t3
  None = None
  Threads = {t1, t2}
  Libs = {a, b, c, d}
  Needs <- Stacked
  FnCount <- OneEach
  Unloadable = {}
  BadVersion = {a}
  BadReloc = {c}
  InitFirst = {}
  NoDelete = {}
  Modes <- Plain
  Callers = {}
  SizeMax = 3
  MaxCxa <- NoDtors
  MaxOps <- ThreeCalls
PROPERTY AllReturn
