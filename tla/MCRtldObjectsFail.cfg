SPECIFICATION Spec
CONSTANTS
  a = a
  b = b
  c = c
  d = d
  e = e
  f = f
  g = g
  t1 = t1
  t2 = t2
  t3 = t3
  None = None
  Threads = {t1, t2, t3}
  Libs = {a, b, c, d, e, f, g}
  Needs <- Failing
  FnCount <- OneEach
  Unloadable = {c}
  BadVersion = {a}
  BadReloc = {f}
  InitFirst = {}
  NoDelete = {g}
  Modes <- NotG
  Callers = {}
  SizeMax = 3
  MaxCxa <- NoDtors
  MaxOps <- TwoCalls
SYMMETRY ThreadSymmetry
INVARIANTS
  NoUseAfterFree
  NeverUndercounted
  MembersLive
  DlrefExact
  FiniDead
