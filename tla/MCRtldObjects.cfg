SPECIFICATION Spec
CONSTANTS
  a = a
  b = b
  c = c
  d = d
  e = e
  f = f
  g = g
  t1 = t1
  t2 = t2
  t3 = t3
  None = None
  Threads = {t1, t2, t3}
  Libs = {a, b, c, d}
  Needs <- Shared
  FnCount <- Arrays
  Unloadable = {}
  BadVersion = {}
  BadReloc = {}
  InitFirst = {b}
  NoDelete = {}
  Modes <- PinC
  Callers = {b, d}
  SizeMax = 3
  MaxCxa <- DtorInA
  MaxOps <- FiveInAll
SYMMETRY PairSymmetry
INVARIANTS
  TypeOK
  NoUseAfterFree
  NeverUndercounted
  MembersLive
  FiniDead
  FiniAfterInit
  HandleUsable
  OneAtATime
  CallsRelocated
PROPERTIES
  InitAfterNeeded
