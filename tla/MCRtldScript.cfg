SPECIFICATION ScriptSpec
CONSTANTS
  n = n
  u = u
  k = k
  m = m
  r = r
  x = x
  t1 = t1
  t2 = t2
  t3 = t3
  t4 = t4
  None = None
  Threads = {t1, t2, t3, t4}
  Libs = {n, u, k, m, r, x}
  Needs <- NeedsScript
  FnCount <- FnScript
  Unloadable = {u}
  BadVersion = {}
  BadReloc = {}
  InitFirst = {}
  NoDelete = {}
  Modes <- ModesScript
  Callers = {}
  SizeMax = 3
  MaxCxa <- CxaScript
  MaxOps <- OpsScript
INVARIANT GenerationTells
