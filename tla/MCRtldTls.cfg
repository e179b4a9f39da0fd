SPECIFICATION Spec
CONSTANTS
  main = main
  libi = libi
  p = p
  q = q
  r = r
  t0 = t0
  t1 = t1
  NoObj = NoObj
  Threads = {t0, t1}
  MainThread = t0
  Objs = {main, libi, p, q, r}
  MainObj = main
  Initial = {main, libi}
  Size <- Sizes
  Align <- Aligns
  InitSize <- InitSizes
  Tpoff <- TpoffRefs
  Reservation = 3
  BaseAlign = 2
  MaxLoads = 5
INVARIANTS
  TypeOK
  StaticPlaced
  ModelsAgree
  OwnBlock
  NoLeak
PROPERTIES
  AddressStable
