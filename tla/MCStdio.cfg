SPECIFICATION Spec
CONSTANTS
  x = x
  nl = nl
  Bytes = {x, nl}
  NL = nl
  BufSize = 3
  BlkSize = 2
  UbufSize = 1
  BigUb = 2
  Files <- Contents
  MaxLen = 4
  MaxPush = 2
  MaxCount = 3
VIEW StreamView
INVARIANTS
  TypeOK
  BufferSafe
  OffsetKnown
PROPERTIES
  BehavesAsFile
