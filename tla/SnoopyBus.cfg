SPECIFICATION Spec
CONSTANTS
  cpu1 = cpu1
  cpu2 = cpu2
  cpu3 = cpu3
  x = x
  y = y
  Local = {cpu1, cpu2, cpu3}
  Remote = Remote
  Tag = {x}
  NoBlock = NoBlock
  NoID = NoID
  NoTransfer = NoTransfer
  Associativity = 1
  hitTime = 1
  missTime = 2
  evictionTime = 1
  invalidateTime = 1
  evictionPolicy = "LRU"
  class <- MOESI
  readTime = 3
  dataTime = 3
  plainTime = 1
  MaxRequests = 3
  MaxInvalidates = 1
SYMMETRY Symmetry
INVARIANTS
  TypeOK
  ResponsesAreCounted
  IdleIsDone
CHECK_DEADLOCK FALSE
