SPECIFICATION Spec
CONSTANTS
  x = x
  y = y
  z = z
  NoBlock = NoBlock
  NoID = NoID
  Tag = {x, y, z}
  Associativity1 = 2
  hitTime1 = 1
  missTime1 = 2
  Associativity2 = 2
  hitTime2 = 3
  missTime2 = 4
  evictionTime = 1
  invalidateTime = 1
  evictionPolicy = "LRU"
  Classes <- OnlyBIPMOESI
  MaxRequests = 4
  MaxFetches = 1
SYMMETRY Symmetry
CHECK_DEADLOCK FALSE
INVARIANT EvictionsAreCleanedUp
