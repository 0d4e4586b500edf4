SPECIFICATION CoherenceSpec
CONSTANTS
  h = h
  a = a
  i1 = i1
  i2 = i2
  i3 = i3
  x = x
  y = y
  NoNode = NoNode
  NoBlock = NoBlock
  NoID = NoID
  Node = {h, a}
  Home = h
  MsgID = {i1, i2, i3}
  MaxMemoryWrites = 1
  Tag = {x, y}
  Addr = x
  Associativity = 1
  hitTime = 10
  missTime = 13
  evictionTime = 1
  invalidateTime = 1
  evictionPolicy = "LRU"
  MaxRequests = 3
SYMMETRY Symmetry
INVARIANTS
  CoherenceTypeOK
  LockedIffWaiting
  FrameWaitersWillWake
  WaitersAreServed
PROPERTIES
  CachesKeepContract
CHECK_DEADLOCK FALSE
