SPECIFICATION Spec
CONSTANTS
  x = x
  y = y
  z = z
  NoBlock = NoBlock
  NoID = NoID
  Tag = {x, y}
  Associativity1 = 1
  hitTime1 = 1
  missTime1 = 2
  Associativity2 = 1
  hitTime2 = 3
  missTime2 = 4
  evictionTime = 1
  invalidateTime = 1
  evictionPolicy = "LRU"
  Classes <- AllClasses
  MaxRequests = 3
  MaxFetches = 2
SYMMETRY Symmetry
INVARIANTS
  TypeOK
  LockedIffWaiting
  FrameWaitersWillWake
  WaitersAreServed
  FetchesAreServed
  OwnsOnlyWhatWasGranted
CHECK_DEADLOCK FALSE
