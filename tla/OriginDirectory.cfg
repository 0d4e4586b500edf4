SPECIFICATION Spec
CONSTANTS
  n1 = n1
  n2 = n2
  n3 = n3
  Node = {n1, n2, n3}
  Home = n1
  NoNode = NoNode
  NoMsg = NoMsg
  missTime = 13
  hitTime = 10
  evictionTime = 1
  invalidateTime = 1
  askReadTime = 11
  askInvalidateTime = 1
  localSendTime = 4
  remoteSendTime = 4
  lookupRetryTime = 60
  memoryTime = 57
  Scenarios <- Networks
CHECK_DEADLOCK FALSE
INVARIANTS
  TypeOK
  AcksAreCounted
  MemoryIsAsked
  BusyIsAnswered
  EvictionHandshake
  CacheIsServed
  RequestIsOut
PROPERTIES
  OnlyEvictionsForgetReads
