SPECIFICATION FairSpec
CONSTANTS
  h = h
  a = a
  b = b
  i1 = i1
  i2 = i2
  NoNode = NoNode
  Node = {h, a}
  Home = h
  MsgID = {i1, i2}
  MaxMemoryWrites = 1
PROPERTIES
  AcceptedLookupIsAnswered
