SPECIFICATION Spec
CONSTANTS
  h = h
  a = a
  b = b
  i1 = i1
  i2 = i2
  NoNode = NoNode
  Node = {h, a, b}
  Home = h
  MsgID = {i1, i2}
  MaxMemoryWrites = 1
SYMMETRY Symmetry
INVARIANTS
  TypeOK
  OneKindOfLookup
  OneFetch
  FetchMatchesLookup
  InvalidationRound
  RequestTracked
  EvictionHandshake
PROPERTIES
  GrantIsExclusive
