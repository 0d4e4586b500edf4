SPECIFICATION Spec
CONSTANTS
  f1 = f1
  f2 = f2
  f3 = f3
  f4 = f4
  c1 = c1
  c2 = c2
  c3 = c3
  NoContainer = NoContainer
  Function = {f1, f2, f3, f4}
  Container = {c1, c2, c3}
  MaxDelay = 2
  MaxTick = 6
  MaxPerTick = 5
SYMMETRY Symmetry
INVARIANTS
  TypeOK
  VectorsAreSeparate
  OneCallPerFunction
  NothingLeftBehind
PROPERTIES
  ImplementsQueue
CHECK_DEADLOCK FALSE
