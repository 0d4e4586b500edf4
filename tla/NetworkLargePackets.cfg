SPECIFICATION Spec
CONSTANTS
  n1 = n1
  n2 = n2
  Node = {n1, n2}
  Size = {3, 4}
  initialTime = 1
  randomRange = 2
  timePerPacket = 1
  PacketUnit = 2
  perByte = 1
  enforceInOrder = TRUE
  MaxTick = 12
  MaxMessages = 3
CHECK_DEADLOCK FALSE
SYMMETRY Symmetry
INVARIANTS
  TypeOK
  LoadIsExact
  DeliveredInOrder
