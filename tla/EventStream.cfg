SPECIFICATION Spec
CONSTANTS
  QueueSize = 2
  MaxSeq = 4
  MaxWire = 2
  MaxFaults = 3
INVARIANTS
  LossAccounted
  BufferBounded
PROPERTIES
  DeliveredInOrder
  StartsOnce
CHECK_DEADLOCK FALSE
