SPECIFICATION Spec
CONSTANTS
  BatchSize = 2
  MaxBufferSize = 3
  Unlimited = Unlimited
  MaxEvents = 7
  MaxFaults = 3
INVARIANTS
  BufferWithinCap
CHECK_DEADLOCK FALSE
