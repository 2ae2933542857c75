SPECIFICATION FairSpec
CONSTANTS
  BatchSize = 2
  MaxBufferSize = 3
  Unlimited = Unlimited
  MaxEvents = 7
  MaxFaults = 3
INVARIANTS
  TypeOK
  StoredInOrder
  DrainedIsComplete
PROPERTIES
  EventuallyStored
CHECK_DEADLOCK FALSE
