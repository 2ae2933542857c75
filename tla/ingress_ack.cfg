SPECIFICATION Spec
CONSTANTS
  c1 = c1
  c2 = c2
  c3 = c3
  i1 = i1
  i2 = i2
  game = game
  sink = sink
  None = None
  Commands = {c1, c2, c3}
  Partitions = {1}
  PartitionOf <- OnePartition
  Instances = {i1, i2}
  Subscribers = {game, sink}
  GivenId <- C2HasAnId
  Issued = 1
  MaxDeliver = 2
  MaxFaults = 2
INVARIANTS
  AcknowledgedAfterHandler
CHECK_DEADLOCK FALSE
