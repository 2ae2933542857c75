SPECIFICATION FairCommandSpec
CONSTANTS
  c1 = c1
  c2 = c2
  i1 = i1
  i2 = i2
  game = game
  move = move
  attack = attack
  None = None
  Commands = {c1, c2}
  Partitions <- MCPartitions
  PartitionOf <- SecondPartition
  Instances = {i1, i2}
  Subscribers = {game}
  Rules <- OneIngress
  Requests <- MCRequests
  GivenId <- C2HasAnId
  Issued = 1
  MaxDeliver = 2
  MaxFaults = 2
  MaxStops = 1
INVARIANTS
  CommandTypeOK
  NoOvertaking
  CallOrderKept
  AckedWasHandled
  OneAtATime
  PublishedOnce
PROPERTIES
  EventuallyHandled
CHECK_DEADLOCK FALSE
