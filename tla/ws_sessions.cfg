SPECIFICATION FairSpec
CONSTANTS
  s1 = s1
  s2 = s2
  i1 = i1
  i2 = i2
  t1 = t1
  t2 = t2
  None = None
  Sockets = {s1, s2}
  Identities = {i1, i2}
  Handshake <- Handshakes
  IdentityOf <- Adapter
  MaxWork = 2
  MaxTransfers = 1
  MaxFaults = 1
INVARIANTS
  TypeOK
  RoomsAreTheirs
  MapsFollowSockets
  OnlyOwnersAreSent
  JoinedOwnersMissNothing
  WorldInOrder
  AskersAreTold
PROPERTIES
  EveryoneIsSettled
CHECK_DEADLOCK FALSE
