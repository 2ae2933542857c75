SPECIFICATION Spec
CONSTANTS
  alice = alice
  bob = bob
  s1 = s1
  s2 = s2
  Public = Public
  Private = Private
  Nobody = Nobody
  Subscriptions = {s1, s2}
  Identities = {alice, bob}
  IdentityOf <- Subscriber
  Wants <- Filter
  Comps = {Public, Private}
  Owned = {Private}
  QueueSize = 2
  MaxEvents = 3
  MaxTransfers = 1
INVARIANTS
  TypeOK
  InOrderWithoutGaps
  OnlyStaleIsShed
  NoReaderForgotten
  OnlyOwnersHear
CHECK_DEADLOCK FALSE
