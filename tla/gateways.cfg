SPECIFICATION Spec
CONSTANTS
  e1 = e1
  e2 = e2
  i1 = i1
  i2 = i2
  player = player
  admin = admin
  f1 = f1
  f2 = f2
  None = None
  Blank = Blank
  DefaultRoles = {player}
  Sent <- SentSet
  c1 = c1
  c2 = c2
  Clients = {c1, c2}
  Identities = {i1, i2}
  Entities = {e1, e2}
  Rank <- Order
  SelfOf <- Self
  Listed <- ListedSet
  Projections <- ProjectionSet
  Inbounds <- InboundSet
  Envelopes <- EnvelopeSet
  ParamDefs <- DefSet
  RawParams <- RawSet
  NumberText <- Numbers
  DateText <- Dates
  Value <- Values
  OwnedBy = "column"
  MaxRows = 1
  Ttl = 1
  MaxLatency = 1
  MaxTime = 2
  MaxCalls <- Calls
  MaxTransfers = 1
  MaxFaults <- Faults
SYMMETRY ClientSymmetry
INVARIANTS
  TypeOK
  WritersOwned
  WritesAlike
  SnapshotsWithinAudience
  EntitledAreServed
  CollectionsAreRecent
  HandlersGetDeclared
  QueriesAlike
CHECK_DEADLOCK FALSE
