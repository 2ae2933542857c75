SPECIFICATION WorkloadSpec
CONSTANTS
  Coins = Coins
  Rank = Rank
  p1 = p1
  p2 = p2
  p3 = p3
  k1 = k1
  k2 = k2
  b0 = b0
  Null = Null
  Comps = {Coins, Rank}
  Persistent = {Coins}
  Projected = {Coins, Rank}
  Keys = {k1, k2}
  Bodies = {b0}
  DefaultBody = b0
  ColumnDefault = Null
  Nullable = TRUE
  Procs = {p1, p2, p3}
  Ops = {"get", "guard", "upsert"}
  MaxCalls = 3
  MaxFaults = 1
  BatchOps = {"reads", "updates", "upserts"}
  BatchSize = 2
  ClaimedKey = k1
SYMMETRY Symmetric
INVARIANTS
  ClaimHasOneWinner
  EqualUpsertIsSilent
  BatchesStayWhole
CHECK_DEADLOCK FALSE
