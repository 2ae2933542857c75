SPECIFICATION TurnsSpec
CONSTANTS
  Deck = Deck
  Coins = Coins
  Rank = Rank
  p1 = p1
  k1 = k1
  k2 = k2
  b0 = b0
  b1 = b1
  Null = Null
  Comps = {Deck, Coins, Rank}
  Persistent = {Deck, Coins}
  Projected = {Coins, Rank}
  Keys = {k1, k2}
  Bodies = {b0, b1}
  DefaultBody = b0
  ColumnDefault = Null
  Nullable = TRUE
  Procs = {p1}
  Ops = {"get", "has", "add", "update", "upsert", "remove", "guard"}
  MaxCalls = 1
  MaxFaults = 0
  BatchOps = {"reads", "adds", "updates", "upserts"}
  BatchSize = 2
INVARIANTS
  StoresAgreeWhenQuiet
PROPERTIES
  ImplementsStore
CHECK_DEADLOCK FALSE
