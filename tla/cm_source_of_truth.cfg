SPECIFICATION Spec
CONSTANTS
  Deck = Deck
  Coins = Coins
  Rank = Rank
  Hand = Hand
  p1 = p1
  p2 = p2
  p3 = p3
  k1 = k1
  k2 = k2
  b0 = b0
  b1 = b1
  Null = Null
  Comps = {Deck}
  Persistent = {Deck}
  Projected = {}
  Keys = {k1, k2}
  Bodies = {b0}
  DefaultBody = b0
  ColumnDefault = Null
  Nullable = TRUE
  Procs = {p1, p2}
  Ops = {"get", "update"}
  MaxCalls = 2
  MaxFaults = 0
INVARIANTS
  JsonbIsSourceOfTruth
CHECK_DEADLOCK FALSE
