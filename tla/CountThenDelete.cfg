SPECIFICATION LifecycleSpec
CONSTANTS
  a1 = a1
  a2 = a2
  d1 = d1
  d2 = d2
  p1 = p1
  u1 = u1
  t1 = t1
  t2 = t2
  t3 = t3
  Activities = {a1}
  Dogs = {d1}
  Passes = {p1}
  Users = {u1}
  ResIds = {1, 2}
  Txs = {t1, t2}
  NoTx = NoTx
  NoRow = NoRow
  DogOwner <- MCOwner
  PassOwner <- MCPayer
  NumSessions <- TwoSessions
  Ops = {"register", "deleteActivity"}
  Times = {0}
  Lag = 0
  LateWindow = 1
  Duration = 1
  OpenActivity <- GroupOf2
  FirstExpiry <- NeverExpires
  MaxVersion = 0
  Blocks <- NoPairs
  Reviews <- NoPairs
  Special = {}
  SizeFits <- AllSizes
  Caps <- NoCaps
  Dates <- NoDates
SYMMETRY TxSymmetry
PROPERTIES NoBookedActivityDeleted
