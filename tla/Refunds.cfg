SPECIFICATION Spec
CONSTANTS
  a1 = a1
  d1 = d1
  d2 = d2
  d3 = d3
  p1 = p1
  p2 = p2
  u1 = u1
  u2 = u2
  t1 = t1
  t2 = t2
  t3 = t3
  Activities = {a1}
  Dogs = {d1}
  Passes = {p1}
  Users = {u1}
  ResIds = {1, 2}
  Txs = {t1, t2, t3}
  NoTx = NoTx
  NoRow = NoRow
  DogOwner <- MCOwner
  PassOwner <- MCPayer
  NumSessions <- TwoSessions
  Ops = {"register", "cancel", "forgive", "confirm", "reject"}
  Times = {0, 1, 2}
  Lag = 1
  LateWindow = 1
  Duration = 1
  OpenActivity <- GroupOf2
  FirstExpiry <- NeverExpires
  MaxVersion = 0
  Blocks <- NoPairs
  Reviews <- NoPairs
  Special = {d1}
  SizeFits <- AllSizes
SYMMETRY TxSymmetry
INVARIANTS SessionLedger MovementsMatchBookings NoDeadlock
PROPERTIES StatusMachine ImplementsPassLedger
