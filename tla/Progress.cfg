SPECIFICATION FairSpec
CONSTANTS
  a1 = a1
  d1 = d1
  d2 = d2
  d3 = d3
  p1 = p1
  p2 = p2
  u1 = u1
  u2 = u2
  t1 = t1
  t2 = t2
  t3 = t3
  Activities = {a1}
  Dogs = {d1}
  Passes = {p1}
  Users = {u1}
  ResIds = {1, 2}
  Txs = {t1, t2}
  NoTx = NoTx
  NoRow = NoRow
  DogOwner <- MCOwner
  PassOwner <- MCPayer
  NumSessions <- OneSession
  Ops = {"register", "cancel", "editPass"}
  Times = {0}
  Lag = 0
  LateWindow = 1
  Duration = 1
  OpenActivity <- GroupOf2
  FirstExpiry <- NeverExpires
  MaxVersion = 2
  Blocks <- NoPairs
  Reviews <- NoPairs
  Special = {}
  SizeFits <- AllSizes
INVARIANTS TypeOK
PROPERTIES EveryRequestReturns PassEditsSurvive
