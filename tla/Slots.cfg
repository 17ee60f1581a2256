SPECIFICATION Spec
CONSTANTS
  a1 = a1
  d1 = d1
  d2 = d2
  d3 = d3
  p1 = p1
  p2 = p2
  u1 = u1
  u2 = u2
  t1 = t1
  t2 = t2
  t3 = t3
  Activities = {a1}
  Dogs = {d1, d2, d3}
  Passes = {p1, p2}
  Users = {u1, u2}
  ResIds = {1, 2, 3}
  Txs = {t1, t2}
  NoTx = NoTx
  NoRow = NoRow
  DogOwner <- MCOwner
  PassOwner <- MCPayer
  NumSessions <- TwoSessions
  Ops = {"register", "confirm", "cancel"}
  Times = {0}
  Lag = 0
  LateWindow = 1
  Duration = 1
  OpenActivity <- GroupOf2
  FirstExpiry <- NeverExpires
  MaxVersion = 0
  Blocks <- D1D2
  Reviews <- D1D3
  Special = {}
  SizeFits <- AllSizes
SYMMETRY TxSymmetry
INVARIANTS NoOverbooking OneActiveBooking MeetingsAreVetted OwnPassPays
