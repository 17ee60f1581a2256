SPECIFICATION FrontDoorSpec
CONSTANTS
  e1 = e1
  e2 = e2
  h1 = h1
  h2 = h2
  h3 = h3
  i1 = i1
  k1 = k1
  k2 = k2
  None = None
  Handlers = {h1, h2, h3}
  Emails = {e1, e2}
  Addresses = {i1}
  Burst = 2
  Rate = 1
  Idle = 2
  MaxDebt = 2
  Horizon = 3
  Patient = {e1, e2}
  EmailMax = 1
  IPMax = 3
  EmailWindow = 2
  IPWindow = 2
  RetentionFloor = 1
  MaxRows = 4
  Ids = {k1, k2}
  Roles = {"ADMIN", "REGULAR"}
  Lifetime = 1
  MaxTime = 2
INVARIANTS RetryAfterUnlocks OneExtraAttempt
PROPERTIES AddressHistoryKept
