SPECIFICATION ProcessSpec
CONSTANTS
  Limiters = {"login", "register"}
  MaxRequests = 2
  Requests = {"get", "me", "csv"}
  Blobs = {"csv"}
  Silent = {"me"}
CHECK_DEADLOCK FALSE
INVARIANTS KeeperDrained SessionTrulyDead
PROPERTIES DownloadsSettle
