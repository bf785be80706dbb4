SPECIFICATION Spec
CONSTANTS
  u1 = u1
  u2 = u2
  Url = {"x"}
  Source = {"s"}
  User = {u1, u2}
  Update = {"update"}
  Subscribe = {"subscribe"}
  user <- MCUser
  handle <- MCHandle
  Link = {"x"}
  NoLink = "nothing"
  normalizeUrl <- MCNormalizeUrl
  typed <- MCTyped
  Status <- OneSource
  Test = {}
  Subscribed <- MCSubscribed
  None = "none"
  HomeCount = 1
  UserCount = 1
  MaxRuns = 2
  MaxFaults = 1
INVARIANT IgnoresExisting
CHECK_DEADLOCK FALSE
