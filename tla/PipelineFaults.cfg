SPECIFICATION Spec
CONSTANTS
  u1 = u1
  u2 = u2
  Url = {"x"}
  Source = {"s", "t", "test"}
  User = {u1, u2}
  Update = {"update"}
  Subscribe = {"subscribe"}
  user <- MCUser
  handle <- MCHandle
  Link = {"x", "x?a"}
  NoLink = "nothing"
  normalizeUrl <- MCNormalizeUrl
  typed <- MCTyped
  Status <- SharedLink
  Test = {"test"}
  Subscribed <- TwoSubscribed
  None = "none"
  HomeCount = 2
  UserCount = 1
  MaxRuns = 2
  MaxFaults = 1
INVARIANTS TypeOK FeedsAreWanted CleanUpdateDelivers UpdatesDeliverContent
CHECK_DEADLOCK FALSE
