SPECIFICATION Spec
CONSTANTS
  u1 = u1
  u2 = u2
  Url = {"x", "y"}
  Source = {"s"}
  User = {u1, u2}
  Update = {update1, update2}
  Subscribe = {"subscribe"}
  user <- MCUser
  handle <- MCHandle
  Link = {"x", "y"}
  NoLink = "nothing"
  normalizeUrl <- MCNormalizeUrl
  typed <- MCTyped
  Status <- OneSource
  Test = {}
  Subscribed <- MCSubscribed
  None = "none"
  HomeCount = 2
  UserCount = 1
  MaxRuns = 1
  MaxFaults = 0
INVARIANTS NothingMissed SubscribedUserIsServed
SYMMETRY UpdateSymmetry
CHECK_DEADLOCK FALSE
