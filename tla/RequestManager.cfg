\* load() may be called again for the same loadable, two share a key and one is
\* alreadyInflight.
CONSTANTS
  Loadable <- FeedLoadable
  Key <- FeedKey
  key <- FeedKeyOf
  priority <- FeedPriority
  AllPoints = {"html"}
  AlreadyInflight = {"cell"}
  MaxLoads = 2
  MaxQueue = 3
  NoTask = NoTask
SPECIFICATION Spec
CHECK_DEADLOCK FALSE
INVARIANTS OneLoadPerKey LoadsAreKept
PROPERTIES CancelledStaysSilent
