CONSTANTS
  Loadable <- BurstLoadable
  Key <- BurstLoadable
  key <- BurstKeyOf
  priority <- BurstPriority
  AllPoints = {}
  AlreadyInflight = {}
  MaxLoads = 1
  MaxQueue = 1
  NoTask = NoTask
SPECIFICATION BurstSpec
CHECK_DEADLOCK FALSE
INVARIANTS TenConcurrentAllowed
