SPECIFICATION FairSpec
CONSTANTS
  Segment = {"s1", "s2"}
  Restart = {"r1", "r2"}
  MaxCrashes = 2
  MaxRefused = 1
  MaxHandlers = 3
INVARIANTS ChainAlive ChainsAreExplained
PROPERTIES ChainsNeverMerge UpdatesGoOn
CHECK_DEADLOCK FALSE
