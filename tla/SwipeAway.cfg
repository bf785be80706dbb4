SPECIFICATION FairSpec
CONSTANTS
  MaxTouches = 3
  Direction = {"right", "down", "left", "up"}
  direction = "right"
  Zero = "zero"
INVARIANTS PansTheRightWay DismissedOffScreen BehaviorsAsSet
PROPERTIES Settles
CHECK_DEADLOCK FALSE
