SPECIFICATION FairSpec
CONSTANTS
  MaxArticles = 3
  Title = {"a", "b"}
  MaxTouches = 3
  MaxReloads = 2
  NoPage = NoPage
INVARIANTS OnePagePerSwipe PressedIsTouched
PROPERTY ComesToRest
CHECK_DEADLOCK FALSE
