SPECIFICATION BrowsingFairSpec
CONSTANTS
  Loadable <- MCLoadable
  Key <- MCKey
  key <- MCKeyOf
  priority <- MCPriority
  AllPoints = {"view"}
  AlreadyInflight = {}
  MaxLoads = 1
  MaxQueue = 2
  NoTask = NoTask
  Article <- MCArticle
  canonical <- MCCanonical
  image <- MCImage
  look <- MCLook
  CellLoad <- MCCellLoad
  SoonLoad <- MCSoonLoad
  ListLoad <- MCListLoad
  HtmlLoad = "view"
  Shows <- MCShows
  NoArticle = NoArticle
  NoImage = NoImage
  NoLoadable = NoLoadable
INVARIANTS BrowsingTypeOK ShowsItsArticle PendingIsWanted PointsBalance NothingStranded
PROPERTIES HighestPriorityFirst EveryLoadAnswered ImageAppears
CHECK_DEADLOCK FALSE
