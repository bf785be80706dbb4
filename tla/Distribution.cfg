SPECIFICATION FairSpec
CONSTANTS
  Article <- MCArticle
  User <- MCUser
  subscribers <- MCSubscribers
INVARIANTS LeaksOnlyAfterFailure
PROPERTIES HandlerReturns KeepsPromise
CHECK_DEADLOCK FALSE
