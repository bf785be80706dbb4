SPECIFICATION FairSpec
CONSTANTS
  Doc <- MCDoc
  Source <- MCSource
  source <- MCSourceOf
  NoSource = "none"
  NoDoc = "nil"
  Unset = "unset"
  docsPerPage = 2
  MaxWrites = 3
  MaxAppears = 1
  MayFail = TRUE
INVARIANTS TypeOK OneFetchAtATime IdleIsCurrent MoreMeansFullPage ShowsTheDocuments
PROPERTIES FailureIsTerminal FreshInTheEnd
CHECK_DEADLOCK FALSE
