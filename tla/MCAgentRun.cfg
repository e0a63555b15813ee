SPECIFICATION Spec
CONSTANTS
  Calls <- CallIds
  MaxGeneration = 1
  None = None
  MaxCalls = 2
  MaxExchanges = 2
  Scenes <- ShortScenes
  MaxIterations = 2
  MaxRetries = 1
  MaxMessages = 7
  KeepRecent = 2
INVARIANTS
  TypeOK
  ExchangesWhole
  RememberedAsStored
  ExecutedAsApproved
PROPERTY
  RunEnds
CHECK_DEADLOCK FALSE
