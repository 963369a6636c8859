SPECIFICATION Spec
CONSTANTS
  NumWorkers = 2
  NonceMax = 5
  CheckInterval = 2
  MaxJobs = 2
  HistoryCap = 2
  Winning <- MCWinning
INVARIANTS
  FreshWork
  StaleBatchBound
  WinsReported
  EachNonceOnce
PROPERTIES
  QuietWhenDown
  StopLeadsToDown
  AnnouncedWorkFetched
  LastJobSearched
CHECK_DEADLOCK FALSE
