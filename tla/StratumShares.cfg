SPECIFICATION Spec
CONSTANTS
  ChannelCap = 1
  Difficulties = {1}
  MaxConns = 2
  MaxJobs = 1
  MaxShares = 2
  WireCap = 1
INVARIANTS
  AccountsBalance
PROPERTIES
  StopClosesClient
  QueuedShareSubmitted
CHECK_DEADLOCK FALSE
