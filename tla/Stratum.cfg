SPECIFICATION Spec
CONSTANTS
  ChannelCap = 1
  Difficulties = {1, 2}
  MaxConns = 2
  MaxJobs = 2
  MaxShares = 1
  WireCap = 2
INVARIANTS
  WorkCarriesExtranonce
  WorkHasDifficulty
  WholeJobPublished
CHECK_DEADLOCK FALSE
