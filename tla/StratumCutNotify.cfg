\* Expected violation: a notify is cut and the job never handed on.
CONSTANTS
  ChannelCap = 1
  Difficulties = {1}
  MaxConns = 1
  MaxJobs = 2
  MaxShares = 1
  WireCap = 2
SPECIFICATION Spec
INVARIANTS
  LatestJobPublished
CHECK_DEADLOCK FALSE
