SPECIFICATION Spec
CONSTANTS
  Base = 4
  WordLen = 3
  DigestWords = 3
  CounterLen = 2
  Diff1Exponent = 7
  Precision = 8
  MaxExponent = 20
  Jobs <- MCJobs
  Difficulties <- MCDifficulties
  Sizes = {2, 3}
  Nonces = {27}
  MaxSessions = 2
  QueueCap = 1
INVARIANTS
  PoolRebuildsHeader
  HashesAgree
  TestsAgree
  TargetIsQuotient
  TargetIsNear
CHECK_DEADLOCK FALSE
