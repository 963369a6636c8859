SPECIFICATION Spec
CONSTANTS
  Base = 4
  WordLen = 3
  DigestWords = 3
  CounterLen = 2
  Diff1Exponent = 7
  Precision = 8
  MaxExponent = 20
  Jobs <- MCJobs
  Difficulties <- MCDifficulties
  Sizes = {2}
  Nonces = {27}
  MaxSessions = 1
  QueueCap = 1
INVARIANTS
  FoundIsLowEnough
CHECK_DEADLOCK FALSE
