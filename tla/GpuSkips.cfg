SPECIFICATION Spec
CONSTANTS
  MaxJobs = 1
  Width = 6
  BatchSize = 4
  MinBatch = 1
  Intensities = {50, 100}
  Winning <- MCWinning
INVARIANT NoNonceSkipped
CHECK_DEADLOCK FALSE
