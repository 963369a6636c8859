SPECIFICATION Spec
CONSTANTS
  MaxJobs = 2
  Width = 8
  BatchSize = 4
  MinBatch = 2
  Intensities = {25, 100}
  Winning <- MCWinning
INVARIANTS
  HeldWorkIsFresh
  SharesAreWins
PROPERTIES
  StopEndsThread
  AnnouncedWorkMined
CHECK_DEADLOCK FALSE
